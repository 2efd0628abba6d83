---------------------------- MODULE ServerProofs ----------------------------
(***************************************************************************)
(* Theorems about server processes on one data directory: the signing key  *)
(* they share, the audit log and its retention, and the sessions behind    *)
(* changes of API keys, for every number of processes and configurations.  *)
(***************************************************************************)
EXTENDS Server, TLAPS, FiniteSetTheorems

WF == INSTANCE WellFoundedInduction

(* A transaction and a best-effort event, as they wait to be written.      *)
Changes == [proc : Procs \cup {CLI}, actor : Actors, action : Actions, key : Nat, at : Nat]
Notices == [proc : Procs, actor : Admins, action : {"login"}, key : {0}, at : Nat]

(* An API key with the time of its last change.                            *)
KeyRows == [state : {"active", "revoked", "deleted"}, at : Nat]

Cleaners == [due : Int, cutoff : Seq(Int), cleaned : BOOLEAN, failures : Nat]

ServerTypeOK ==
    /\ now \in 0..MaxTime
    /\ lastAudit \in Nat
    /\ DOMAIN audits \subseteq 1..lastAudit /\ \A i \in DOMAIN audits : audits[i] \in Rows
    /\ apiKeys \in Seq(KeyRows)
    /\ tx \in Seq(Changes) /\ Len(tx) <= 1
    /\ DOMAIN waiting \subseteq Notices
    /\ cleaner \in [Procs -> Cleaners]
    /\ proc \in [Procs -> Seq(Configs)] /\ \A p \in Procs : Len(proc[p]) <= 1

(* Times are read from one clock: what is written was decided before.      *)
TimesAreOrdered ==
    /\ \A i \in DOMAIN audits : audits[i].at <= audits[i].in /\ audits[i].in <= now
    /\ \A event \in DOMAIN waiting : event.at <= now
    /\ \A k \in DOMAIN apiKeys : apiKeys[k].at <= now
    /\ tx # <<>> => tx[1].at <= now /\ \A k \in DOMAIN apiKeys : apiKeys[k].at <= tx[1].at

(* The transaction under way is still allowed: it holds the write lock.    *)
TransactionIsAllowed == tx # <<>> => Allowed(tx[1].action, tx[1].key)

(* Events are about keys that exist.                                       *)
EventsAreOfKeys == \A i \in DOMAIN audits : audits[i].key \in DOMAIN apiKeys \cup {0}

(* The newest event of a key is also the latest of its events in time, and *)
(* carries the time of the key's last change; or all of them are too old.  *)
KeyIsTold(k) ==
    \/ /\ EventsOf(k) = {}
       /\ \E c \in Configs : c.retention > 0 /\ apiKeys[k].at < now - c.retention
    \/ \E i \in EventsOf(k) :
         /\ \A j \in EventsOf(k) : j <= i /\ audits[j].at <= apiKeys[k].at
         /\ audits[i].at = apiKeys[k].at
         /\ Outcome(audits[i].action) = apiKeys[k].state

(* A cleanup that is under way uses the retention of its process and the   *)
(* present time, and time never passes one that is due.                    *)
CleanerIsOnTime(p) ==
    /\ ~Running(p) => cleaner[p] = NoCleaner
    /\ cleaner[p].due = -1 => cleaner[p].cutoff = <<>> /\ ~cleaner[p].cleaned
    /\ cleaner[p].due # -1 =>
         /\ Running(p) /\ proc[p][1].retention > 0
         /\ now <= cleaner[p].due /\ cleaner[p].due <= now + CleanupInterval
    /\ cleaner[p].cutoff # <<>> =>
         /\ Len(cleaner[p].cutoff) = 1 /\ cleaner[p].cutoff[1] = now - proc[p][1].retention
         /\ cleaner[p].due = now + CleanupInterval

(* The cleanups that an event may have survived since the last success.    *)
Missed(p) == cleaner[p].failures + (IF cleaner[p].cutoff # <<>> THEN 1 ELSE 0)

(* What the last successful cleanup of a process left, and what came since.*)
LogIsClean(p) ==
    cleaner[p].cleaned =>
        \A i \in DOMAIN audits :
            audits[i].in + proc[p][1].retention + Missed(p) * CleanupInterval
                >= cleaner[p].due - CleanupInterval

AuditInv ==
    /\ ServerTypeOK
    /\ TimesAreOrdered
    /\ TransactionIsAllowed
    /\ EventsAreOfKeys
    /\ \A k \in DOMAIN apiKeys : KeyIsTold(k)
    /\ \A p \in Procs : CleanerIsOnTime(p) /\ LogIsClean(p)

(* The key on disk was generated, is the one of every store that is ready  *)
(* and of everything served.                                               *)
SigningInv ==
    /\ made \in Nat
    /\ keyFile \in Seq([key : 1..made, master : {c.master : c \in Configs}]) /\ Len(keyFile) <= 1
    /\ store \in [Signers -> [pc : {"new", "read", "link", "reread", "ready", "failed"},
                              key : 0..made]]
    /\ \A p \in Signers :
         /\ store[p].pc = "ready" => keyFile # <<>> /\ keyFile[1].key = store[p].key
         /\ store[p].pc = "link" => store[p].key # 0
    /\ \A k \in served : keyFile # <<>> /\ keyFile[1].key = k

(* A session lasts SessionDuration from the sign-in that issued it.        *)
SessionInv ==
    /\ now \in Nat
    /\ \A s \in sessions : s.actor \in Admins /\ s.at \in Nat /\ s.expires = s.at + SessionDuration

(* The first entry of a sequence that is not empty.                        *)
LEMMA FirstOf ==
    ASSUME NEW S, NEW q \in Seq(S), q # <<>>
    PROVE  q[1] \in S /\ Len(q) \in Nat /\ Len(q) >= 1 /\ 1 \in DOMAIN q
OBVIOUS

(* The entries of the tables and of the transaction have their types.      *)
LEMMA EntryTypes ==
    ASSUME ServerTypeOK
    PROVE  /\ now \in Nat
           /\ \A k \in DOMAIN apiKeys : apiKeys[k] \in KeyRows /\ apiKeys[k].at \in Nat
           /\ tx # <<>> => tx[1] \in Changes /\ tx[1].at \in Nat
           /\ \A event \in DOMAIN waiting : event.at \in Nat /\ event.key = 0
           /\ \A i \in DOMAIN audits : audits[i].at \in Nat /\ audits[i].in \in Nat /\ i \in Nat
<1>1. \A k \in DOMAIN apiKeys : apiKeys[k] \in KeyRows
    BY DEF ServerTypeOK
<1>2. \A k \in DOMAIN apiKeys : apiKeys[k].at \in Nat
    BY <1>1 DEF KeyRows
<1>3. tx # <<>> => tx[1] \in Changes
    BY FirstOf DEF ServerTypeOK
<1>4. tx # <<>> => tx[1].at \in Nat
    BY <1>3 DEF Changes
<1>5. \A event \in DOMAIN waiting : event.at \in Nat /\ event.key = 0
    BY DEF ServerTypeOK, Notices
<1>6. \A i \in DOMAIN audits : audits[i].at \in Nat /\ audits[i].in \in Nat /\ i \in Nat
    BY DEF ServerTypeOK, Rows
<1> QED
    BY <1>1, <1>2, <1>3, <1>4, <1>5, <1>6 DEF ServerTypeOK

----------------------------------------------------------------------------
(* The signing key *)

(* What one step may do to the signing key and the stores.                 *)
SigningMove ==
    \/ UNCHANGED signingVars
    \/ \E p \in Procs : store' = [store EXCEPT ![p] = NewStore] /\ UNCHANGED <<keyFile, made, served>>
    \/ \E p \in Procs : FirstRequest(p) \/ InitializeFails(p) \/ Serve(p)
    \/ \E p \in Procs, c \in Configs : ReadKey(p, c.master) \/ Link(p, c.master)

(* Every step is one step of initialize, a request, a stop, or none.       *)
LEMMA EveryStepIsASigningMove ==
    ASSUME ServerTypeOK, [Next]_vars
    PROVE  SigningMove \/ \E p \in Procs : InitializeFails(p)
<1> USE DEF SigningMove
<1>1. CASE UNCHANGED vars
    BY <1>1 DEF vars
<1>2. ASSUME NEW p \in Procs, NEW c \in Configs, Start(p, c) PROVE SigningMove
    BY <1>2 DEF Start
<1>3. ASSUME NEW p \in Procs, Stop(p) PROVE SigningMove
    BY <1>3 DEF Stop
<1>4. ASSUME NEW p \in Procs, OpenLog(p) PROVE SigningMove
    BY <1>4 DEF OpenLog
<1>5. ASSUME NEW p \in Procs, NEW actor, SignIn(p, actor) PROVE SigningMove
    BY <1>5 DEF SignIn
<1>6. ASSUME NEW p, NEW session, NEW action, NEW k, Change(p, session, action, k)
      PROVE  SigningMove
    BY <1>6 DEF Change
<1>7. ASSUME NEW action, NEW k, ChangeByCommand(action, k) PROVE SigningMove
    BY <1>7 DEF ChangeByCommand
<1>8. CASE AuditStep
    BY <1>8 DEF AuditStep
<1>9. CASE AuditFault
    BY <1>9 DEF AuditFault
<1>10. ASSUME NEW p \in Procs, SigningRequest(p) PROVE SigningMove
    BY <1>10 DEF SigningRequest
<1>11. ASSUME NEW p \in Procs, SigningStep(p) PROVE SigningMove
  <2>1. Running(p) /\ proc[p] \in Seq(Configs)
    BY <1>11 DEF SigningStep, ServerTypeOK
  <2>2. proc[p][1] \in Configs
    BY <2>1 DEF Running
  <2> QED
    BY <1>11, <2>2 DEF SigningStep
<1>12. ASSUME NEW p \in Procs, SigningFault(p) PROVE InitializeFails(p)
    BY <1>12 DEF SigningFault
<1> QED
    BY <1>1, <1>2, <1>3, <1>4, <1>5, <1>6, <1>7, <1>8, <1>9, <1>10, <1>11, <1>12 DEF Next

(* The key file, once there, is the only key any process serves.           *)
LEMMA SigningStepKeeps ==
    ASSUME ServerTypeOK, SigningInv, [Next]_vars
    PROVE  SigningInv'
<1> DEFINE Masters == {c.master : c \in Configs}
           Places == {"new", "read", "link", "reread", "ready", "failed"}
<1>0. /\ Signers = Procs /\ made \in Nat
      /\ keyFile \in Seq([key : 1..made, master : Masters]) /\ Len(keyFile) <= 1
      /\ store \in [Procs -> [pc : Places, key : 0..made]]
    BY ServerAssumption DEF SigningInv
<1>k. keyFile # <<>> => keyFile[1] \in [key : 1..made, master : Masters]
  <2> HIDE DEF Masters
  <2> QED
    BY <1>0, FirstOf
<1>1. CASE UNCHANGED signingVars
    BY <1>1 DEF signingVars, SigningInv
<1>2. ASSUME NEW p \in Procs, NEW s \in [pc : Places, key : 0..made],
             store' = [store EXCEPT ![p] = s], UNCHANGED <<keyFile, made>>,
             s.pc = "ready" => keyFile # <<>> /\ keyFile[1].key = s.key,
             s.pc = "link" => s.key # 0, served' = served
      PROVE  SigningInv'
  <2>1. store' \in [Procs -> [pc : Places, key : 0..made]]
    BY <1>0, <1>2
  <2>2. \A q \in Procs : store'[q] = IF q = p THEN s ELSE store[q]
    BY <1>0, <1>2
  <2> QED
    BY <1>0, <1>2, <2>1, <2>2 DEF SigningInv
<1>n. NewStore \in [pc : Places, key : 0..made] /\ NewStore.pc = "new"
    BY <1>0 DEF NewStore
<1>3. ASSUME NEW p \in Procs, store' = [store EXCEPT ![p] = NewStore],
             UNCHANGED <<keyFile, made, served>>
      PROVE  SigningInv'
  <2> HIDE DEF Places, Masters
  <2> QED
    BY <1>2, <1>3, <1>n
<1>4. ASSUME NEW p \in Procs, FirstRequest(p) \/ InitializeFails(p) PROVE SigningInv'
  <2>1. PICK a \in {"read", "failed"} : To(p, a) /\ UNCHANGED <<keyFile, made, served>>
    BY <1>4 DEF FirstRequest, InitializeFails
  <2>2. store' = [store EXCEPT ![p] = [store[p] EXCEPT !.pc = a]]
    BY <2>1 DEF To
  <2>3. store[p] \in [pc : Places, key : 0..made]
    BY <1>0
  <2>4. [store[p] EXCEPT !.pc = a] \in [pc : Places, key : 0..made]
        /\ [store[p] EXCEPT !.pc = a].pc = a
    BY <2>3
  <2> HIDE DEF Places, Masters
  <2> QED
    BY <1>2, <2>1, <2>2, <2>4
<1>5. ASSUME NEW p \in Procs, Serve(p) PROVE SigningInv'
  <2>1. store[p].pc = "ready" /\ served' = served \cup {store[p].key}
        /\ UNCHANGED <<keyFile, made, store>>
    BY <1>5 DEF Serve
  <2> QED
    BY <1>0, <2>1 DEF SigningInv
<1>6. ASSUME NEW p \in Procs, NEW c \in Configs, ReadKey(p, c.master) PROVE SigningInv'
  <2>1. store[p] \in [pc : Places, key : 0..made] /\ UNCHANGED <<keyFile, served>>
    BY <1>0, <1>6 DEF ReadKey
  <2>2. CASE keyFile # <<>>
    <3>1. PICK s \in {[pc |-> "ready", key |-> keyFile[1].key], [pc |-> "failed", key |-> 0]} :
              store' = [store EXCEPT ![p] = s] /\ made' = made
      BY <1>6, <2>2 DEF ReadKey
    <3>2. s \in [pc : Places, key : 0..made] /\ s.pc # "link"
          /\ (s.pc = "ready" => keyFile[1].key = s.key)
      BY <1>0, <1>k, <2>2, <3>1
    <3> HIDE DEF Places, Masters
    <3> QED
      BY <1>2, <2>1, <2>2, <3>1, <3>2
  <2>3. CASE keyFile = <<>>
    <3>1. PICK s \in {[pc |-> "link", key |-> made + 1], [pc |-> "failed", key |-> made + 1]} :
              store' = [store EXCEPT ![p] = s] /\ made' = made + 1
      BY <1>6, <2>3 DEF ReadKey
    <3>2. s \in [pc : Places, key : 0..(made + 1)] /\ s.pc # "ready" /\ s.key = made + 1
      BY <1>0, <3>1
    <3>3. \A q \in Procs : store[q] \in [pc : Places, key : 0..(made + 1)]
      BY <1>0
    <3>4. store' \in [Procs -> [pc : Places, key : 0..(made + 1)]]
      BY <1>0, <3>1, <3>2, <3>3
    <3>5. \A q \in Procs : store'[q] = IF q = p THEN s ELSE store[q]
      BY <1>0, <3>1
    <3>6. keyFile' \in Seq([key : 1..made', master : Masters]) /\ Len(keyFile') <= 1
      BY <1>0, <2>1, <2>3
    <3>7. made' \in Nat /\ made + 1 # 0
      BY <1>0, <3>1
    <3>8. served = {}
      BY <2>3 DEF SigningInv
    <3>9. \A q \in Signers : store'[q].pc # "ready" /\ (store'[q].pc = "link" => store'[q].key # 0)
      BY <1>0, <2>3, <3>2, <3>5, <3>7 DEF SigningInv
    <3> QED
      BY <1>0, <2>1, <3>1, <3>4, <3>6, <3>7, <3>8, <3>9 DEF SigningInv
  <2> QED
    BY <2>2, <2>3
<1>7. ASSUME NEW p \in Procs, NEW c \in Configs, Link(p, c.master) PROVE SigningInv'
  <2>1. store[p] \in [pc : Places, key : 0..made] /\ store[p].pc = "link" /\ store[p].key # 0
        /\ UNCHANGED <<made, served>>
    BY <1>0, <1>7 DEF Link, SigningInv
  <2>2. CASE keyFile # <<>>
    <3>1. store' = [store EXCEPT ![p] = [store[p] EXCEPT !.pc = "reread"]] /\ keyFile' = keyFile
      BY <1>7, <2>2 DEF Link, To
    <3>2. [store[p] EXCEPT !.pc = "reread"] \in [pc : Places, key : 0..made]
          /\ [store[p] EXCEPT !.pc = "reread"].pc = "reread"
      BY <2>1
    <3> HIDE DEF Places, Masters
    <3> QED
      BY <1>2, <2>1, <3>1, <3>2
  <2>3. CASE keyFile = <<>>
    <3> DEFINE f == [key |-> store[p].key, master |-> c.master]
               s == [store[p] EXCEPT !.pc = "ready"]
    <3>1. store' = [store EXCEPT ![p] = s] /\ keyFile' = <<f>>
      BY <1>7, <2>3 DEF Link, To
    <3>2. s \in [pc : Places, key : 0..made] /\ s.pc = "ready" /\ s.key = store[p].key
      BY <2>1
    <3>3. f \in [key : 1..made, master : Masters]
      BY <1>0, <2>1
    <3>4. keyFile' \in Seq([key : 1..made, master : Masters]) /\ Len(keyFile') <= 1
          /\ keyFile' # <<>> /\ keyFile'[1].key = store[p].key
      BY <3>1, <3>3
    <3>5. \A q \in Procs : store'[q] = IF q = p THEN s ELSE store[q]
      BY <1>0, <3>1
    <3>6. store' \in [Procs -> [pc : Places, key : 0..made]]
      BY <1>0, <3>1, <3>2
    <3>7. served = {} /\ \A q \in Procs : store[q].pc # "ready"
      BY <1>0, <2>3 DEF SigningInv
    <3>8. \A q \in Procs : /\ store'[q].pc = "ready" => store'[q].key = store[p].key
                           /\ store'[q].pc = "link" => store'[q].key # 0
      BY <1>0, <3>2, <3>5, <3>7 DEF SigningInv
    <3> HIDE DEF f, s
    <3> QED
      BY <1>0, <2>1, <3>4, <3>6, <3>7, <3>8 DEF SigningInv
  <2> QED
    BY <2>2, <2>3
<1> QED
    BY <1>1, <1>3, <1>4, <1>5, <1>6, <1>7, EveryStepIsASigningMove DEF SigningMove

(* The signing key, as clients see it: a step chooses it, serves it, or    *)
(* neither.                                                                *)
LEMMA KeyStep ==
    ASSUME ServerTypeOK, SigningInv, [Next]_vars
    PROVE  [Agreement!Next]_(Agreement!vars)
<1> DEFINE disk == {keyFile[i].key : i \in DOMAIN keyFile}
<1>0. Signers = Procs /\ \A p \in Procs : p \in DOMAIN store
    BY ServerAssumption DEF SigningInv
<1>1. SUFFICES ASSUME ~UNCHANGED <<keyFile, served>> PROVE Agreement!Next
    BY DEF Agreement!vars
<1>2. \/ \E p \in Procs, c \in Configs : Link(p, c.master)
      \/ \E p \in Procs : Serve(p)
    BY <1>1, EveryStepIsASigningMove DEF SigningMove, signingVars, FirstRequest, InitializeFails, ReadKey
<1>3. ASSUME NEW p \in Procs, NEW c \in Configs, Link(p, c.master) PROVE Agreement!Choose
  <2>1. served' = served /\ keyFile = <<>> /\ keyFile' = <<[key |-> store[p].key, master |-> c.master]>>
    BY <1>1, <1>3 DEF Link
  <2>2. disk = {}
    BY <2>1
  <2>3. disk' = {store[p].key}
    BY <2>1
  <2> QED
    BY <2>1, <2>2, <2>3 DEF Agreement!Choose
<1>4. ASSUME NEW p \in Procs, Serve(p) PROVE Agreement!Serve
  <2>1. keyFile' = keyFile /\ served' = served \cup {store[p].key} /\ store[p].pc = "ready"
    BY <1>4 DEF Serve
  <2>2. keyFile # <<>> /\ keyFile[1].key = store[p].key /\ served \subseteq {keyFile[1].key}
    BY <1>0, <2>1 DEF SigningInv
  <2>3. disk = {keyFile[1].key}
    <3> DEFINE Masters == {c.master : c \in Configs}
    <3>1. keyFile \in Seq([key : 1..made, master : Masters]) /\ Len(keyFile) <= 1
      BY DEF SigningInv
    <3>2. DOMAIN keyFile = {1}
      <4> HIDE DEF Masters
      <4>1. DOMAIN keyFile = 1..Len(keyFile) /\ Len(keyFile) \in Nat /\ Len(keyFile) >= 1
        BY <2>2, <3>1
      <4>2. Len(keyFile) = 1
        BY <3>1, <4>1
      <4> QED
        BY <4>1, <4>2
    <3> QED
      BY <3>2
  <2>4. disk' = disk
    BY <2>1
  <2> QED
    BY <2>1, <2>2, <2>3, <2>4 DEF Agreement!Serve
<1> QED
    BY <1>2, <1>3, <1>4 DEF Agreement!Next

----------------------------------------------------------------------------
(* The audit log *)

(* A change of a key begins: the lock is taken at the present time.        *)
Begins(change) ==
    /\ tx = <<>> /\ tx' = <<change>>
    /\ Allowed(change.action, change.key) /\ change.at = now
    /\ UNCHANGED <<now, audits, lastAudit, apiKeys, waiting, cleaner, proc>>

(* Only what waits to be written changes: it is dropped, or a notice of    *)
(* the present time is added.                                              *)
WaitingChanges ==
    /\ tx' \in {tx, <<>>}
    /\ \A event \in DOMAIN waiting' :
         event \in DOMAIN waiting \/ (event \in Notices /\ event.at = now)
    /\ UNCHANGED <<now, audits, lastAudit, apiKeys, cleaner, proc>>

(* What one step may do to the audit log and what surrounds it.            *)
AuditMove ==
    \/ WaitingChanges
    \/ Tick /\ UNCHANGED proc
    \/ \E change \in Changes : Begins(change)
    \/ Commit /\ UNCHANGED proc
    \/ \E event \in DOMAIN waiting : Record(event) /\ UNCHANGED proc
    \/ \E p \in Procs : Running(p) /\ CleanupBegins(p, proc[p][1].retention) /\ UNCHANGED proc
    \/ \E p \in Procs : DeleteBefore(p) /\ UNCHANGED proc
    \/ \E p \in Procs : CleanupFails(p) /\ UNCHANGED proc
    \/ \E p \in Procs, c \in Configs : Start(p, c)
    \/ \E p \in Procs : Stop(p)

(* Taking an element out of a bag adds none.                               *)
LEMMA BagRemoveDomain ==
    ASSUME NEW B, NEW x
    PROVE  DOMAIN BagRemove(B, x) \subseteq DOMAIN B
BY DEF BagRemove

(* Adding an element to a bag adds no other.                               *)
LEMMA BagAddDomain ==
    ASSUME NEW B, NEW x
    PROVE  DOMAIN BagAdd(B, x) = DOMAIN B \cup {x}
BY DEF BagAdd

(* Every step is one of these.                                             *)
LEMMA EveryStepIsAnAuditMove ==
    ASSUME ServerTypeOK, SessionInv, [Next]_vars
    PROVE  AuditMove
<1> USE DEF AuditMove
<1>0. now \in Nat
    BY DEF SessionInv
<1>1. CASE UNCHANGED <<now, auditVars, proc>>
    BY <1>1 DEF auditVars, WaitingChanges
<1>2. ASSUME NEW p \in Procs, OpenLog(p) PROVE AuditMove
    BY <1>2 DEF OpenLog, Open, WaitingChanges
<1>3. ASSUME NEW p \in Procs, NEW actor \in Admins, SignIn(p, actor) PROVE AuditMove
  <2> DEFINE e == [proc |-> p, actor |-> actor, action |-> "login", key |-> 0, at |-> now]
  <2>1. e \in Notices /\ e.at = now
    BY <1>0 DEF Notices
  <2>2. waiting' = BagAdd(waiting, e)
        /\ UNCHANGED <<now, audits, lastAudit, apiKeys, tx, cleaner, proc>>
    BY <1>3 DEF SignIn, Announce
  <2>3. DOMAIN waiting' = DOMAIN waiting \cup {e}
    BY <2>2, BagAddDomain
  <2> HIDE DEF e
  <2> QED
    BY <2>1, <2>2, <2>3 DEF WaitingChanges
<1>4. ASSUME NEW p \in Procs \cup {CLI}, NEW actor \in Actors, NEW action \in Actions,
             NEW k \in 1..Len(apiKeys) + 1, Begin(p, actor, action, k), UNCHANGED proc
      PROVE  AuditMove
  <2> DEFINE ch == [proc |-> p, actor |-> actor, action |-> action, key |-> k, at |-> now]
  <2>1. ch \in Changes
    BY <1>0 DEF Changes, ServerTypeOK
  <2>2. tx = <<>> /\ tx' = <<ch>> /\ Allowed(ch.action, ch.key) /\ ch.at = now
        /\ UNCHANGED <<now, audits, lastAudit, apiKeys, waiting, cleaner, proc>>
    BY <1>4 DEF Begin
  <2>3. Begins(ch)
    BY <2>2 DEF Begins
  <2> HIDE DEF ch
  <2> QED
    BY <2>1, <2>3
<1>5. ASSUME NEW p \in Procs, NEW session \in sessions, NEW action \in Actions,
             NEW k \in 1..Len(apiKeys) + 1, Change(p, session, action, k)
      PROVE  AuditMove
    BY <1>4, <1>5 DEF Change, SessionInv, Actors
<1>6. ASSUME NEW action \in Actions, NEW k \in 1..Len(apiKeys) + 1, ChangeByCommand(action, k)
      PROVE  AuditMove
    BY <1>4, <1>6 DEF ChangeByCommand, Actors
<1>7. CASE AuditStep
  <2>1. CASE Count \/ Find \/ Close
    BY <1>7, <2>1 DEF AuditStep, Count, Find, Close, WaitingChanges
  <2>2. CASE Tick \/ Commit \/ \E event \in DOMAIN waiting : Record(event)
    BY <1>7, <2>2 DEF AuditStep
  <2>3. CASE \E p \in Procs : Running(p) /\ (CleanupBegins(p, proc[p][1].retention) \/ DeleteBefore(p))
    BY <1>7, <2>3 DEF AuditStep
  <2> QED
    BY <1>7, <2>1, <2>2, <2>3 DEF AuditStep
<1>8. CASE AuditFault
  <2>1. CASE Rollback
    BY <1>8, <2>1 DEF AuditFault, Rollback, WaitingChanges
  <2>2. ASSUME NEW event, RecordFails(event) PROVE AuditMove
    BY <1>8, <2>2, BagRemoveDomain DEF AuditFault, RecordFails, WaitingChanges
  <2> QED
    BY <1>8, <2>1, <2>2 DEF AuditFault
<1>9. ASSUME NEW p \in Procs, SigningRequest(p) \/ SigningStep(p) \/ SigningFault(p) PROVE AuditMove
    BY <1>1, <1>9 DEF SigningRequest, SigningStep, SigningFault
<1>10. CASE UNCHANGED vars
    BY <1>1, <1>10 DEF vars
<1> QED
    BY <1>2, <1>3, <1>5, <1>6, <1>7, <1>8, <1>9, <1>10 DEF Next

(* A row that is inserted, with all the others.                            *)
LEMMA InsertIs ==
    ASSUME ServerTypeOK, NEW row \in Rows, Insert(row)
    PROVE  /\ lastAudit' = lastAudit + 1 /\ lastAudit' \in Nat
           /\ lastAudit' \notin DOMAIN audits /\ \A i \in DOMAIN audits : i < lastAudit'
           /\ DOMAIN audits' = DOMAIN audits \cup {lastAudit'}
           /\ audits'[lastAudit'] = row
           /\ \A i \in DOMAIN audits : audits'[i] = audits[i]
           /\ DOMAIN audits' \subseteq 1..lastAudit' /\ \A i \in DOMAIN audits' : audits'[i] \in Rows
<1>1. lastAudit' = lastAudit + 1 /\ lastAudit' \in Nat
      /\ audits' = [i \in DOMAIN audits \cup {lastAudit'} |-> IF i = lastAudit' THEN row ELSE audits[i]]
    BY DEF Insert, ServerTypeOK
<1>2. \A i \in DOMAIN audits : i < lastAudit' /\ i \in 1..lastAudit
    BY <1>1 DEF ServerTypeOK
<1>3. lastAudit' \notin DOMAIN audits
    BY <1>1, <1>2
<1>4. DOMAIN audits' = DOMAIN audits \cup {lastAudit'} /\ audits'[lastAudit'] = row
      /\ \A i \in DOMAIN audits : audits'[i] = audits[i]
    BY <1>1, <1>3
<1>5. DOMAIN audits' \subseteq 1..lastAudit' /\ \A i \in DOMAIN audits' : audits'[i] \in Rows
    BY <1>1, <1>2, <1>4 DEF ServerTypeOK
<1> QED
    BY <1>1, <1>2, <1>3, <1>4, <1>5

(* A committed change is one of the three, for a key that may take it.     *)
LEMMA CommitIs ==
    ASSUME ServerTypeOK, TransactionIsAllowed, Commit
    PROVE  /\ tx[1] \in Changes /\ tx[1].key \in 1..Len(apiKeys) + 1
           /\ Row(tx[1]) \in Rows
           /\ Outcome(tx[1].action) \in {"active", "revoked", "deleted"}
           /\ apiKeys' \in Seq(KeyRows)
           /\ DOMAIN apiKeys' = DOMAIN apiKeys \cup {tx[1].key}
           /\ \A k \in DOMAIN apiKeys' :
                 IF k = tx[1].key
                 THEN apiKeys'[k].state = Outcome(tx[1].action) /\ apiKeys'[k].at = tx[1].at
                 ELSE apiKeys'[k] = apiKeys[k]
<1> DEFINE ch == tx[1]
           row == [state |-> Outcome(ch.action), at |-> ch.at]
<1>0. apiKeys \in Seq(KeyRows) /\ Len(apiKeys) \in Nat /\ DOMAIN apiKeys = 1..Len(apiKeys) /\ now \in Nat
    BY DEF ServerTypeOK
<1>1. ch \in Changes /\ Allowed(ch.action, ch.key)
    BY FirstOf DEF Commit, ServerTypeOK, TransactionIsAllowed
<1>2. ch.action \in Actions /\ ch.key \in Nat /\ ch.at \in Nat /\ ch.actor \in Actors
    BY <1>1 DEF Changes
<1>3. ch.action \in {"create", "revoke", "delete"}
    BY <1>2 DEF Actions
<1>4. ch.key \in 1..Len(apiKeys) + 1
  <2>1. CASE ch.action = "create"
    BY <1>0, <1>1, <2>1 DEF Allowed
  <2>2. CASE ch.action = "revoke"
    BY <1>0, <1>1, <2>2 DEF Allowed
  <2>3. CASE ch.action = "delete"
    BY <1>0, <1>1, <2>3 DEF Allowed
  <2> QED
    BY <1>3, <2>1, <2>2, <2>3
<1>5. Outcome(ch.action) \in {"active", "revoked", "deleted"}
    BY <1>3 DEF Outcome
<1>6. Row(ch) \in Rows
    BY <1>0, <1>2 DEF Row, Rows
<1>7. row \in KeyRows
    BY <1>2, <1>5 DEF KeyRows
<1>8. apiKeys' = [k \in DOMAIN apiKeys \cup {ch.key} |-> IF k = ch.key THEN row ELSE apiKeys[k]]
    BY DEF Commit, Apply
<1>9. \E n \in Nat : DOMAIN apiKeys \cup {ch.key} = 1..n
  <2>1. CASE ch.key = Len(apiKeys) + 1
    <3>1. DOMAIN apiKeys \cup {ch.key} = 1..(Len(apiKeys) + 1)
      BY <1>0, <2>1
    <3> QED
      BY <1>0, <3>1
  <2>2. CASE ch.key \in 1..Len(apiKeys)
    <3>1. DOMAIN apiKeys \cup {ch.key} = 1..Len(apiKeys)
      BY <1>0, <2>2
    <3> QED
      BY <1>0, <3>1
  <2> QED
    BY <1>0, <1>4, <2>1, <2>2
<1>10. \A k \in DOMAIN apiKeys : apiKeys[k] \in KeyRows
    BY <1>0
<1>11. apiKeys' \in Seq(KeyRows)
  <2> HIDE DEF row
  <2>1. PICK n \in Nat : DOMAIN apiKeys \cup {ch.key} = 1..n
    BY <1>9
  <2>2. apiKeys' \in [1..n -> KeyRows]
    BY <1>7, <1>8, <1>10, <2>1
  <2> QED
    BY <2>2
<1>12. DOMAIN apiKeys' = DOMAIN apiKeys \cup {ch.key}
       /\ \A k \in DOMAIN apiKeys' : IF k = ch.key THEN apiKeys'[k] = row ELSE apiKeys'[k] = apiKeys[k]
    BY <1>8
<1>13. row.state = Outcome(ch.action) /\ row.at = ch.at
    OBVIOUS
<1> QED
    BY <1>1, <1>4, <1>5, <1>6, <1>11, <1>12, <1>13
(* A key whose events and row stay is still told by its newest event.      *)
LEMMA KeyStaysTold ==
    ASSUME now \in Nat, now' \in Nat, now <= now', \A c \in Configs : c.retention \in Nat,
           NEW k, KeyIsTold(k), apiKeys'[k] = apiKeys[k], apiKeys[k].at \in Nat,
           EventsOf(k)' = EventsOf(k), \A i \in EventsOf(k) : audits'[i] = audits[i]
    PROVE  KeyIsTold(k)'
<1>1. CASE EventsOf(k) = {}
  <2>1. PICK c \in Configs : c.retention > 0 /\ apiKeys[k].at < now - c.retention
    BY <1>1 DEF KeyIsTold
  <2>2. apiKeys'[k].at < now' - c.retention
    BY <2>1
  <2> QED
    BY <1>1, <2>1, <2>2 DEF KeyIsTold
<1>2. ASSUME NEW i \in EventsOf(k),
             \A j \in EventsOf(k) : j <= i /\ audits[j].at <= apiKeys[k].at,
             audits[i].at = apiKeys[k].at, Outcome(audits[i].action) = apiKeys[k].state
      PROVE  KeyIsTold(k)'
  <2>1. \A j \in EventsOf(k)' : j <= i /\ audits'[j].at <= apiKeys'[k].at
    BY <1>2
  <2>2. i \in EventsOf(k)' /\ audits'[i].at = apiKeys'[k].at /\ Outcome(audits'[i].action) = apiKeys'[k].state
    BY <1>2
  <2> QED
    BY <2>1, <2>2 DEF KeyIsTold
<1> QED
    BY <1>1, <1>2 DEF KeyIsTold

(* What a change may do depends on the keys alone.                         *)
LEMMA AllowedStays ==
    ASSUME apiKeys' = apiKeys, NEW action, NEW k, Allowed(action, k)
    PROVE  Allowed(action, k)'
BY DEF Allowed

(* A process whose task and configuration stay is still on time.           *)
LEMMA CleanerStays ==
    ASSUME NEW p \in Procs, CleanerIsOnTime(p), cleaner'[p] = cleaner[p], proc'[p] = proc[p], now' = now
    PROVE  CleanerIsOnTime(p)'
BY DEF CleanerIsOnTime, Running

(* What is inserted is no older than what the last cleanup had to leave.   *)
LEMMA LogStaysClean ==
    ASSUME AuditInv, NEW p \in Procs, cleaner'[p] = cleaner[p], proc'[p] = proc[p],
           \A i \in DOMAIN audits' :
               \/ i \in DOMAIN audits /\ audits'[i] = audits[i]
               \/ audits'[i].in = now
    PROVE  LogIsClean(p)'
<1> SUFFICES ASSUME cleaner[p].cleaned, NEW i \in DOMAIN audits'
             PROVE  audits'[i].in + proc[p][1].retention + Missed(p) * CleanupInterval
                        >= cleaner[p].due - CleanupInterval
    BY DEF LogIsClean, Missed
<1>1. CASE i \in DOMAIN audits /\ audits'[i] = audits[i]
    BY <1>1 DEF AuditInv, LogIsClean
<1>2. CASE audits'[i].in = now
  <2>1. cleaner[p].due # -1 /\ cleaner[p] \in Cleaners
    BY DEF AuditInv, CleanerIsOnTime, ServerTypeOK
  <2>2. Running(p) /\ cleaner[p].due <= now + CleanupInterval
    BY <2>1 DEF AuditInv, CleanerIsOnTime
  <2>3. proc[p][1] \in Configs
    BY <2>2, FirstOf DEF AuditInv, ServerTypeOK, Running
  <2>4. proc[p][1].retention \in Nat
    BY <2>3, ServerAssumption
  <2>5. Missed(p) \in Nat
    BY <2>1 DEF Cleaners, Missed
  <2>6. CleanupInterval \in Nat
    BY AuditAssumption
  <2>7. Missed(p) * CleanupInterval \in Nat
    BY <2>5, <2>6
  <2>8. now \in Nat /\ cleaner[p].due \in Int
    BY <2>1 DEF AuditInv, ServerTypeOK, Cleaners
  <2> QED
    BY <1>2, <2>2, <2>4, <2>6, <2>7, <2>8
<1> QED
    BY <1>1, <1>2

(* The step of one process, or of none, leaves the others' tasks alone.    *)
LEMMA OthersStay ==
    ASSUME AuditInv, NEW p, cleaner' = [cleaner EXCEPT ![p] = cleaner'[p]],
           proc' = [proc EXCEPT ![p] = proc'[p]], now' = now,
           \A i \in DOMAIN audits' :
               \/ i \in DOMAIN audits /\ audits'[i] = audits[i]
               \/ audits'[i].in = now
    PROVE  \A q \in Procs : q # p => CleanerIsOnTime(q)' /\ LogIsClean(q)'
<1> SUFFICES ASSUME NEW q \in Procs, q # p
             PROVE  CleanerIsOnTime(q)' /\ LogIsClean(q)'
    OBVIOUS
<1>1. cleaner'[q] = cleaner[q] /\ proc'[q] = proc[q]
    BY DEF AuditInv, ServerTypeOK
<1>2. CleanerIsOnTime(q)'
    BY <1>1, CleanerStays DEF AuditInv
<1>3. LogIsClean(q)'
    BY <1>1, LogStaysClean
<1> QED
    BY <1>2, <1>3

(* Moves that leave the log, the keys and the tasks alone.                 *)
LEMMA QuietMoveKeeps ==
    ASSUME AuditInv, UNCHANGED <<now, audits, lastAudit, apiKeys, cleaner, proc>>,
           DOMAIN waiting' \subseteq Notices, \A event \in DOMAIN waiting' : event.at <= now,
           tx' \in Seq(Changes), Len(tx') <= 1,
           tx' # <<>> => /\ tx'[1].at <= now /\ \A k \in DOMAIN apiKeys : apiKeys[k].at <= tx'[1].at
                         /\ Allowed(tx'[1].action, tx'[1].key)
    PROVE  AuditInv'
<1>1. ServerTypeOK'
    BY DEF AuditInv, ServerTypeOK
<1>2. TimesAreOrdered'
    BY DEF AuditInv, TimesAreOrdered
<1>3. TransactionIsAllowed'
    BY DEF TransactionIsAllowed, Allowed
<1>4. EventsAreOfKeys'
    BY DEF AuditInv, EventsAreOfKeys
<1>5. \A k \in DOMAIN apiKeys' : KeyIsTold(k)'
    BY DEF AuditInv, KeyIsTold, EventsOf
<1>6. \A p \in Procs : CleanerIsOnTime(p)' /\ LogIsClean(p)'
    BY CleanerStays, LogStaysClean DEF AuditInv
<1> QED
    BY <1>1, <1>2, <1>3, <1>4, <1>5, <1>6 DEF AuditInv

LEMMA WaitingChangesKeeps ==
    ASSUME AuditInv, WaitingChanges
    PROVE  AuditInv'
<1>1. DOMAIN waiting' \subseteq Notices /\ \A event \in DOMAIN waiting' : event.at <= now
  <2>1. now \in Nat
    BY DEF AuditInv, ServerTypeOK
  <2> QED
    BY <2>1 DEF AuditInv, ServerTypeOK, TimesAreOrdered, WaitingChanges
<1>2. tx' \in Seq(Changes) /\ Len(tx') <= 1 /\ (tx' # <<>> => tx' = tx)
  <2>1. tx' = tx \/ tx' = <<>>
    BY DEF WaitingChanges
  <2>2. tx \in Seq(Changes) /\ Len(tx) <= 1
    BY DEF AuditInv, ServerTypeOK
  <2>3. <<>> \in Seq(Changes) /\ Len(<<>>) <= 1
    OBVIOUS
  <2> QED
    BY <2>1, <2>2, <2>3
<1>3. tx' # <<>> => /\ tx'[1].at <= now /\ \A k \in DOMAIN apiKeys : apiKeys[k].at <= tx'[1].at
                    /\ Allowed(tx'[1].action, tx'[1].key)
    BY <1>2 DEF AuditInv, TimesAreOrdered, TransactionIsAllowed
<1> QED
    BY <1>1, <1>2, <1>3, QuietMoveKeeps DEF WaitingChanges

LEMMA BeginsKeeps ==
    ASSUME AuditInv, NEW change \in Changes, Begins(change)
    PROVE  AuditInv'
<1>1. tx' = <<change>> /\ tx' \in Seq(Changes) /\ Len(tx') <= 1 /\ tx'[1] = change
    BY DEF Begins
<1>2. /\ change.at <= now /\ \A k \in DOMAIN apiKeys : apiKeys[k].at <= change.at
      /\ Allowed(change.action, change.key)
    BY DEF Begins, AuditInv, TimesAreOrdered, ServerTypeOK
<1>3. DOMAIN waiting' \subseteq Notices /\ \A event \in DOMAIN waiting' : event.at <= now
    BY DEF Begins, AuditInv, TimesAreOrdered, ServerTypeOK
<1> QED
    BY <1>1, <1>2, <1>3, QuietMoveKeeps DEF Begins

(* Time passes: no cleanup is due, and none is overtaken.                  *)
LEMMA TickKeeps ==
    ASSUME AuditInv, Tick, UNCHANGED proc
    PROVE  AuditInv'
<1>0. now \in Nat /\ now' = now + 1 /\ now' \in 0..MaxTime /\ now < now' /\ UNCHANGED auditVars
    BY AuditAssumption DEF AuditInv, ServerTypeOK, Tick
<1>1. ServerTypeOK'
    BY <1>0 DEF AuditInv, ServerTypeOK, auditVars
<1>2. TimesAreOrdered'
  <2>1. \A i \in DOMAIN audits : audits[i].in <= now'
    BY <1>0, EntryTypes DEF AuditInv, TimesAreOrdered
  <2>2. \A event \in DOMAIN waiting : event.at <= now'
    BY <1>0, EntryTypes DEF AuditInv, TimesAreOrdered
  <2>3. \A k \in DOMAIN apiKeys : apiKeys[k].at <= now'
    BY <1>0, EntryTypes DEF AuditInv, TimesAreOrdered
  <2>4. tx # <<>> => tx[1].at <= now'
    BY <1>0, EntryTypes DEF AuditInv, TimesAreOrdered
  <2> QED
    BY <1>0, <2>1, <2>2, <2>3, <2>4 DEF AuditInv, TimesAreOrdered, auditVars
<1>3. TransactionIsAllowed'
    BY <1>0 DEF AuditInv, TransactionIsAllowed, Allowed, auditVars
<1>4. EventsAreOfKeys'
    BY <1>0 DEF AuditInv, EventsAreOfKeys, auditVars
<1>5. \A k \in DOMAIN apiKeys' : KeyIsTold(k)'
  <2>1. \A k \in DOMAIN apiKeys : apiKeys[k].at \in Nat
    BY EntryTypes DEF AuditInv
  <2>2. now <= now' /\ now' \in Nat
    BY <1>0
  <2>3. \A k : EventsOf(k)' = EventsOf(k)
    BY <1>0 DEF EventsOf, auditVars
  <2> QED
    BY <1>0, <2>1, <2>2, <2>3, KeyStaysTold, ServerAssumption DEF AuditInv, auditVars
<1>6. ASSUME NEW p \in Procs PROVE CleanerIsOnTime(p)' /\ LogIsClean(p)'
  <2>1. cleaner[p].cutoff = <<>> /\ cleaner[p].due \notin 0..now /\ CleanerIsOnTime(p) /\ cleaner[p].due \in Int
    BY <1>6 DEF Tick, CleanupPending, AuditInv, ServerTypeOK, Cleaners
  <2>2. cleaner[p].due # -1 => now' <= cleaner[p].due /\ cleaner[p].due <= now' + CleanupInterval
    BY <1>0, <2>1, AuditAssumption DEF CleanerIsOnTime
  <2>3. CleanerIsOnTime(p)'
    BY <1>0, <2>1, <2>2 DEF CleanerIsOnTime, Running, auditVars
  <2>4. LogIsClean(p)'
    BY <1>0, <1>6, LogStaysClean DEF auditVars
  <2> QED
    BY <2>3, <2>4
<1> QED
    BY <1>1, <1>2, <1>3, <1>4, <1>5, <1>6 DEF AuditInv

(* The event of a committed change is its key's newest and latest.         *)
LEMMA CommitKeeps ==
    ASSUME AuditInv, Commit, UNCHANGED proc
    PROVE  AuditInv'
<1> USE EntryTypes
<1>1. PICK ch : ch = tx[1]
    OBVIOUS
<1>2. PICK row : row = Row(ch)
    OBVIOUS
<1>3. ServerTypeOK /\ TransactionIsAllowed /\ TimesAreOrdered /\ EventsAreOfKeys /\ tx # <<>>
    BY DEF AuditInv, Commit
<1>4. /\ ch \in Changes /\ ch.key \in 1..Len(apiKeys) + 1 /\ ch.at \in Nat
      /\ row \in Rows
      /\ apiKeys' \in Seq(KeyRows)
      /\ DOMAIN apiKeys' = DOMAIN apiKeys \cup {ch.key}
      /\ apiKeys'[ch.key].state = Outcome(ch.action) /\ apiKeys'[ch.key].at = ch.at
      /\ \A k \in DOMAIN apiKeys : k # ch.key => apiKeys'[k] = apiKeys[k]
    BY <1>1, <1>2, <1>3, CommitIs
<1>5. row.at = ch.at /\ row.in = now /\ row.action = ch.action /\ row.key = ch.key
    BY <1>2 DEF Row
<1>6. ch.at <= now /\ \A k \in DOMAIN apiKeys : apiKeys[k].at <= ch.at
    BY <1>1, <1>3 DEF TimesAreOrdered
<1>7. Insert(row) /\ tx' = <<>> /\ UNCHANGED <<now, waiting, cleaner>>
    BY <1>1, <1>2 DEF Commit
<1>8. /\ lastAudit' = lastAudit + 1 /\ lastAudit' \in Nat
      /\ lastAudit' \notin DOMAIN audits /\ \A i \in DOMAIN audits : i < lastAudit'
      /\ DOMAIN audits' = DOMAIN audits \cup {lastAudit'}
      /\ audits'[lastAudit'] = row
      /\ \A i \in DOMAIN audits : audits'[i] = audits[i]
      /\ DOMAIN audits' \subseteq 1..lastAudit' /\ \A i \in DOMAIN audits' : audits'[i] \in Rows
    BY <1>3, <1>4, <1>7, InsertIs
<1>9. ServerTypeOK'
  <2>1. tx' \in Seq(Changes) /\ Len(tx') <= 1
    BY <1>7
  <2> QED
    BY <1>3, <1>4, <1>7, <1>8, <2>1 DEF ServerTypeOK
<1>10. TimesAreOrdered'
  <2>1. \A i \in DOMAIN audits' : audits'[i].at <= audits'[i].in /\ audits'[i].in <= now'
    BY <1>3, <1>4, <1>5, <1>6, <1>7, <1>8 DEF TimesAreOrdered
  <2>2. \A k \in DOMAIN apiKeys' : apiKeys'[k].at <= now'
    BY <1>3, <1>4, <1>6, <1>7 DEF TimesAreOrdered
  <2> QED
    BY <1>3, <1>7, <2>1, <2>2 DEF TimesAreOrdered
<1>11. TransactionIsAllowed'
    BY <1>7 DEF TransactionIsAllowed
<1>12. EventsAreOfKeys'
    BY <1>3, <1>4, <1>5, <1>8 DEF EventsAreOfKeys
<1>13. ASSUME NEW k \in DOMAIN apiKeys' PROVE KeyIsTold(k)'
  <2>1. CASE k = ch.key
    <3>1. EventsOf(k)' = EventsOf(k) \cup {lastAudit'}
      BY <1>5, <1>8, <2>1 DEF EventsOf
    <3>2. \A j \in EventsOf(k) : j \in DOMAIN audits /\ audits[j].at <= ch.at
      <4> SUFFICES ASSUME NEW j \in EventsOf(k) PROVE j \in DOMAIN audits /\ audits[j].at <= ch.at
        OBVIOUS
      <4>1. j \in DOMAIN audits /\ audits[j].key = k /\ k # 0
        BY <1>4, <2>1 DEF EventsOf
      <4>2. k \in DOMAIN apiKeys
        BY <1>3, <4>1 DEF EventsAreOfKeys
      <4>3. audits[j].at <= apiKeys[k].at
        BY <4>2 DEF AuditInv, KeyIsTold
      <4> QED
        BY <1>3, <1>4, <1>6, <4>1, <4>2, <4>3
    <3>3. \A j \in EventsOf(k)' : j <= lastAudit' /\ audits'[j].at <= apiKeys'[k].at
      BY <1>3, <1>4, <1>5, <1>8, <2>1, <3>1, <3>2
    <3>4. lastAudit' \in EventsOf(k)' /\ audits'[lastAudit'].at = apiKeys'[k].at
          /\ Outcome(audits'[lastAudit'].action) = apiKeys'[k].state
      BY <1>4, <1>5, <1>8, <2>1, <3>1
    <3> QED
      BY <3>3, <3>4 DEF KeyIsTold
  <2>2. CASE k # ch.key
    <3>1. k \in DOMAIN apiKeys /\ apiKeys'[k] = apiKeys[k] /\ KeyIsTold(k)
      BY <1>4, <1>13, <2>2 DEF AuditInv
    <3>2. EventsOf(k)' = EventsOf(k) /\ \A i \in EventsOf(k) : audits'[i] = audits[i]
      BY <1>5, <1>8, <2>2 DEF EventsOf
    <3>3. now \in Nat /\ now' \in Nat /\ now <= now' /\ apiKeys[k].at \in Nat
      BY <1>3, <1>7, <3>1
    <3> QED
      BY <3>1, <3>2, <3>3, KeyStaysTold, ServerAssumption
  <2> QED
    BY <2>1, <2>2
<1>14. \A p \in Procs : CleanerIsOnTime(p)' /\ LogIsClean(p)'
  <2>1. \A i \in DOMAIN audits' : (i \in DOMAIN audits /\ audits'[i] = audits[i]) \/ audits'[i].in = now
    BY <1>5, <1>8
  <2> QED
    BY <1>7, <2>1, CleanerStays, LogStaysClean DEF AuditInv
<1> QED
    BY <1>9, <1>10, <1>11, <1>12, <1>13, <1>14 DEF AuditInv

(* A late notice is about no key and is new to the log.                    *)
LEMMA RecordKeeps ==
    ASSUME AuditInv, NEW event \in DOMAIN waiting, Record(event), UNCHANGED proc
    PROVE  AuditInv'
<1> USE EntryTypes
<1>1. PICK row : row = Row(event)
    OBVIOUS
<1>2. ServerTypeOK /\ TransactionIsAllowed /\ TimesAreOrdered /\ EventsAreOfKeys /\ event \in Notices
    BY DEF AuditInv, ServerTypeOK
<1>3. row.at = event.at /\ row.in = now /\ row.key = 0 /\ event.at <= now
    BY <1>1, <1>2 DEF Row, TimesAreOrdered
<1>4. row \in Rows
    BY <1>1, <1>2 DEF Row, Rows, Notices, Actors
<1>5. Insert(row) /\ tx = <<>> /\ UNCHANGED <<now, apiKeys, tx, cleaner>>
      /\ DOMAIN waiting' \subseteq DOMAIN waiting
    BY <1>1, BagRemoveDomain DEF Record
<1>6. /\ lastAudit' = lastAudit + 1 /\ lastAudit' \in Nat
      /\ lastAudit' \notin DOMAIN audits /\ \A i \in DOMAIN audits : i < lastAudit'
      /\ DOMAIN audits' = DOMAIN audits \cup {lastAudit'}
      /\ audits'[lastAudit'] = row
      /\ \A i \in DOMAIN audits : audits'[i] = audits[i]
      /\ DOMAIN audits' \subseteq 1..lastAudit' /\ \A i \in DOMAIN audits' : audits'[i] \in Rows
    BY <1>2, <1>4, <1>5, InsertIs
<1>7. ServerTypeOK'
    BY <1>2, <1>5, <1>6 DEF ServerTypeOK
<1>8. TimesAreOrdered'
  <2>1. \A i \in DOMAIN audits' : audits'[i].at <= audits'[i].in /\ audits'[i].in <= now'
    BY <1>2, <1>3, <1>5, <1>6 DEF TimesAreOrdered
  <2> QED
    BY <1>2, <1>5, <2>1 DEF TimesAreOrdered
<1>9. TransactionIsAllowed'
    BY <1>5 DEF TransactionIsAllowed
<1>10. EventsAreOfKeys'
    BY <1>2, <1>3, <1>5, <1>6 DEF EventsAreOfKeys
<1>11. ASSUME NEW k \in DOMAIN apiKeys' PROVE KeyIsTold(k)'
  <2>1. k \in DOMAIN apiKeys /\ k # 0 /\ KeyIsTold(k)
    BY <1>2, <1>5, <1>11 DEF AuditInv, ServerTypeOK
  <2>2. EventsOf(k)' = EventsOf(k) /\ \A i \in EventsOf(k) : audits'[i] = audits[i]
    BY <1>3, <1>6, <2>1 DEF EventsOf
  <2>3. now \in Nat /\ now' \in Nat /\ now <= now' /\ apiKeys[k].at \in Nat /\ apiKeys'[k] = apiKeys[k]
    BY <1>2, <1>5, <2>1
  <2> QED
    BY <2>1, <2>2, <2>3, KeyStaysTold, ServerAssumption
<1>12. \A p \in Procs : CleanerIsOnTime(p)' /\ LogIsClean(p)'
  <2>1. \A i \in DOMAIN audits' : (i \in DOMAIN audits /\ audits'[i] = audits[i]) \/ audits'[i].in = now
    BY <1>3, <1>6
  <2> QED
    BY <1>5, <2>1, CleanerStays, LogStaysClean DEF AuditInv
<1> QED
    BY <1>7, <1>8, <1>9, <1>10, <1>11, <1>12 DEF AuditInv

(* A move of one process's task that leaves the log alone: only the parts  *)
(* about that process are in question.                                     *)
LEMMA TaskMoveKeeps ==
    ASSUME AuditInv, NEW p \in Procs, UNCHANGED <<now, audits, lastAudit, apiKeys>>,
           tx' \in {tx, <<>>}, DOMAIN waiting' \subseteq DOMAIN waiting,
           NEW task \in Cleaners, cleaner' = [cleaner EXCEPT ![p] = task],
           NEW config \in Seq(Configs), Len(config) <= 1, proc' = [proc EXCEPT ![p] = config],
           CleanerIsOnTime(p)', LogIsClean(p)'
    PROVE  AuditInv'
<1>0. ServerTypeOK /\ TimesAreOrdered /\ TransactionIsAllowed /\ EventsAreOfKeys
    BY DEF AuditInv
<1>1. tx' \in Seq(Changes) /\ Len(tx') <= 1 /\ (tx' # <<>> => tx' = tx)
  <2>1. tx \in Seq(Changes) /\ Len(tx) <= 1
    BY <1>0 DEF ServerTypeOK
  <2>2. <<>> \in Seq(Changes) /\ Len(<<>>) <= 1
    OBVIOUS
  <2> QED
    BY <2>1, <2>2
<1>2. cleaner' \in [Procs -> Cleaners] /\ cleaner'[p] = task
    BY <1>0 DEF ServerTypeOK
<1>3. proc' \in [Procs -> Seq(Configs)] /\ proc'[p] = config /\ \A q \in Procs : Len(proc'[q]) <= 1
    BY <1>0 DEF ServerTypeOK
<1>4. ServerTypeOK'
    BY <1>0, <1>1, <1>2, <1>3 DEF ServerTypeOK
<1>5. TimesAreOrdered'
    BY <1>0, <1>1 DEF TimesAreOrdered
<1>6. TransactionIsAllowed'
    BY <1>0, <1>1 DEF TransactionIsAllowed, Allowed
<1>7. EventsAreOfKeys'
    BY <1>0 DEF EventsAreOfKeys
<1>8. \A k \in DOMAIN apiKeys' : KeyIsTold(k)'
    BY DEF AuditInv, KeyIsTold, EventsOf
<1>9. \A q \in Procs : q # p => CleanerIsOnTime(q)' /\ LogIsClean(q)'
  <2>1. cleaner' = [cleaner EXCEPT ![p] = cleaner'[p]] /\ proc' = [proc EXCEPT ![p] = proc'[p]]
    BY <1>2, <1>3
  <2> QED
    BY <2>1, OthersStay
<1> QED
    BY <1>4, <1>5, <1>6, <1>7, <1>8, <1>9 DEF AuditInv

(* The configuration and the interval of a process with a task.            *)
LEMMA TaskFacts ==
    ASSUME AuditInv, NEW p \in Procs
    PROVE  /\ cleaner[p] \in Cleaners /\ CleanupInterval \in Nat \ {0} /\ now \in Nat
           /\ Running(p) => proc[p][1] \in Configs /\ proc[p][1].retention \in Nat
           /\ proc[p] \in Seq(Configs) /\ Len(proc[p]) <= 1
           /\ cleaner[p].due # -1 => Running(p) /\ cleaner[p].due >= now
           /\ cleaner[p].due \in Int /\ cleaner[p].failures \in Nat /\ Missed(p) \in Nat
<1>1. cleaner[p] \in Cleaners /\ proc[p] \in Seq(Configs) /\ Len(proc[p]) <= 1 /\ now \in Nat
    BY DEF AuditInv, ServerTypeOK
<1>2. Running(p) => proc[p][1] \in Configs
    BY <1>1, FirstOf DEF Running
<1>3. cleaner[p].due \in Int /\ cleaner[p].failures \in Nat /\ Missed(p) \in Nat
    BY <1>1 DEF Cleaners, Missed
<1>4. cleaner[p].due # -1 => Running(p) /\ cleaner[p].due >= now
    BY <1>1, <1>3 DEF AuditInv, CleanerIsOnTime
<1> QED
    BY <1>1, <1>2, <1>3, <1>4, AuditAssumption, ServerAssumption

LEMMA EmptyCutoff == <<>> \in Seq(Int)
OBVIOUS

LEMMA NextMultiple ==
    ASSUME NEW m \in Nat, NEW n \in Nat
    PROVE  m * n \in Nat /\ (m + 1) * n = m * n + n
OBVIOUS

LEMMA CleanupBeginsKeeps ==
    ASSUME AuditInv, NEW p \in Procs, Running(p), CleanupBegins(p, proc[p][1].retention), UNCHANGED proc
    PROVE  AuditInv'
<1>1. PICK task : task = [cleaner[p] EXCEPT !.cutoff = <<now - proc[p][1].retention>>,
                                            !.due = now + CleanupInterval]
    OBVIOUS
<1>2. cleaner' = [cleaner EXCEPT ![p] = task] /\ cleaner[p].cutoff = <<>> /\ cleaner[p].due \in 0..now
      /\ UNCHANGED <<now, audits, lastAudit, apiKeys, tx, waiting>>
    BY <1>1 DEF CleanupBegins, Cutoff
<1>3. task \in Cleaners /\ task.cutoff = <<now - proc[p][1].retention>> /\ task.due = now + CleanupInterval
      /\ task.cleaned = cleaner[p].cleaned /\ task.failures = cleaner[p].failures
  <2>1. now - proc[p][1].retention \in Int /\ now + CleanupInterval \in Int /\ cleaner[p] \in Cleaners
    BY TaskFacts
  <2>2. <<now - proc[p][1].retention>> \in Seq(Int)
    BY <2>1
  <2> QED
    BY <1>1, <2>1, <2>2 DEF Cleaners
<1>4. cleaner'[p] = task /\ proc' = [proc EXCEPT ![p] = proc[p]]
    BY <1>2 DEF AuditInv, ServerTypeOK
<1>5. proc[p][1].retention > 0 /\ cleaner[p].due = now
  <2>1. cleaner[p].due # -1 /\ cleaner[p].due >= now
    BY <1>2, TaskFacts
  <2> QED
    BY <1>2, <2>1, TaskFacts DEF AuditInv, CleanerIsOnTime
<1>6. CleanerIsOnTime(p)'
  <2>1. cleaner'[p].due # -1 /\ now' <= cleaner'[p].due /\ cleaner'[p].due <= now' + CleanupInterval
    BY <1>2, <1>3, <1>4, TaskFacts
  <2>2. Len(cleaner'[p].cutoff) = 1 /\ cleaner'[p].cutoff[1] = now' - proc'[p][1].retention
        /\ cleaner'[p].due = now' + CleanupInterval
    <3>1. PICK x : x = now - proc[p][1].retention /\ x = now' - proc'[p][1].retention
      BY <1>2
    <3>2. cleaner'[p].cutoff = <<x>>
      BY <1>3, <1>4, <3>1
    <3>3. Len(<<x>>) = 1 /\ <<x>>[1] = x
      OBVIOUS
    <3>4. cleaner'[p].due = now' + CleanupInterval
      BY <1>2, <1>3, <1>4
    <3> QED
      BY <3>1, <3>2, <3>3, <3>4
  <2>3. Running(p)' /\ proc'[p][1].retention > 0
    BY <1>5 DEF Running
  <2> QED
    BY <2>1, <2>2, <2>3 DEF CleanerIsOnTime
<1>7. LogIsClean(p)'
  <2>1. Missed(p)' = Missed(p) + 1
    BY <1>2, <1>3, <1>4, TaskFacts DEF Missed
  <2>2. Missed(p)' * CleanupInterval = Missed(p) * CleanupInterval + CleanupInterval
        /\ Missed(p) * CleanupInterval \in Nat
    <3>1. Missed(p) \in Nat /\ CleanupInterval \in Nat
      BY TaskFacts
    <3>2. (Missed(p) + 1) * CleanupInterval = Missed(p) * CleanupInterval + CleanupInterval
          /\ Missed(p) * CleanupInterval \in Nat
      BY <3>1, NextMultiple
    <3> QED
      BY <2>1, <3>2
  <2>3. ASSUME cleaner[p].cleaned, NEW i \in DOMAIN audits
        PROVE  audits[i].in + proc[p][1].retention + Missed(p)' * CleanupInterval
                   >= task.due - CleanupInterval
    <3>1. audits[i].in + proc[p][1].retention + Missed(p) * CleanupInterval >= now - CleanupInterval
      BY <1>5, <2>3 DEF AuditInv, LogIsClean
    <3>2. audits[i].in \in Nat
      BY EntryTypes DEF AuditInv
    <3>3. PICK m \in Nat : m = Missed(p) * CleanupInterval
      BY <2>2
    <3>4. Missed(p)' * CleanupInterval = m + CleanupInterval
      BY <2>2, <3>3
    <3>5. PICK r \in Nat, c \in Nat, n \in Nat, t \in Nat :
              /\ r = proc[p][1].retention /\ c = CleanupInterval /\ n = now /\ t = audits[i].in
              /\ task.due = n + c
      BY <1>3, <3>2, TaskFacts
    <3>6. t + r + m >= n - c
      BY <3>1, <3>3, <3>5
    <3>7. t + r + (m + c) >= (n + c) - c
      BY <3>6
    <3> QED
      BY <3>4, <3>5, <3>7
  <2> QED
    BY <1>2, <1>3, <1>4, <2>3 DEF LogIsClean
<1> QED
    BY <1>2, <1>3, <1>4, <1>6, <1>7, TaskFacts, TaskMoveKeeps

LEMMA CleanupFailsKeeps ==
    ASSUME AuditInv, NEW p \in Procs, CleanupFails(p), UNCHANGED proc
    PROVE  AuditInv'
<1>1. PICK task : task = [cleaner[p] EXCEPT !.cutoff = <<>>, !.failures = @ + 1]
    OBVIOUS
<1>2. cleaner' = [cleaner EXCEPT ![p] = task] /\ cleaner[p].cutoff # <<>>
      /\ UNCHANGED <<now, audits, lastAudit, apiKeys, tx, waiting>>
    BY <1>1 DEF CleanupFails
<1>3. task \in Cleaners /\ task.cutoff = <<>> /\ task.due = cleaner[p].due
      /\ task.cleaned = cleaner[p].cleaned /\ task.failures = cleaner[p].failures + 1
  <2>1. PICK none : none = <<>> /\ none \in Seq(Int)
    BY EmptyCutoff
  <2>2. cleaner[p].due \in Int /\ cleaner[p].cleaned \in BOOLEAN /\ cleaner[p].failures + 1 \in Nat
    BY TaskFacts DEF Cleaners
  <2>3. task = [due |-> cleaner[p].due, cutoff |-> none, cleaned |-> cleaner[p].cleaned,
                failures |-> cleaner[p].failures + 1]
    BY <1>1, <2>1, TaskFacts DEF Cleaners
  <2>4. task \in Cleaners
    BY <2>1, <2>2, <2>3 DEF Cleaners
  <2> QED
    BY <2>1, <2>3, <2>4
<1>4. cleaner'[p] = task /\ proc' = [proc EXCEPT ![p] = proc[p]]
    BY <1>2 DEF AuditInv, ServerTypeOK
<1>5. cleaner[p].due # -1 /\ Running(p)
    BY <1>2, TaskFacts DEF AuditInv, CleanerIsOnTime
<1>6. CleanerIsOnTime(p)'
    BY <1>2, <1>3, <1>4, <1>5 DEF AuditInv, CleanerIsOnTime, Running
<1>7. LogIsClean(p)'
  <2>1. Missed(p)' = Missed(p)
    BY <1>2, <1>3, <1>4, TaskFacts DEF Missed
  <2> QED
    BY <1>2, <1>3, <1>4, <2>1 DEF AuditInv, LogIsClean
<1> QED
    BY <1>2, <1>3, <1>4, <1>6, <1>7, TaskFacts, TaskMoveKeeps

LEMMA StartKeeps ==
    ASSUME AuditInv, NEW p \in Procs, NEW c \in Configs, Start(p, c)
    PROVE  AuditInv'
<1>1. PICK task : task = IF c.retention > 0 THEN [NoCleaner EXCEPT !.due = now] ELSE NoCleaner
    OBVIOUS
<1>2. cleaner[p] = NoCleaner /\ cleaner' = [cleaner EXCEPT ![p] = task]
      /\ proc' = [proc EXCEPT ![p] = <<c>>]
      /\ UNCHANGED <<now, audits, lastAudit, apiKeys, tx, waiting>>
    BY <1>1 DEF Start, AuditInv, CleanerIsOnTime
<1>3. NoCleaner \in Cleaners /\ NoCleaner.due = -1 /\ NoCleaner.cutoff = <<>> /\ ~NoCleaner.cleaned
  <2>1. <<>> \in Seq(Int)
    OBVIOUS
  <2> QED
    BY <2>1 DEF NoCleaner, Cleaners
<1>4. task \in Cleaners /\ task.cutoff = <<>> /\ ~task.cleaned
      /\ (task.due # -1 => c.retention > 0 /\ task.due = now)
  <2>1. CASE c.retention > 0
    <3>1. task = [NoCleaner EXCEPT !.due = now] /\ now \in Int
      BY <1>1, <2>1, TaskFacts
    <3>2. PICK none : none = <<>> /\ none \in Seq(Int)
      BY EmptyCutoff
    <3>3. task = [due |-> now, cutoff |-> none, cleaned |-> FALSE, failures |-> 0]
      BY <3>1, <3>2 DEF NoCleaner
    <3>4. task \in Cleaners
      BY <1>3, <3>1 DEF Cleaners
    <3>5. task.due = now /\ task.cutoff = <<>> /\ task.cleaned = FALSE
      BY <3>2, <3>3
    <3> QED
      BY <2>1, <3>4, <3>5
  <2>2. CASE ~(c.retention > 0)
    BY <1>1, <1>3, <2>2
  <2> QED
    BY <2>1, <2>2
<1>5. cleaner'[p] = task /\ proc'[p] = <<c>>
    BY <1>2 DEF AuditInv, ServerTypeOK
<1>6. CleanerIsOnTime(p)'
  <2>1. Running(p)' /\ proc'[p][1] = c
    BY <1>5 DEF Running
  <2> QED
    BY <1>2, <1>4, <1>5, <2>1, TaskFacts DEF CleanerIsOnTime
<1>7. LogIsClean(p)'
    BY <1>4, <1>5 DEF LogIsClean
<1>8. <<c>> \in Seq(Configs) /\ Len(<<c>>) <= 1
    OBVIOUS
<1> QED
    BY <1>2, <1>4, <1>6, <1>7, <1>8, TaskMoveKeeps

LEMMA StopKeeps ==
    ASSUME AuditInv, NEW p \in Procs, Stop(p)
    PROVE  AuditInv'
<1>1. cleaner' = [cleaner EXCEPT ![p] = NoCleaner] /\ proc' = [proc EXCEPT ![p] = <<>>]
      /\ UNCHANGED <<now, audits, lastAudit, apiKeys>> /\ tx' \in {tx, <<>>}
    BY DEF Stop
<1>2. DOMAIN waiting' \subseteq DOMAIN waiting
    BY DEF Stop
<1>3. NoCleaner \in Cleaners /\ NoCleaner.due = -1 /\ NoCleaner.cutoff = <<>> /\ ~NoCleaner.cleaned
  <2>1. <<>> \in Seq(Int)
    OBVIOUS
  <2> QED
    BY <2>1 DEF NoCleaner, Cleaners
<1>4. cleaner'[p] = NoCleaner /\ proc'[p] = <<>>
    BY <1>1 DEF AuditInv, ServerTypeOK
<1>5. CleanerIsOnTime(p)' /\ LogIsClean(p)'
    BY <1>3, <1>4 DEF CleanerIsOnTime, LogIsClean, Running
<1>6. <<>> \in Seq(Configs) /\ Len(<<>>) <= 1
    OBVIOUS
<1> QED
    BY <1>1, <1>2, <1>3, <1>5, <1>6, TaskMoveKeeps

(* A cleanup removes what is older than the retention: all events of a key *)
(* or not the newest one.                                                  *)
LEMMA DeleteBeforeKeeps ==
    ASSUME AuditInv, NEW p \in Procs, DeleteBefore(p), UNCHANGED proc
    PROVE  AuditInv'
<1> USE EntryTypes
<1>0. ServerTypeOK /\ TimesAreOrdered /\ TransactionIsAllowed /\ EventsAreOfKeys
      /\ (\A k \in DOMAIN apiKeys : KeyIsTold(k)) /\ CleanerIsOnTime(p) /\ now \in Nat
    BY DEF AuditInv, ServerTypeOK
<1>1. PICK r : r = proc[p][1].retention
    OBVIOUS
<1>2. cleaner[p].cutoff # <<>> /\ tx = <<>> /\ UNCHANGED <<now, lastAudit, apiKeys, tx, waiting>>
    BY DEF DeleteBefore
<1>3. /\ cleaner[p].cutoff[1] = now - r /\ cleaner[p].due = now + CleanupInterval
      /\ Running(p) /\ r > 0 /\ r \in Nat /\ proc[p][1] \in Configs
  <2>1. cleaner[p].cutoff[1] = now - r /\ cleaner[p].due = now + CleanupInterval
    BY <1>0, <1>1, <1>2 DEF CleanerIsOnTime
  <2>2. cleaner[p].due # -1
    BY <2>1, TaskFacts
  <2> QED
    BY <1>0, <1>1, <2>1, <2>2, TaskFacts DEF CleanerIsOnTime
<1>4. PICK old : old = {i \in DOMAIN audits : audits[i].at < now - r}
    OBVIOUS
<1>5. audits' = [i \in DOMAIN audits \ old |-> audits[i]]
    BY <1>3, <1>4 DEF DeleteBefore
<1>6. /\ DOMAIN audits' = {i \in DOMAIN audits : ~(audits[i].at < now - r)}
      /\ \A i \in DOMAIN audits' : i \in DOMAIN audits /\ audits'[i] = audits[i]
    BY <1>4, <1>5
<1>7. PICK task : task = [cleaner[p] EXCEPT !.cutoff = <<>>, !.cleaned = TRUE, !.failures = 0]
    OBVIOUS
<1>8. cleaner' = [cleaner EXCEPT ![p] = task]
    BY <1>7 DEF DeleteBefore
<1>9. task \in Cleaners /\ task.cutoff = <<>> /\ task.due = cleaner[p].due
      /\ task.cleaned = TRUE /\ task.failures = 0
  <2>1. PICK none : none = <<>> /\ none \in Seq(Int)
    BY EmptyCutoff
  <2>2. cleaner[p].due \in Int /\ cleaner[p] \in Cleaners
    BY TaskFacts DEF Cleaners
  <2>3. task = [cleaner[p] EXCEPT !.cutoff = none, !.cleaned = TRUE, !.failures = 0]
    BY <1>7, <2>1
  <2>4. task \in Cleaners
    BY <2>1, <2>2, <2>3 DEF Cleaners
  <2> QED
    BY <2>1, <2>2, <2>3, <2>4 DEF Cleaners
<1>10. cleaner' \in [Procs -> Cleaners] /\ cleaner'[p] = task
    BY <1>0, <1>8, <1>9 DEF ServerTypeOK
<1>11. ServerTypeOK'
    BY <1>0, <1>2, <1>6, <1>10 DEF ServerTypeOK
<1>12. TimesAreOrdered'
    BY <1>0, <1>2, <1>6 DEF TimesAreOrdered
<1>13. TransactionIsAllowed'
    BY <1>2 DEF TransactionIsAllowed
<1>14. EventsAreOfKeys'
    BY <1>0, <1>2, <1>6 DEF EventsAreOfKeys
<1>15. ASSUME NEW k \in DOMAIN apiKeys' PROVE KeyIsTold(k)'
  <2>1. k \in DOMAIN apiKeys /\ KeyIsTold(k) /\ apiKeys[k].at \in Nat /\ apiKeys'[k] = apiKeys[k]
    BY <1>0, <1>2, <1>15
  <2>2. EventsOf(k)' \subseteq EventsOf(k)
        /\ \A i \in EventsOf(k)' : audits'[i] = audits[i] /\ i \in DOMAIN audits'
    BY <1>6 DEF EventsOf
  <2>3. \A i \in EventsOf(k) : ~(audits[i].at < now - r) => i \in EventsOf(k)'
    BY <1>6 DEF EventsOf
  <2>4. CASE EventsOf(k) = {}
    BY <1>2, <2>1, <2>2, <2>4 DEF KeyIsTold
  <2>5. ASSUME NEW i \in EventsOf(k),
               \A j \in EventsOf(k) : j <= i /\ audits[j].at <= apiKeys[k].at,
               audits[i].at = apiKeys[k].at, Outcome(audits[i].action) = apiKeys[k].state
        PROVE  KeyIsTold(k)'
    <3>1. CASE ~(audits[i].at < now - r)
      <4>1. i \in EventsOf(k)' /\ audits'[i] = audits[i]
        BY <2>2, <2>3, <2>5, <3>1
      <4>2. \A j \in EventsOf(k)' : j <= i /\ audits'[j].at <= apiKeys'[k].at
        BY <2>1, <2>2, <2>5
      <4> QED
        BY <2>1, <2>5, <4>1, <4>2 DEF KeyIsTold
    <3>2. CASE audits[i].at < now - r
      <4>1. \A j \in EventsOf(k) : audits[j].at < now - r
        <5> SUFFICES ASSUME NEW j \in EventsOf(k) PROVE audits[j].at < now - r
          OBVIOUS
        <5>1. audits[j].at <= apiKeys[k].at /\ audits[j].at \in Nat /\ j \in DOMAIN audits
          BY <1>0, <2>5 DEF EventsOf
        <5> QED
          BY <1>0, <1>3, <2>1, <2>5, <3>2, <5>1
      <4>2. EventsOf(k)' = {}
        BY <1>6, <2>2, <4>1
      <4>3. apiKeys'[k].at < now' - proc[p][1].retention /\ proc[p][1].retention > 0
        BY <1>1, <1>2, <1>3, <2>1, <2>5, <3>2
      <4> QED
        BY <1>3, <4>2, <4>3 DEF KeyIsTold
    <3> QED
      BY <3>1, <3>2
  <2> QED
    BY <2>1, <2>4, <2>5 DEF KeyIsTold
<1>16. CleanerIsOnTime(p)'
    BY <1>0, <1>2, <1>3, <1>9, <1>10, TaskFacts DEF CleanerIsOnTime, Running
<1>17. LogIsClean(p)'
  <2>1. Missed(p)' = 0
    BY <1>9, <1>10 DEF Missed
  <2>2. Missed(p)' * CleanupInterval = 0
    BY <2>1, TaskFacts
  <2>3. \A i \in DOMAIN audits' : audits'[i].in + r + 0 >= task.due - CleanupInterval
    <3> SUFFICES ASSUME NEW i \in DOMAIN audits'
                 PROVE  audits'[i].in + r + 0 >= task.due - CleanupInterval
      OBVIOUS
    <3>1. audits'[i] = audits[i] /\ ~(audits[i].at < now - r) /\ audits[i].at <= audits[i].in
          /\ audits[i].at \in Nat /\ audits[i].in \in Nat
      BY <1>0, <1>6 DEF TimesAreOrdered
    <3> QED
      BY <1>0, <1>3, <1>9, <3>1, TaskFacts
  <2> QED
    BY <1>1, <1>10, <2>2, <2>3 DEF LogIsClean
<1>18. \A q \in Procs : q # p => CleanerIsOnTime(q)' /\ LogIsClean(q)'
  <2>1. cleaner' = [cleaner EXCEPT ![p] = cleaner'[p]] /\ proc' = [proc EXCEPT ![p] = proc'[p]]
    BY <1>0, <1>8, <1>10 DEF ServerTypeOK
  <2> QED
    BY <1>2, <1>6, <2>1, OthersStay
<1> QED
    BY <1>11, <1>12, <1>13, <1>14, <1>15, <1>16, <1>17, <1>18 DEF AuditInv

LEMMA AuditStepKeeps ==
    ASSUME AuditInv, SessionInv, [Next]_vars
    PROVE  AuditInv'
<1>1. AuditMove
    BY EveryStepIsAnAuditMove DEF AuditInv
<1> QED
    BY <1>1, WaitingChangesKeeps, TickKeeps, BeginsKeeps, CommitKeeps, RecordKeeps, CleanupBeginsKeeps,
       DeleteBeforeKeeps, CleanupFailsKeeps, StartKeeps, StopKeeps DEF AuditMove

(* Sessions are only added, by a sign-in.                                  *)
LEMMA SessionStepKeeps ==
    ASSUME AuditInv, AuditInv', SessionInv, [Next]_vars
    PROVE  SessionInv'
<1>1. now' \in Nat /\ now \in Nat
    BY DEF AuditInv, ServerTypeOK
<1>2. \/ sessions' = sessions
      \/ \E p \in Procs, actor \in Admins : SignIn(p, actor)
    BY DEF Next, vars, Start, Stop, OpenLog, Change, ChangeByCommand, SigningRequest, SigningStep,
           SigningFault, AuditStep, AuditFault
<1>3. ASSUME NEW p \in Procs, NEW actor \in Admins, SignIn(p, actor) PROVE SessionInv'
  <2>1. PICK m : sessions' = sessions \cup
            {[actor |-> actor, at |-> now, expires |-> now + SessionDuration, master |-> m]}
    BY <1>3 DEF SignIn
  <2> QED
    BY <1>1, <2>1 DEF SessionInv
<1> QED
    BY <1>1, <1>2, <1>3 DEF SessionInv

----------------------------------------------------------------------------
(* The reader: how many rows paging can pass over *)

(* The rows after m, and those from m on.                                  *)
Above(T, m) == {i \in T : i > m}
From(T, m) == {i \in T : i >= m}

(* The rows from m on that lie beyond the first b of a table.              *)
Beyond(T, m, b) ==
    IF Cardinality(Above(T, m)) < b THEN 0 ELSE Cardinality(Above(T, m)) + 1 - b

(* While pages are read, and the next begins at offset b: of the rows U    *)
(* still to be shown, those from m on are beyond b, but for as many as     *)
(* rows after m are gone.                                                  *)
Paged(T, U, G, b) ==
    \A m \in T : Cardinality(From(U, m)) <= Cardinality(Above(G, m)) + Beyond(T, m, b)

(* When the last page is read: but for these and n rows, none is left.     *)
Finished(T, U, G, n) ==
    \A m \in T : Cardinality(From(U, m)) <= Cardinality(Above(G, m)) + n

(* A set of natural numbers that is not empty has a least element ...      *)
LEMMA LeastOf ==
    ASSUME NEW S \in SUBSET Nat, S # {}
    PROVE  \E x \in S : \A y \in S : x <= y
<1>1. PICK less : less = WF!OpToRel(<, Nat)
    OBVIOUS
<1>2. WF!IsWellFoundedOn(less, Nat)
    BY <1>1, WF!NatLessThanWellFounded
<1>3. PICK x \in S : \A y \in S : ~(<<y, x>> \in less)
    BY <1>2, WF!WFMin
<1>4. \A y \in S : ~(y < x)
    BY <1>1, <1>3 DEF WF!OpToRel
<1> QED
    BY <1>4

(* ... and a bounded one a greatest.                                       *)
LEMMA GreatestOf ==
    ASSUME NEW S \in SUBSET Nat, S # {}, NEW n \in Nat, \A s \in S : s <= n
    PROVE  \E x \in S : \A y \in S : y <= x
<1> DEFINE B == {k \in Nat : \A s \in S : s <= k}
<1>1. PICK k \in B : \A j \in B : k <= j
    BY LeastOf
<1>2. k \in S
  <2> SUFFICES ASSUME k \notin S PROVE FALSE
    OBVIOUS
  <2>1. \A s \in S : s <= k - 1
    OBVIOUS
  <2>2. k - 1 \in Nat
    <3>1. PICK s \in S : s <= k /\ s # k
      BY <1>1
    <3> QED
      BY <3>1
  <2>3. k - 1 \in B
    BY <2>1, <2>2
  <2> QED
    BY <1>1, <2>3
<1> QED
    BY <1>1, <1>2

(* The rows after m, or from m on, of a finite table are finitely many.    *)
LEMMA PartsAreFinite ==
    ASSUME NEW T, IsFiniteSet(T), NEW m
    PROVE  /\ IsFiniteSet(Above(T, m)) /\ Cardinality(Above(T, m)) \in Nat
           /\ IsFiniteSet(From(T, m)) /\ Cardinality(From(T, m)) \in Nat
<1>1. Above(T, m) \in SUBSET T /\ From(T, m) \in SUBSET T
    BY DEF Above, From
<1> QED
    BY <1>1, FS_Subset, FS_CardinalityType

(* A part of a finite set is finite and not larger.                        *)
LEMMA SubsetIsSmaller ==
    ASSUME NEW T, IsFiniteSet(T), NEW S, S \subseteq T
    PROVE  IsFiniteSet(S) /\ Cardinality(S) \in Nat /\ Cardinality(S) <= Cardinality(T)
<1>1. S \in SUBSET T
    OBVIOUS
<1> QED
    BY <1>1, FS_Subset, FS_CardinalityType

(* Disjoint finite sets add up.                                            *)
LEMMA DisjointUnion ==
    ASSUME NEW S, IsFiniteSet(S), NEW T, IsFiniteSet(T), S \cap T = {}
    PROVE  IsFiniteSet(S \cup T) /\ Cardinality(S \cup T) = Cardinality(S) + Cardinality(T)
<1>1. IsFiniteSet(S \cup T) /\ Cardinality(S \cup T) = Cardinality(S) + Cardinality(T) - 0
    BY FS_Union, FS_EmptySet
<1>2. Cardinality(S) \in Nat /\ Cardinality(T) \in Nat
    BY FS_CardinalityType
<1> QED
    BY <1>1, <1>2

(* The rows from m on are m and those after it.                            *)
LEMMA FromIsAbove ==
    ASSUME NEW T \in SUBSET Nat, IsFiniteSet(T), NEW m \in T
    PROVE  Cardinality(From(T, m)) = Cardinality(Above(T, m)) + 1
<1>0. \A i \in T : i >= m <=> i > m \/ i = m
    OBVIOUS
<1>a. ~(m > m)
    OBVIOUS
<1>1. From(T, m) = Above(T, m) \cup {m} /\ m \notin Above(T, m)
    BY <1>0, <1>a, Zenon DEF From, Above
<1> QED
    BY <1>1, PartsAreFinite, FS_AddElement

(* What lies beyond is a number of rows.                                   *)
LEMMA BeyondIsNat ==
    ASSUME NEW T, IsFiniteSet(T), NEW m, NEW b \in Nat
    PROVE  Beyond(T, m, b) \in Nat
BY PartsAreFinite DEF Beyond

(* Before the first page.                                                  *)
LEMMA PagedAtFirst ==
    ASSUME NEW T \in SUBSET Nat, IsFiniteSet(T), NEW U, U \subseteq T
    PROVE  Paged(T, U, {}, 0)
<1> SUFFICES ASSUME NEW m \in T
             PROVE  Cardinality(From(U, m)) <= Cardinality(Above({}, m)) + Beyond(T, m, 0)
    BY DEF Paged
<1>1. From(U, m) \subseteq From(T, m)
    BY DEF From
<1>2. Cardinality(From(U, m)) <= Cardinality(From(T, m)) /\ Cardinality(From(U, m)) \in Nat
    BY <1>1, PartsAreFinite, SubsetIsSmaller
<1>3. Above({}, m) = {}
    BY DEF Above
<1>4. Beyond(T, m, 0) = Cardinality(Above(T, m)) + 1
    BY PartsAreFinite DEF Beyond
<1> QED
    BY <1>2, <1>3, <1>4, FromIsAbove, PartsAreFinite, FS_EmptySet

(* A new row is before all others.                                         *)
LEMMA PagedAfterInsert ==
    ASSUME NEW T \in SUBSET Nat, IsFiniteSet(T), NEW U, U \subseteq T,
           NEW G \in SUBSET Nat, IsFiniteSet(G), NEW b \in Nat,
           Paged(T, U, G, b), NEW x \in Nat, \A i \in T : i < x
    PROVE  Paged(T \cup {x}, U, G, b)
<1> SUFFICES ASSUME NEW m \in T \cup {x}
             PROVE  Cardinality(From(U, m)) <= Cardinality(Above(G, m)) + Beyond(T \cup {x}, m, b)
    BY DEF Paged
<1>0. IsFiniteSet(T \cup {x}) /\ IsFiniteSet(U)
    BY FS_AddElement, SubsetIsSmaller
<1>1. Cardinality(Above(G, m)) \in Nat /\ Beyond(T \cup {x}, m, b) \in Nat /\ Cardinality(From(U, m)) \in Nat
    BY <1>0, PartsAreFinite, BeyondIsNat
<1>2. CASE m = x
  <2>1. \A i \in U : ~(i >= m)
    BY <1>2
  <2>2. From(U, m) = {}
    BY <2>1 DEF From
  <2> QED
    BY <1>1, <2>2, FS_EmptySet
<1>3. CASE m \in T
  <2>1. Above(T \cup {x}, m) = Above(T, m) \cup {x} /\ x \notin Above(T, m)
    BY <1>3 DEF Above
  <2>2. Cardinality(Above(T \cup {x}, m)) = Cardinality(Above(T, m)) + 1
    BY <2>1, PartsAreFinite, FS_AddElement
  <2>3. Beyond(T \cup {x}, m, b) >= Beyond(T, m, b) /\ Beyond(T, m, b) \in Nat
    BY <2>2, PartsAreFinite DEF Beyond
  <2> QED
    BY <1>1, <1>3, <2>3 DEF Paged
<1> QED
    BY <1>2, <1>3

(* Rows after m are counted in disjoint parts.                             *)
LEMMA AboveUnion ==
    ASSUME NEW A, IsFiniteSet(A), NEW B, IsFiniteSet(B), A \cap B = {}, NEW m
    PROVE  /\ IsFiniteSet(A \cup B)
           /\ Cardinality(Above(A \cup B, m)) = Cardinality(Above(A, m)) + Cardinality(Above(B, m))
<1>1. Above(A \cup B, m) = Above(A, m) \cup Above(B, m) /\ Above(A, m) \cap Above(B, m) = {}
    BY DEF Above
<1> QED
    BY <1>1, DisjointUnion, PartsAreFinite, FS_Union

(* So each row that is deleted moves the others up by one, and is counted. *)
LEMMA PagedAfterDelete ==
    ASSUME NEW T \in SUBSET Nat, IsFiniteSet(T), NEW U, U \subseteq T,
           NEW G \in SUBSET Nat, IsFiniteSet(G), \A i \in G : i \notin T,
           NEW b \in Nat, Paged(T, U, G, b), NEW old, old \subseteq T,
           NEW T2, T2 = T \ old, NEW U2, U2 = U \ old, NEW G2, G2 = G \cup old
    PROVE  Paged(T2, U2, G2, b)
<1> SUFFICES ASSUME NEW m \in T2
             PROVE  Cardinality(From(U2, m)) <= Cardinality(Above(G2, m)) + Beyond(T2, m, b)
    BY DEF Paged
<1>0. IsFiniteSet(U) /\ IsFiniteSet(old)
    BY SubsetIsSmaller
<1>1. From(U2, m) \subseteq From(U, m)
    BY DEF From
<1>2. Cardinality(From(U2, m)) <= Cardinality(From(U, m)) /\ Cardinality(From(U2, m)) \in Nat
    BY <1>0, <1>1, PartsAreFinite, SubsetIsSmaller
<1>a. /\ Cardinality(Above(T2, m)) + Cardinality(Above(old, m)) = Cardinality(Above(T, m))
      /\ Cardinality(Above(G2, m)) = Cardinality(Above(G, m)) + Cardinality(Above(old, m))
      /\ IsFiniteSet(old) /\ IsFiniteSet(T2) /\ IsFiniteSet(G2)
  <2>1. IsFiniteSet(old) /\ IsFiniteSet(T2)
    BY SubsetIsSmaller
  <2>2. T = T2 \cup old /\ T2 \cap old = {} /\ G \cap old = {}
    OBVIOUS
  <2>3. Cardinality(Above(T, m)) = Cardinality(Above(T2, m)) + Cardinality(Above(old, m))
    BY <2>1, <2>2, AboveUnion
  <2>4. /\ IsFiniteSet(G \cup old)
        /\ Cardinality(Above(G \cup old, m)) = Cardinality(Above(G, m)) + Cardinality(Above(old, m))
    <3>1. IsFiniteSet(G) /\ IsFiniteSet(old) /\ G \cap old = {}
      BY <2>1, <2>2
    <3> HIDE DEF Above
    <3> QED
      BY ONLY <3>1, AboveUnion
  <2> QED
    BY <2>1, <2>3, <2>4
<1>b. /\ Cardinality(Above(T2, m)) \in Nat /\ Cardinality(Above(old, m)) \in Nat
      /\ Cardinality(Above(T, m)) \in Nat /\ Cardinality(Above(G, m)) \in Nat
      /\ Cardinality(From(U, m)) \in Nat /\ Beyond(T2, m, b) \in Nat /\ Beyond(T, m, b) \in Nat
    BY <1>0, <1>a, PartsAreFinite, BeyondIsNat
<1>3. Cardinality(Above(old, m)) + Beyond(T2, m, b) >= Beyond(T, m, b)
    BY <1>a, <1>b DEF Beyond
<1>4. Cardinality(From(U, m)) <= Cardinality(Above(G, m)) + Beyond(T, m, b)
    BY DEF Paged
<1> QED
    BY <1>2, <1>3, <1>4, <1>a, <1>b

(* The rows from m on that follow the first b.                             *)
LEMMA CountBeyond ==
    ASSUME NEW T \in SUBSET Nat, IsFiniteSet(T), NEW n \in Nat, \A i \in T : i <= n,
           NEW m \in T, NEW b \in Nat,
           NEW D, D = {i \in From(T, m) : Cardinality(Above(T, i)) >= b}
    PROVE  IsFiniteSet(D) /\ Cardinality(D) \in Nat /\ Cardinality(D) <= Beyond(T, m, b)
<1>1. IsFiniteSet(From(T, m)) /\ D \subseteq From(T, m) /\ D \subseteq T
    BY PartsAreFinite DEF From
<1>2. IsFiniteSet(D) /\ Cardinality(D) \in Nat
    BY <1>1, SubsetIsSmaller
<1>3. CASE D = {}
    BY <1>2, <1>3, FS_EmptySet, BeyondIsNat
<1>4. CASE D # {}
  <2>1. PICK d \in D : \A i \in D : i <= d
    BY <1>1, <1>4, GreatestOf
  <2>2. d \in T /\ d >= m /\ Cardinality(Above(T, d)) >= b
    BY <1>1, <2>1 DEF From
  <2>a. \A i \in D : ~(i > d)
    BY <1>1, <2>1
  <2>3. D \cap Above(T, d) = {}
    BY <2>a DEF Above
  <2>b. \A i \in T : i > d => i > m /\ i >= m
    BY <1>1, <2>2
  <2>4. Above(T, d) \subseteq Above(T, m) /\ Above(T, d) \subseteq From(T, m)
    BY <2>b DEF Above, From
  <2>5. D \cup Above(T, d) \subseteq From(T, m)
    BY <1>1, <2>4
  <2>6. Cardinality(D \cup Above(T, d)) = Cardinality(D) + Cardinality(Above(T, d))
    BY <1>2, <2>3, PartsAreFinite, DisjointUnion
  <2>7. Cardinality(D) + Cardinality(Above(T, d)) <= Cardinality(From(T, m))
    BY <1>1, <2>5, <2>6, SubsetIsSmaller
  <2>8. Cardinality(From(T, m)) = Cardinality(Above(T, m)) + 1
    BY FromIsAbove
  <2>9. Cardinality(Above(T, d)) <= Cardinality(Above(T, m))
    BY <2>4, PartsAreFinite, SubsetIsSmaller
  <2>10. Cardinality(Above(T, d)) \in Nat /\ Cardinality(Above(T, m)) \in Nat
    BY PartsAreFinite
  <2> QED
    BY <1>2, <2>2, <2>7, <2>8, <2>9, <2>10 DEF Beyond
<1> QED
    BY <1>2, <1>3, <1>4

(* A page is read: the rows before it that were passed over are counted,   *)
(* those of the page are read, the rest is beyond.                         *)
LEMMA PagedAfterPage ==
    ASSUME NEW T \in SUBSET Nat, IsFiniteSet(T), NEW n \in Nat, \A i \in T : i <= n,
           NEW U, U \subseteq T,
           NEW G \in SUBSET Nat, IsFiniteSet(G), NEW b \in Nat, NEW c \in Nat, Paged(T, U, G, b),
           NEW page, page = {i \in T : Cardinality(Above(T, i)) >= b /\ Cardinality(Above(T, i)) < c}
    PROVE  Paged(T, U \ page, G, c)
<1> SUFFICES ASSUME NEW m \in T
             PROVE  Cardinality(From(U \ page, m)) <= Cardinality(Above(G, m)) + Beyond(T, m, c)
    BY DEF Paged
<1> DEFINE D == {i \in From(T, m) : Cardinality(Above(T, i)) >= c}
           P == {i \in From(U, m) : Cardinality(Above(T, i)) < b}
<1>1. IsFiniteSet(D) /\ Cardinality(D) \in Nat /\ Cardinality(D) <= Beyond(T, m, c)
  <2>1. D = {i \in From(T, m) : Cardinality(Above(T, i)) >= c}
    OBVIOUS
  <2> HIDE DEF D
  <2> QED
    BY <2>1, CountBeyond
<1>2. IsFiniteSet(U)
    BY SubsetIsSmaller
<1>3. IsFiniteSet(P) /\ Cardinality(P) \in Nat
    BY <1>2, PartsAreFinite, SubsetIsSmaller
<1>4. Cardinality(Above(G, m)) \in Nat
    BY PartsAreFinite
<1>5. Cardinality(P) <= Cardinality(Above(G, m))
  <2>1. CASE P = {}
    BY <1>3, <1>4, <2>1, FS_EmptySet
  <2>2. CASE P # {}
    <3>1. P \subseteq Nat
      BY DEF From
    <3>2. PICK d \in P : \A i \in P : d <= i
      BY <2>2, <3>1, LeastOf
    <3>3. d \in U /\ d \in T /\ d >= m /\ Cardinality(Above(T, d)) < b
      BY <3>2 DEF From
    <3>4. P \subseteq From(U, d)
      BY <3>1, <3>2 DEF From
    <3>5. Cardinality(P) <= Cardinality(From(U, d)) /\ Cardinality(From(U, d)) \in Nat
      BY <1>2, <3>4, PartsAreFinite, SubsetIsSmaller
    <3>6. Cardinality(From(U, d)) <= Cardinality(Above(G, d)) + 0
      BY <3>3 DEF Paged, Beyond
    <3>a. \A i \in G : i > d => i > m
      BY <3>3
    <3>7. Above(G, d) \subseteq Above(G, m)
      BY <3>a DEF Above
    <3>8. Cardinality(Above(G, d)) <= Cardinality(Above(G, m)) /\ Cardinality(Above(G, d)) \in Nat
      BY <3>7, PartsAreFinite, SubsetIsSmaller
    <3> HIDE DEF P
    <3> QED
      BY <1>3, <1>4, <3>5, <3>6, <3>8
  <2> QED
    BY <2>1, <2>2
<1>6. From(U \ page, m) \subseteq P \cup D
  <2> SUFFICES ASSUME NEW i \in From(U \ page, m) PROVE i \in P \cup D
    OBVIOUS
  <2>1. i \in U /\ i \in T /\ i \notin page /\ i >= m /\ Cardinality(Above(T, i)) \in Nat
    BY PartsAreFinite DEF From
  <2> QED
    BY <2>1 DEF From
<1> HIDE DEF P, D
<1>7. IsFiniteSet(P \cup D) /\ Cardinality(P \cup D) <= Cardinality(P) + Cardinality(D)
  <2>1. /\ IsFiniteSet(P \cup D)
        /\ Cardinality(P \cup D) = Cardinality(P) + Cardinality(D) - Cardinality(P \cap D)
    BY <1>1, <1>3, FS_Union
  <2>2. Cardinality(P \cap D) \in Nat
    BY <1>3, FS_Intersection, FS_CardinalityType
  <2> QED
    BY <1>1, <1>3, <2>1, <2>2
<1>8. Cardinality(From(U \ page, m)) <= Cardinality(P \cup D) /\ Cardinality(From(U \ page, m)) \in Nat
    BY <1>6, <1>7, SubsetIsSmaller
<1>9. Cardinality(P \cup D) \in Nat /\ Beyond(T, m, c) \in Nat
    BY <1>7, FS_CardinalityType, BeyondIsNat
<1> QED
    BY <1>1, <1>3, <1>4, <1>5, <1>7, <1>8, <1>9

(* After the last page only rows inserted since the count can be beyond.   *)
LEMMA FinishedAtLast ==
    ASSUME NEW T \in SUBSET Nat, IsFiniteSet(T), NEW U, U \subseteq T,
           NEW G \in SUBSET Nat, IsFiniteSet(G), NEW b \in Nat,
           Paged(T, U, G, b), NEW late \in Nat, Cardinality(T) <= b + late
    PROVE  Finished(T, U, G, late)
<1> SUFFICES ASSUME NEW m \in T
             PROVE  Cardinality(From(U, m)) <= Cardinality(Above(G, m)) + late
    BY DEF Finished
<1>1. From(T, m) \subseteq T
    BY DEF From
<1>2. Cardinality(Above(T, m)) + 1 <= Cardinality(T)
    BY <1>1, FromIsAbove, SubsetIsSmaller
<1>3. Cardinality(Above(T, m)) \in Nat /\ Cardinality(Above(G, m)) \in Nat /\ Cardinality(T) \in Nat
    BY PartsAreFinite, FS_CardinalityType
<1>4. Beyond(T, m, b) <= late /\ Beyond(T, m, b) \in Nat
    BY <1>2, <1>3 DEF Beyond
<1>5. Cardinality(From(U, m)) <= Cardinality(Above(G, m)) + Beyond(T, m, b) /\ Cardinality(From(U, m)) \in Nat
    BY PartsAreFinite, SubsetIsSmaller DEF Paged
<1> QED
    BY <1>3, <1>4, <1>5

(* After the end, an insert comes before all that could be missed ...      *)
LEMMA FinishedAfterInsert ==
    ASSUME NEW T \in SUBSET Nat, IsFiniteSet(T), NEW U, U \subseteq T,
           NEW G \in SUBSET Nat, IsFiniteSet(G), NEW n \in Nat,
           Finished(T, U, G, n), NEW x \in Nat, \A i \in T : i < x
    PROVE  Finished(T \cup {x}, U, G, n)
<1>1. \A i \in U : ~(i >= x)
    OBVIOUS
<1>2. From(U, x) = {}
    BY <1>1 DEF From
<1>3. Cardinality(From(U, x)) <= Cardinality(Above(G, x)) + n
    BY <1>2, PartsAreFinite, FS_EmptySet
<1> QED
    BY <1>3 DEF Finished

(* ... and what is deleted cannot be missed.                               *)
LEMMA FinishedAfterDelete ==
    ASSUME NEW T \in SUBSET Nat, IsFiniteSet(T), NEW U, U \subseteq T,
           NEW G \in SUBSET Nat, IsFiniteSet(G), \A i \in G : i \notin T,
           NEW n \in Nat, Finished(T, U, G, n), NEW old, old \subseteq T,
           NEW T2, T2 = T \ old, NEW U2, U2 = U \ old, NEW G2, G2 = G \cup old
    PROVE  Finished(T2, U2, G2, n)
<1> SUFFICES ASSUME NEW m \in T2
             PROVE  Cardinality(From(U2, m)) <= Cardinality(Above(G2, m)) + n
    BY DEF Finished
<1>1. IsFiniteSet(U) /\ IsFiniteSet(old) /\ From(U2, m) \subseteq From(U, m)
    BY SubsetIsSmaller DEF From
<1>2. Cardinality(From(U2, m)) <= Cardinality(From(U, m)) /\ Cardinality(From(U2, m)) \in Nat
    BY <1>1, PartsAreFinite, SubsetIsSmaller
<1>a. /\ Cardinality(Above(T2, m)) + Cardinality(Above(old, m)) = Cardinality(Above(T, m))
      /\ Cardinality(Above(G2, m)) = Cardinality(Above(G, m)) + Cardinality(Above(old, m))
      /\ IsFiniteSet(old) /\ IsFiniteSet(T2) /\ IsFiniteSet(G2)
  <2>1. IsFiniteSet(old) /\ IsFiniteSet(T2)
    BY SubsetIsSmaller
  <2>2. T = T2 \cup old /\ T2 \cap old = {} /\ G \cap old = {}
    OBVIOUS
  <2>3. Cardinality(Above(T, m)) = Cardinality(Above(T2, m)) + Cardinality(Above(old, m))
    BY <2>1, <2>2, AboveUnion
  <2>4. /\ IsFiniteSet(G \cup old)
        /\ Cardinality(Above(G \cup old, m)) = Cardinality(Above(G, m)) + Cardinality(Above(old, m))
    <3>1. IsFiniteSet(G) /\ IsFiniteSet(old) /\ G \cap old = {}
      BY <2>1, <2>2
    <3> HIDE DEF Above
    <3> QED
      BY ONLY <3>1, AboveUnion
  <2> QED
    BY <2>1, <2>3, <2>4
<1>3. /\ Cardinality(Above(G, m)) \in Nat /\ Cardinality(Above(old, m)) \in Nat
      /\ Cardinality(From(U, m)) \in Nat
    BY <1>1, PartsAreFinite
<1>4. Cardinality(From(U, m)) <= Cardinality(Above(G, m)) + n
    BY DEF Finished
<1> QED
    BY <1>2, <1>3, <1>4, <1>a

(* How a reader is while it pages through the log.                         *)
Readers ==
    [pc : {"count", "find", "end"}, proc : Procs, page : Nat \ {0}, total : Nat,
     start : SUBSET Nat, seen : SUBSET Nat, gone : SUBSET Nat, late : Nat]

(* The rows T that reader r found at the start and has not been shown.     *)
Unread(r, T) == (r.start \cap T) \ r.seen

(* What holds of reader r of a table with the rows T, of n ever inserted.  *)
Reads(r, T, n) ==
    /\ r \in Readers
    /\ r.start \subseteq 1..n /\ r.gone \subseteq 1..n /\ r.gone \cap T = {}
    /\ r.pc = "find" => Cardinality(T) <= r.total + r.late
    /\ r.pc # "end" => Paged(T, Unread(r, T), r.gone, (r.page - 1) * PerPage)
    /\ r.pc = "end" => Finished(T, Unread(r, T), r.gone, r.late)

ReaderInv == reader = NoReader \/ Reads(reader, DOMAIN audits, lastAudit)

(* The fields of a reader, and what they are made of.                      *)
LEMMA ReaderFacts ==
    ASSUME NEW n \in Nat, NEW T, T \subseteq 1..n, NEW r, Reads(r, T, n)
    PROVE  /\ T \in SUBSET Nat /\ IsFiniteSet(T) /\ Cardinality(T) \in Nat /\ \A i \in T : i <= n
           /\ Unread(r, T) \subseteq T /\ r.gone \in SUBSET Nat /\ IsFiniteSet(r.gone)
           /\ r.pc \in {"count", "find", "end"}
           /\ r.page \in Nat \ {0} /\ r.total \in Nat /\ r.late \in Nat /\ PerPage \in Nat \ {0}
           /\ (r.page - 1) * PerPage \in Nat /\ r.page * PerPage \in Nat
<1>1. r \in Readers
    BY DEF Reads
<1>2. r.pc \in {"count", "find", "end"} /\ r.page \in Nat \ {0} /\ r.total \in Nat /\ r.late \in Nat
      /\ r.gone \in SUBSET Nat
    BY <1>1 DEF Readers
<1>3. IsFiniteSet(1..n)
    BY FS_Interval
<1>4. T \in SUBSET (1..n) /\ r.gone \in SUBSET (1..n)
    BY DEF Reads
<1>5. IsFiniteSet(T) /\ IsFiniteSet(r.gone)
    BY <1>3, <1>4, FS_Subset
<1>6. PerPage \in Nat \ {0}
    BY AuditAssumption
<1>7. \A a, b \in Nat : a * b \in Nat
    OBVIOUS
<1>8. r.page - 1 \in Nat
    BY <1>2
<1> QED
    BY <1>2, <1>4, <1>5, <1>6, <1>7, <1>8, FS_CardinalityType DEF Unread

(* A row that is inserted comes before the pages already read, and is not  *)
(* one of those to be shown; between Count and Find it is counted as late. *)
LEMMA InsertKeepsReading ==
    ASSUME NEW n \in Nat, NEW T, T \subseteq 1..n, NEW r, Reads(r, T, n), NEW s,
           s = IF r.pc = "find" THEN [r EXCEPT !.late = @ + 1] ELSE r
    PROVE  Reads(s, T \cup {n + 1}, n + 1)
<1> DEFINE T2 == T \cup {n + 1}
<1>1. r \in Readers
    BY DEF Reads
<1>2. s \in Readers /\ s.pc = r.pc /\ s.page = r.page /\ s.total = r.total /\ s.start = r.start
      /\ s.seen = r.seen /\ s.gone = r.gone
      /\ (r.pc = "find" => s.late = r.late + 1) /\ (r.pc # "find" => s.late = r.late)
    BY <1>1 DEF Readers
<1>3. n + 1 \in Nat /\ n + 1 \notin T /\ n + 1 \notin r.start /\ n + 1 \notin r.gone
      /\ \A i \in T : i < n + 1
    BY DEF Reads
<1>4. s.start \subseteq 1..(n + 1) /\ s.gone \subseteq 1..(n + 1) /\ s.gone \cap T2 = {}
  <2>1. 1..n \subseteq 1..(n + 1)
    OBVIOUS
  <2> QED
    BY <1>2, <1>3, <2>1 DEF Reads
<1>5. Unread(s, T2) = Unread(r, T)
    BY <1>2, <1>3 DEF Unread
<1>6. Cardinality(T2) = Cardinality(T) + 1
    BY <1>3, ReaderFacts, FS_AddElement
<1>7. ASSUME s.pc = "find" PROVE Cardinality(T2) <= s.total + s.late
    BY <1>2, <1>6, <1>7, ReaderFacts DEF Reads
<1>8. ASSUME s.pc # "end" PROVE Paged(T2, Unread(s, T2), s.gone, (s.page - 1) * PerPage)
  <2>1. Paged(T2, Unread(r, T), r.gone, (r.page - 1) * PerPage)
    BY <1>2, <1>3, <1>8, ReaderFacts, PagedAfterInsert DEF Reads
  <2> QED
    BY <1>2, <1>5, <2>1
<1>9. ASSUME s.pc = "end" PROVE Finished(T2, Unread(s, T2), s.gone, s.late)
  <2>1. Finished(T2, Unread(r, T), r.gone, r.late)
    BY <1>2, <1>3, <1>9, ReaderFacts, FinishedAfterInsert DEF Reads
  <2> QED
    BY <1>2, <1>5, <1>9, <2>1
<1> QED
    BY <1>2, <1>4, <1>7, <1>8, <1>9 DEF Reads

(* Rows that are deleted are gone, and no longer to be shown.              *)
LEMMA DeleteKeepsReading ==
    ASSUME NEW n \in Nat, NEW T, T \subseteq 1..n, NEW r, Reads(r, T, n), NEW old, old \subseteq T,
           NEW s, s = [r EXCEPT !.gone = @ \cup old]
    PROVE  Reads(s, T \ old, n)
<1> DEFINE T2 == T \ old
<1>1. r \in Readers
    BY DEF Reads
<1>2. s \in Readers /\ s.pc = r.pc /\ s.page = r.page /\ s.total = r.total /\ s.start = r.start
      /\ s.seen = r.seen /\ s.gone = r.gone \cup old /\ s.late = r.late
  <2>1. r.gone \cup old \in SUBSET Nat
    BY <1>1 DEF Readers
  <2> QED
    BY <1>1, <2>1 DEF Readers
<1>3. s.start \subseteq 1..n /\ s.gone \subseteq 1..n /\ s.gone \cap T2 = {} /\ \A i \in r.gone : i \notin T
    BY <1>2 DEF Reads
<1>4. Unread(s, T2) = Unread(r, T) \ old
    BY <1>2 DEF Unread
<1>5. Cardinality(T2) <= Cardinality(T) /\ Cardinality(T2) \in Nat
    BY ReaderFacts, SubsetIsSmaller
<1>6. ASSUME s.pc = "find" PROVE Cardinality(T2) <= s.total + s.late
    BY <1>2, <1>5, <1>6, ReaderFacts DEF Reads
<1>7. ASSUME s.pc # "end" PROVE Paged(T2, Unread(s, T2), s.gone, (s.page - 1) * PerPage)
  <2>0. PICK U, G : U = Unread(r, T) /\ G = r.gone
    OBVIOUS
  <2>a. PICK b \in Nat : b = (r.page - 1) * PerPage
    BY ReaderFacts
  <2>1. U = Unread(r, T) /\ G = r.gone /\ b = (r.page - 1) * PerPage
    BY <2>0, <2>a
  <2>2. U \subseteq T /\ G \in SUBSET Nat /\ IsFiniteSet(G) /\ (\A i \in G : i \notin T)
        /\ Paged(T, U, G, b)
    BY <1>2, <1>3, <1>7, <2>1, ReaderFacts DEF Reads
  <2>3. Paged(T2, U \ old, G \cup old, b)
    BY <2>1, <2>2, ReaderFacts, PagedAfterDelete
  <2> QED
    BY <1>2, <1>4, <2>1, <2>3
<1>8. ASSUME s.pc = "end" PROVE Finished(T2, Unread(s, T2), s.gone, s.late)
  <2>0. PICK U, G : U = Unread(r, T) /\ G = r.gone
    OBVIOUS
  <2>a. PICK b \in Nat : b = r.late
    BY ReaderFacts
  <2>1. U = Unread(r, T) /\ G = r.gone /\ b = r.late
    BY <2>0, <2>a
  <2>2. U \subseteq T /\ G \in SUBSET Nat /\ IsFiniteSet(G) /\ (\A i \in G : i \notin T)
        /\ Finished(T, U, G, b)
    BY <1>2, <1>3, <1>8, <2>1, ReaderFacts DEF Reads
  <2>3. Finished(T2, U \ old, G \cup old, b)
    BY <2>1, <2>2, ReaderFacts, FinishedAfterDelete
  <2> QED
    BY <1>2, <1>4, <2>1, <2>3
<1> QED
    BY <1>2, <1>3, <1>6, <1>7, <1>8 DEF Reads

(* Reading begins with nothing shown and nothing gone.                     *)
LEMMA OpenReads ==
    ASSUME NEW n \in Nat, NEW T, T \subseteq 1..n, NEW p \in Procs, NEW s,
           s = [pc |-> "count", proc |-> p, page |-> 1, total |-> 0,
                start |-> T, seen |-> {}, gone |-> {}, late |-> 0]
    PROVE  Reads(s, T, n)
<1>a. IsFiniteSet(1..n)
    BY FS_Interval
<1>b. IsFiniteSet(T)
    BY <1>a, FS_Subset
<1>1. IsFiniteSet(T) /\ T \in SUBSET Nat
    BY <1>b
<1>2. s \in Readers
    BY <1>1 DEF Readers
<1>3. s.pc = "count" /\ s.page = 1 /\ s.start = T /\ s.seen = {} /\ s.gone = {}
    OBVIOUS
<1>4. Unread(s, T) = T
    BY <1>3 DEF Unread
<1>5. (s.page - 1) * PerPage = 0
    BY <1>3, AuditAssumption
<1>6. Paged(T, T, {}, 0)
    BY <1>1, PagedAtFirst
<1> QED
    BY <1>2, <1>3, <1>4, <1>5, <1>6 DEF Reads

(* Count makes the total true of the table.                                *)
LEMMA CountKeepsReading ==
    ASSUME NEW n \in Nat, NEW T, T \subseteq 1..n, NEW r, Reads(r, T, n), r.pc = "count",
           NEW s, s = [r EXCEPT !.pc = "find", !.total = Cardinality(T), !.late = 0]
    PROVE  Reads(s, T, n)
<1>1. r \in Readers /\ Cardinality(T) \in Nat
    BY ReaderFacts DEF Reads
<1>2. s \in Readers /\ s.pc = "find" /\ s.page = r.page /\ s.total = Cardinality(T) /\ s.start = r.start
      /\ s.seen = r.seen /\ s.gone = r.gone /\ s.late = 0
    BY <1>1 DEF Readers
<1>3. Unread(s, T) = Unread(r, T)
    BY <1>2 DEF Unread
<1>4. Cardinality(T) <= s.total + s.late
    BY <1>1, <1>2
<1> QED
    BY <1>2, <1>3, <1>4 DEF Reads

(* The last page that is offered covers the rows counted.                  *)
LEMMA PagesCover ==
    ASSUME NEW t \in Nat, NEW k \in Nat \ {0}, NEW n \in Nat, ~(n < (t + k - 1) \div k)
    PROVE  t <= n * k
<1> DEFINE q == (t + k - 1) \div k
<1>1. q \in Nat /\ t + k - 1 < q * k + k
    OBVIOUS
<1>2. q * k <= n * k
    BY <1>1
<1> QED
    BY <1>1, <1>2

(* Find shows a page: the rows before it that were not shown make up for   *)
(* rows gone, the others are on it or beyond it.                           *)
LEMMA FindKeepsReading ==
    ASSUME NEW n \in Nat, NEW T, T \subseteq 1..n, NEW r, Reads(r, T, n), r.pc = "find",
           NEW page, page = {i \in T : /\ Cardinality(Above(T, i)) >= (r.page - 1) * PerPage
                                       /\ Cardinality(Above(T, i)) < r.page * PerPage},
           NEW pc, pc = IF r.page < (r.total + PerPage - 1) \div PerPage THEN "count" ELSE "end",
           NEW s, s = [r EXCEPT !.pc = pc, !.page = @ + 1, !.seen = @ \cup page]
    PROVE  Reads(s, T, n)
<1>1. r \in Readers /\ page \in SUBSET Nat
    BY ReaderFacts DEF Reads
<1>2. s \in Readers /\ s.pc = pc /\ s.page = r.page + 1 /\ s.total = r.total /\ s.start = r.start
      /\ s.seen = r.seen \cup page /\ s.gone = r.gone /\ s.late = r.late
  <2>1. r.seen \cup page \in SUBSET Nat /\ r.page + 1 \in Nat \ {0} /\ pc \in {"count", "find", "end"}
    BY <1>1 DEF Readers
  <2> QED
    BY <1>1, <2>1 DEF Readers
<1>3. Unread(s, T) = Unread(r, T) \ page
    BY <1>2 DEF Unread
<1>4. (s.page - 1) * PerPage = r.page * PerPage
    BY <1>2, ReaderFacts
<1>5. Paged(T, Unread(r, T) \ page, r.gone, r.page * PerPage)
  <2>1. PICK U, G : U = Unread(r, T) /\ G = r.gone
    OBVIOUS
  <2>2. PICK b \in Nat, c \in Nat : b = (r.page - 1) * PerPage /\ c = r.page * PerPage
    BY ReaderFacts
  <2>3. /\ T \in SUBSET Nat /\ IsFiniteSet(T) /\ \A i \in T : i <= n
        /\ U \subseteq T /\ G \in SUBSET Nat /\ IsFiniteSet(G)
    BY <2>1, ReaderFacts
  <2>4. Paged(T, U, G, b)
    BY <2>1, <2>2 DEF Reads
  <2>5. page = {i \in T : Cardinality(Above(T, i)) >= b /\ Cardinality(Above(T, i)) < c}
    BY <2>2
  <2>6. Paged(T, U \ page, G, c)
    BY ONLY n \in Nat, <2>3, <2>4, <2>5, PagedAfterPage
  <2> QED
    BY <2>1, <2>2, <2>6
<1>6. ASSUME s.pc = "end" PROVE Finished(T, Unread(s, T), s.gone, s.late)
  <2>1. ~(r.page < (r.total + PerPage - 1) \div PerPage)
    BY <1>2, <1>6
  <2>2. r.total <= r.page * PerPage
    BY <2>1, ReaderFacts, PagesCover
  <2>3. Cardinality(T) <= r.page * PerPage + r.late
    BY <2>2, ReaderFacts DEF Reads
  <2>4. Finished(T, Unread(r, T) \ page, r.gone, r.late)
    BY <1>5, <2>3, ReaderFacts, FinishedAtLast
  <2> QED
    BY <1>2, <1>3, <2>4
<1>7. s.pc # "find"
    BY <1>2
<1> QED
    BY <1>2, <1>3, <1>4, <1>5, <1>6, <1>7 DEF Reads

(* What one step may do to the reader and the rows of the log.             *)
ReaderMove ==
    \/ UNCHANGED <<audits, lastAudit, reader>>
    \/ UNCHANGED <<audits, lastAudit>> /\ reader' = NoReader
    \/ \E row \in Rows : Insert(row)
    \/ \E p \in Procs : DeleteBefore(p) \/ Open(p)
    \/ Count \/ Find

(* Every step is one of these.                                             *)
LEMMA EveryStepIsAReaderMove ==
    ASSUME AuditInv, [Next]_vars
    PROVE  ReaderMove
<1> USE DEF ReaderMove
<1>1. CASE UNCHANGED <<audits, lastAudit, reader>>
    BY <1>1
<1>2. ASSUME NEW p \in Procs, OpenLog(p) PROVE ReaderMove
    BY <1>2 DEF OpenLog
<1>3. ASSUME NEW p \in Procs, Stop(p) PROVE ReaderMove
    BY <1>3 DEF Stop
<1>4. CASE Commit
    BY <1>4, CommitIs DEF Commit, AuditInv
<1>5. ASSUME NEW event \in DOMAIN waiting, Record(event) PROVE ReaderMove
  <2>1. event \in Notices /\ now \in Nat
    BY <1>5 DEF AuditInv, ServerTypeOK
  <2>2. Row(event) \in Rows
    BY <2>1 DEF Row, Rows, Notices, Actors
  <2> QED
    BY <1>5, <2>2 DEF Record
<1>6. CASE AuditStep
    BY <1>1, <1>4, <1>5, <1>6 DEF AuditStep, Tick, auditVars, CleanupBegins, Close
<1>7. CASE AuditFault
    BY <1>1, <1>7 DEF AuditFault, Rollback, RecordFails, CleanupFails
<1>8. CASE UNCHANGED vars
    BY <1>1, <1>8 DEF vars, auditVars
<1>9. ASSUME NEW p, SigningRequest(p) \/ SigningStep(p) \/ SigningFault(p) PROVE ReaderMove
    BY <1>1, <1>9 DEF SigningRequest, SigningStep, SigningFault, auditVars
<1>10. ASSUME NEW p, NEW c, Start(p, c) PROVE ReaderMove
    BY <1>1, <1>10 DEF Start
<1>11. ASSUME NEW p, NEW actor, SignIn(p, actor) PROVE ReaderMove
    BY <1>1, <1>11 DEF SignIn
<1>12. ASSUME NEW p, NEW session, NEW action, NEW k, Change(p, session, action, k) PROVE ReaderMove
    BY <1>1, <1>12 DEF Change, Begin
<1>13. ASSUME NEW action, NEW k, ChangeByCommand(action, k) PROVE ReaderMove
    BY <1>1, <1>13 DEF ChangeByCommand, Begin
<1> HIDE DEF ReaderMove
<1> QED
    BY <1>2, <1>3, <1>6, <1>7, <1>8, <1>9, <1>10, <1>11, <1>12, <1>13 DEF Next

(* A reader stays right about what it can have missed.                     *)
LEMMA ReaderStepKeeps ==
    ASSUME AuditInv, ReaderInv, [Next]_vars
    PROVE  ReaderInv'
<1> DEFINE T == DOMAIN audits
<1>0. ServerTypeOK /\ lastAudit \in Nat /\ T \subseteq 1..lastAudit
    BY DEF AuditInv, ServerTypeOK
<1>1. reader.pc = "idle" => reader = NoReader
    BY <1>0, ReaderFacts DEF ReaderInv
<1>2. NoReader.pc = "idle"
    BY DEF NoReader
<1>3. CASE UNCHANGED <<audits, lastAudit, reader>>
    BY <1>3 DEF ReaderInv, Reads
<1>4. CASE reader' = NoReader
    BY <1>4 DEF ReaderInv
<1>5. ASSUME NEW row \in Rows, Insert(row) PROVE ReaderInv'
  <2>1. lastAudit' = lastAudit + 1 /\ DOMAIN audits' = T \cup {lastAudit + 1}
    BY <1>0, <1>5, InsertIs
  <2>2. reader' = IF reader.pc = "find" THEN [reader EXCEPT !.late = @ + 1] ELSE reader
    BY <1>5 DEF Insert, ReaderSeesInsert
  <2>3. CASE reader = NoReader
    BY <1>2, <1>4, <2>2, <2>3
  <2>4. CASE Reads(reader, T, lastAudit)
    BY <1>0, <2>1, <2>2, <2>4, InsertKeepsReading DEF ReaderInv
  <2> QED
    BY <2>3, <2>4 DEF ReaderInv
<1>6. ASSUME NEW p \in Procs, DeleteBefore(p) PROVE ReaderInv'
  <2>1. PICK old : old = {i \in T : audits[i].at < cleaner[p].cutoff[1]}
    OBVIOUS
  <2>2. /\ audits' = [i \in T \ old |-> audits[i]] /\ lastAudit' = lastAudit
        /\ reader' = IF reader.pc = "idle" THEN reader ELSE [reader EXCEPT !.gone = @ \cup old]
    BY <1>6, <2>1 DEF DeleteBefore
  <2>3. DOMAIN audits' = T \ old /\ old \subseteq T
    BY <2>1, <2>2
  <2>4. CASE reader = NoReader
    BY <1>2, <1>4, <2>2, <2>4
  <2>5. CASE Reads(reader, T, lastAudit)
    <3>1. reader.pc # "idle"
      BY <1>0, <2>5, ReaderFacts
    <3>2. Reads(reader', T \ old, lastAudit)
      BY <1>0, <2>2, <2>3, <2>5, <3>1, DeleteKeepsReading
    <3> QED
      BY <2>2, <2>3, <3>2 DEF ReaderInv
  <2> QED
    BY <2>4, <2>5 DEF ReaderInv
<1>7. ASSUME NEW p \in Procs, Open(p) PROVE ReaderInv'
  <2>1. Reads(reader', T, lastAudit)
    BY <1>0, <1>7, OpenReads DEF Open
  <2> QED
    BY <1>7, <2>1 DEF ReaderInv, Open
<1>8. CASE Count
  <2>1. reader # NoReader /\ reader.pc = "count"
    BY <1>2, <1>8 DEF Count
  <2>2. Reads(reader', T, lastAudit)
    BY <1>0, <1>8, <2>1, CountKeepsReading DEF Count, ReaderInv
  <2> QED
    BY <1>8, <2>2 DEF ReaderInv, Count
<1>9. CASE Find
  <2>1. reader # NoReader /\ reader.pc = "find"
    BY <1>2, <1>9 DEF Find
  <2>2. Reads(reader, T, lastAudit)
    BY <2>1 DEF ReaderInv
  <2>3. Page(reader.page) = {i \in T : /\ Cardinality(Above(T, i)) >= (reader.page - 1) * PerPage
                                       /\ Cardinality(Above(T, i)) < reader.page * PerPage}
    BY DEF Page, Newer, Above
  <2>4. reader' = [reader EXCEPT
              !.pc = IF reader.page < (reader.total + PerPage - 1) \div PerPage THEN "count" ELSE "end",
              !.page = @ + 1, !.seen = @ \cup Page(reader.page)]
    BY <1>9 DEF Find, TotalPages
  <2>5. Reads(reader', T, lastAudit)
    BY <1>0, <2>1, <2>2, <2>3, <2>4, FindKeepsReading
  <2> QED
    BY <1>9, <2>5 DEF ReaderInv, Find
<1> QED
    BY <1>3, <1>4, <1>5, <1>6, <1>7, <1>8, <1>9, EveryStepIsAReaderMove DEF ReaderMove

----------------------------------------------------------------------------
(* All together *)

(* The beginning: no process runs, and the data directory is empty.        *)
LEMMA ServerInitially ==
    ASSUME Init
    PROVE  AuditInv /\ SigningInv /\ SessionInv
<1>1. SigningInv
  <2>1. made = 0 /\ keyFile = <<>> /\ store = [p \in Signers |-> NewStore] /\ served = {}
    BY DEF Init, SigningInit
  <2>2. NewStore \in [pc : {"new", "read", "link", "reread", "ready", "failed"}, key : 0..0]
        /\ NewStore.pc = "new"
    BY DEF NewStore
  <2>3. keyFile \in Seq([key : 1..made, master : {c.master : c \in Configs}]) /\ Len(keyFile) <= 1
    BY <2>1
  <2> QED
    BY <2>1, <2>2, <2>3 DEF SigningInv
<1>2. SessionInv
    BY DEF Init, AuditInit, SessionInv
<1>3. AuditInv
  <2>1. /\ now = 0 /\ audits = <<>> /\ lastAudit = 0 /\ apiKeys = <<>> /\ tx = <<>> /\ waiting = <<>>
        /\ cleaner = [p \in Procs |-> NoCleaner] /\ proc = [p \in Procs |-> <<>>]
    BY DEF Init, AuditInit
  <2>2. DOMAIN audits = {} /\ DOMAIN apiKeys = {} /\ DOMAIN waiting = {}
    BY <2>1
  <2>3. NoCleaner \in Cleaners /\ NoCleaner.due = -1 /\ NoCleaner.cutoff = <<>> /\ ~NoCleaner.cleaned
    BY EmptyCutoff DEF NoCleaner, Cleaners
  <2>4. apiKeys \in Seq(KeyRows) /\ tx \in Seq(Changes) /\ Len(tx) <= 1
    BY <2>1
  <2>5. proc \in [Procs -> Seq(Configs)] /\ \A p \in Procs : Len(proc[p]) <= 1 /\ proc[p] = <<>>
    BY <2>1
  <2>6. ServerTypeOK
    BY <2>1, <2>2, <2>3, <2>4, <2>5, AuditAssumption DEF ServerTypeOK
  <2>7. TimesAreOrdered /\ TransactionIsAllowed /\ EventsAreOfKeys
    BY <2>1, <2>2 DEF TimesAreOrdered, TransactionIsAllowed, EventsAreOfKeys
  <2>8. \A p \in Procs : CleanerIsOnTime(p) /\ LogIsClean(p)
    BY <2>1, <2>3, <2>5 DEF CleanerIsOnTime, LogIsClean, Running
  <2> QED
    BY <2>2, <2>6, <2>7, <2>8 DEF AuditInv
<1> QED
    BY <1>1, <1>2, <1>3

(* The inductive invariant of the server processes.                        *)
ServerInv == AuditInv /\ SigningInv /\ SessionInv

LEMMA ServerInvariant == Spec => []ServerInv
<1>1. Init => ServerInv
    BY ServerInitially DEF ServerInv
<1>2. ServerInv /\ [Next]_vars => ServerInv'
    BY AuditStepKeeps, SigningStepKeeps, SessionStepKeeps DEF ServerInv, AuditInv
<1> QED
    BY <1>1, <1>2, PTL DEF Spec

----------------------------------------------------------------------------
(* Theorems *)

(* Whichever processes start on the data directory, with whichever master  *)
(* keys, and wherever initialize is cut, every signature and public key    *)
(* served is of the one key on disk: clientUpdateStore publishes a key by  *)
(* a hard link that never replaces one.                                    *)
THEOREM SigningKeyIsShared == Spec => []ProcessesShareSigningKey
<1>1. SigningInv => ProcessesShareSigningKey
  <2> SUFFICES ASSUME SigningInv PROVE ProcessesShareSigningKey
    OBVIOUS
  <2> DEFINE Masters == {c.master : c \in Configs}
  <2>1. keyFile \in Seq([key : 1..made, master : Masters]) /\ made \in Nat
    BY DEF SigningInv
  <2>2. keyFile # <<>> => keyFile[1] \in [key : 1..made, master : Masters]
    <3> HIDE DEF Masters
    <3> QED
      BY <2>1, FirstOf
  <2>3. served \subseteq 1..made
    BY <2>2 DEF SigningInv
  <2>4. \A p \in Signers : store[p].pc \in {"new", "read", "link", "reread", "ready", "failed"}
    BY DEF SigningInv
  <2> QED
    BY <2>3, <2>4 DEF SigningInv, ProcessesShareSigningKey, SigningTypeOK
<1> QED
    BY <1>1, ServerInvariant, PTL DEF ServerInv

(* loadClientSigningKey among any number of processes, failures and        *)
(* restarts chooses one key for good: os.Link never replaces the file, no  *)
(* path removes it, and a store is ready only with the key on disk.        *)
THEOREM ProcessesAgreeOnKey == Spec => ImplementsKeyAgreement
<1>1. Init => Agreement!Init
  <2> SUFFICES ASSUME Init PROVE Agreement!Init
    OBVIOUS
  <2>1. keyFile = <<>> /\ served = {}
    BY DEF Init, SigningInit
  <2> QED
    BY <2>1 DEF Agreement!Init
<1>2. ServerInv /\ [Next]_vars => [Agreement!Next]_(Agreement!vars)
    BY KeyStep DEF ServerInv, AuditInv
<1> QED
    BY <1>1, <1>2, ServerInvariant, PTL DEF Spec, ImplementsKeyAgreement, Agreement!Spec

(* A change of an API key and its audit event are committed together or    *)
(* not at all: the newest event of each key tells its state unless a       *)
(* process's retention has removed all of the key's events.                *)
THEOREM AuditIsComplete == Spec => []AuditTellsKeyState
<1>1. AuditInv => AuditTellsKeyState
  <2> SUFFICES ASSUME AuditInv PROVE AuditTellsKeyState
    OBVIOUS
  <2>1. ServerTypeOK /\ \A k \in DOMAIN apiKeys : KeyIsTold(k)
    BY DEF AuditInv
  <2>2. AuditTypeOK
    <3>1. \A k \in DOMAIN apiKeys : apiKeys[k].state \in {"active", "revoked", "deleted"}
      BY <2>1, EntryTypes DEF KeyRows
    <3>2. ASSUME NEW p \in Procs PROVE cleaner[p].due \in -1..MaxTime + CleanupInterval
      <4>1. CASE cleaner[p].due = -1
        BY <4>1, AuditAssumption
      <4>2. CASE cleaner[p].due # -1
        <5>1. now <= cleaner[p].due /\ cleaner[p].due <= now + CleanupInterval /\ cleaner[p].due \in Int
          BY <3>2, <4>2, TaskFacts DEF AuditInv, CleanerIsOnTime
        <5> QED
          BY <2>1, <5>1, AuditAssumption DEF ServerTypeOK
      <4> QED
        BY <4>1, <4>2
    <3> QED
      BY <2>1, <3>1, <3>2 DEF AuditTypeOK, ServerTypeOK
  <2>3. ASSUME NEW k \in DOMAIN apiKeys, EventsOf(k) # {}
        PROVE  Outcome(audits[Latest(EventsOf(k))].action) = apiKeys[k].state
    <3>1. PICK i \in EventsOf(k) : /\ \A j \in EventsOf(k) : j <= i
                                   /\ Outcome(audits[i].action) = apiKeys[k].state
      BY <2>1, <2>3 DEF KeyIsTold
    <3>2. Latest(EventsOf(k)) \in EventsOf(k) /\ \A j \in EventsOf(k) : j <= Latest(EventsOf(k))
      BY <3>1 DEF Latest
    <3>3. \A j \in EventsOf(k) : j \in Nat
      BY <2>1, EntryTypes DEF EventsOf
    <3>4. Latest(EventsOf(k)) = i
      BY <3>1, <3>2, <3>3
    <3> QED
      BY <3>1, <3>4
  <2>4. ASSUME NEW k \in DOMAIN apiKeys, EventsOf(k) = {}
        PROVE  \E c \in Configs : c.retention > 0 /\ apiKeys[k].at < now - c.retention
    BY <2>1, <2>4 DEF KeyIsTold
  <2> QED
    BY <2>2, <2>3, <2>4 DEF AuditTellsKeyState
<1> QED
    BY <1>1, ServerInvariant, PTL DEF ServerInv

(* A process that cleans removes every event within its retention and an   *)
(* interval, and one more interval for each cleanup that failed: neither   *)
(* other processes nor late inserts can keep an event longer.              *)
THEOREM RetentionHolds == Spec => []RetentionIsEnforced
<1>1. AuditInv => RetentionIsEnforced
  <2> SUFFICES ASSUME AuditInv, NEW p \in Procs, Running(p), proc[p][1].retention > 0,
                      NEW i \in DOMAIN audits, ~CleanupPending(p), cleaner[p].cleaned
               PROVE  audits[i].in >= now - proc[p][1].retention
                                        - (1 + cleaner[p].failures) * CleanupInterval
    BY DEF RetentionIsEnforced
  <2>1. cleaner[p].cutoff = <<>> /\ cleaner[p].due # -1 /\ cleaner[p].due \notin 0..now
    BY DEF CleanupPending, AuditInv, CleanerIsOnTime
  <2>2. PICK f \in Nat, c \in Nat, n \in Nat, r \in Nat, d \in Int, t \in Nat :
            /\ f = cleaner[p].failures /\ c = CleanupInterval /\ n = now /\ r = proc[p][1].retention
            /\ d = cleaner[p].due /\ t = audits[i].in
    BY TaskFacts, EntryTypes DEF AuditInv
  <2>3. Missed(p) = f
    BY <2>1, <2>2 DEF Missed
  <2>4. t + r + f * c >= d - c
    BY <2>2, <2>3 DEF AuditInv, LogIsClean
  <2>5. d >= n
    BY <2>1, <2>2, TaskFacts
  <2>6. PICK m \in Nat : m = f * c /\ (f + 1) * c = m + c
    BY NextMultiple
  <2>7. t >= n - r - (m + c)
    BY <2>4, <2>5, <2>6
  <2>8. (1 + f) * c = m + c
    <3>1. 1 + f = f + 1
      OBVIOUS
    <3> QED
      BY <2>6, <3>1
  <2> QED
    BY <2>2, <2>7, <2>8
<1> QED
    BY <1>1, ServerInvariant, PTL DEF ServerInv

(* A console that pages through the log while events are written and       *)
(* cleaned away shows every event that was there all the time, except for  *)
(* one for each newer event removed meanwhile, and one for each event that *)
(* was inserted between the last count and the last page: the offset of a  *)
(* page is the only position listAudits keeps.                             *)
THEOREM ReadersMissNothing == Spec => []ReaderMissesNothing
<1>1. ASSUME AuditInv, ReaderInv PROVE ReaderMissesNothing
  <2> DEFINE T == DOMAIN audits
             missed == (reader.start \cap T) \ reader.seen
             above == {i \in reader.gone : \E m \in missed : i > m}
  <2> SUFFICES ASSUME reader.pc = "end"
               PROVE  Cardinality(missed) <= Cardinality(above) + reader.late
    BY DEF ReaderMissesNothing
  <2>1. Reads(reader, T, lastAudit) /\ lastAudit \in Nat /\ T \subseteq 1..lastAudit
    BY <1>1 DEF AuditInv, ServerTypeOK, ReaderInv, NoReader
  <2>2. missed = Unread(reader, T) /\ Finished(T, missed, reader.gone, reader.late)
    BY <2>1 DEF Unread, Reads
  <2>a. IsFiniteSet(reader.gone) /\ reader.late \in Nat /\ IsFiniteSet(T)
    BY <2>1, ReaderFacts
  <2>b. above \subseteq reader.gone /\ missed \subseteq T
    OBVIOUS
  <2>3. IsFiniteSet(above) /\ Cardinality(above) \in Nat /\ reader.late \in Nat
    <3> HIDE DEF above
    <3> QED
      BY <2>a, <2>b, SubsetIsSmaller
  <2>4. CASE missed = {}
    BY <2>3, <2>4, FS_EmptySet
  <2>5. CASE missed # {}
    <3>1. missed \subseteq T /\ T \in SUBSET Nat
      BY <2>1, ReaderFacts
    <3>2. PICK m \in missed : \A i \in missed : m <= i
      BY <2>5, <3>1, LeastOf
    <3>3. From(missed, m) = missed
      BY <3>1, <3>2 DEF From
    <3>4. Cardinality(missed) <= Cardinality(Above(reader.gone, m)) + reader.late
      BY <2>2, <3>1, <3>2, <3>3 DEF Finished
    <3>5. Above(reader.gone, m) \subseteq above
      BY <3>2 DEF Above
    <3>6. Cardinality(Above(reader.gone, m)) <= Cardinality(above)
          /\ Cardinality(Above(reader.gone, m)) \in Nat
      BY <2>3, <3>5, SubsetIsSmaller
    <3> HIDE DEF missed, above
    <3>7. Cardinality(missed) \in Nat
      BY <2>a, <2>b, SubsetIsSmaller
    <3> QED
      BY <2>3, <3>4, <3>6, <3>7
  <2> QED
    BY <2>4, <2>5
<1>2. Init => ReaderInv
    BY DEF Init, AuditInit, ReaderInv
<1>3. ServerInv /\ ReaderInv /\ [Next]_vars => ReaderInv'
    BY ReaderStepKeeps DEF ServerInv
<1>4. Spec => [](ServerInv /\ ReaderInv)
    BY <1>2, <1>3, ServerInvariant, PTL DEF Spec
<1>5. ServerInv /\ ReaderInv => ReaderMissesNothing
    BY <1>1 DEF ServerInv
<1> QED
    BY <1>4, <1>5, PTL

(* Only a session that verifySession accepts begins a change through the   *)
(* console, so its actor signed in under the process's own master key and  *)
(* less than a session ago, restarts and key changes notwithstanding.      *)
THEOREM ChangesAreByAdministrators == Spec => ChangeFollowsLogin
<1> DEFINE Signed ==
        tx' # <<>> /\ tx = <<>> /\ tx'[1].proc \in Procs =>
            \E s \in sessions : /\ s.actor = tx'[1].actor /\ s.master = proc[tx'[1].proc][1].master
                                /\ now - s.at < SessionDuration
<1>1. ASSUME ServerInv, [Next]_vars PROVE Signed
  <2> SUFFICES ASSUME tx' # <<>>, tx = <<>>, tx'[1].proc \in Procs
               PROVE  \E s \in sessions : /\ s.actor = tx'[1].actor
                                          /\ s.master = proc[tx'[1].proc][1].master
                                          /\ now - s.at < SessionDuration
    OBVIOUS
  <2>1. \/ \E p \in Procs, session \in sessions : \E action, k : Change(p, session, action, k)
        \/ \E action, k : ChangeByCommand(action, k)
    BY <1>1 DEF Next, vars, auditVars, Start, Stop, OpenLog, Open, SignIn, SigningRequest, SigningStep,
           SigningFault, AuditStep, AuditFault, Tick, Commit, Record, CleanupBegins, DeleteBefore,
           Count, Find, Close, Rollback, RecordFails, CleanupFails
  <2>2. ASSUME NEW action, NEW k, ChangeByCommand(action, k) PROVE FALSE
    <3>1. tx'[1].proc = CLI
      BY <2>2 DEF ChangeByCommand, Begin
    <3> QED
      BY <3>1, AuditAssumption
  <2>3. ASSUME NEW p \in Procs, NEW session \in sessions, NEW action, NEW k,
               Change(p, session, action, k)
        PROVE  /\ session.actor = tx'[1].actor /\ session.master = proc[tx'[1].proc][1].master
               /\ now - session.at < SessionDuration
    <3>1. tx'[1].proc = p /\ tx'[1].actor = session.actor
      BY <2>3 DEF Change, Begin
    <3>2. session.master = proc[p][1].master /\ now < session.expires
      BY <2>3 DEF Change, VerifySession
    <3>3. now \in Nat /\ session.at \in Nat /\ session.expires = session.at + SessionDuration
          /\ SessionDuration \in Nat
      BY <1>1, ServerAssumption DEF ServerInv, SessionInv
    <3> QED
      BY <3>1, <3>2, <3>3
  <2> QED
    BY <2>1, <2>2, <2>3
<1>2. ServerInv /\ [Next]_vars => [Signed]_vars
    BY <1>1
<1> HIDE DEF Signed
<1>3. Spec => [][Signed]_vars
    BY <1>2, ServerInvariant, PTL DEF Spec
<1> QED
    BY <1>3 DEF Signed, ChangeFollowsLogin

=============================================================================
