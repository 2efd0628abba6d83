------------------------------- MODULE Server -------------------------------
(***************************************************************************)
(* Server processes on one data directory (backend/server.go), as during a *)
(* rolling restart: the audit log, the client signing key and the browser  *)
(* sessions by which administrators change API keys.  Sessions are signed  *)
(* cookies that no server keeps; a restart may change the master key and   *)
(* the retention, and a kill loses what a process had under way.           *)
(***************************************************************************)
EXTENDS AuditLog, SigningKey

CONSTANTS
    Configs,           \* [master, retention] that a process may start with
    SessionDuration,
    Kinds, Budgets     \* bounds of the model: events of each kind

ASSUME ServerAssumption ==
    /\ Signers = Procs
    /\ \A c \in Configs : c.retention \in Nat
    /\ SessionDuration \in Nat \ {0}
    /\ \A b \in Budgets : b \in [Kinds -> Nat]

VARIABLES
    proc,       \* process -> its configuration while it runs
    sessions,   \* session cookies issued; "at" is a history field
    left        \* events still allowed

vars == <<now, auditVars, signingVars, proc, sessions, left>>

Spend(k) == left[k] > 0 /\ left' = [left EXCEPT ![k] = @ - 1]

Running(p) == proc[p] # <<>>

Init ==
    /\ AuditInit /\ SigningInit
    /\ proc = [p \in Procs |-> <<>>]
    /\ sessions = {}
    /\ left \in Budgets

----------------------------------------------------------------------------
(* runServer *)

(* RunAuditRetention is started when a retention is configured, and cleans *)
(* at once.                                                                *)
Start(p, c) ==
    /\ ~Running(p) /\ Spend("start")
    /\ proc' = [proc EXCEPT ![p] = <<c>>]
    /\ cleaner' = [cleaner EXCEPT ![p] = IF c.retention > 0 THEN [NoCleaner EXCEPT !.due = now] ELSE @]
    /\ UNCHANGED <<now, audits, lastAudit, apiKeys, tx, waiting, reader, signingVars, sessions>>

Stop(p) ==
    /\ Running(p) /\ Spend("stop")
    /\ proc' = [proc EXCEPT ![p] = <<>>]
    /\ cleaner' = [cleaner EXCEPT ![p] = NoCleaner]
    /\ store' = [store EXCEPT ![p] = NewStore]
    /\ tx' = IF tx # <<>> /\ tx[1].proc = p THEN <<>> ELSE tx
    /\ waiting' = [event \in {e \in DOMAIN waiting : e.proc # p} |-> waiting[event]]
    /\ reader' = IF reader.pc \in {"count", "find"} /\ reader.proc = p THEN NoReader ELSE reader
    /\ UNCHANGED <<now, audits, lastAudit, apiKeys, keyFile, made, served, sessions>>

----------------------------------------------------------------------------
(* Sessions *)

(* BootstrapLogin, or the end of Callback: setSession and the event.       *)
SignIn(p, actor) ==
    /\ Running(p) /\ Spend("login")
    /\ sessions' = sessions \cup
         {[actor |-> actor, at |-> now, expires |-> now + SessionDuration, master |-> proc[p][1].master]}
    /\ Announce(p, actor, "login")
    /\ UNCHANGED <<now, audits, lastAudit, apiKeys, tx, cleaner, reader, signingVars, proc>>

(* A plausible bug: the signature is checked, the expiry is left to the    *)
(* browser.                                                                *)
MutVerifySession(p, session) == session.master = proc[p][1].master

(* verifySession: the signature is by this process's master key.           *)
VerifySession(p, session) == session.master = proc[p][1].master /\ now < session.expires

(* createAPIKey, revokeAPIKey, deleteAPIKey behind authenticate.  Anyone   *)
(* with the cookie counts; Logout only asks the browser to forget it.      *)
Change(p, session, action, k) ==
    /\ Running(p) /\ VerifySession(p, session) /\ Spend("change")
    /\ Begin(p, session.actor, action, k)
    /\ UNCHANGED <<signingVars, proc, sessions>>

(* The same changes by the api-key command.                                *)
ChangeByCommand(action, k) ==
    /\ Spend("change")
    /\ Begin(CLI, "local-cli", action, k)
    /\ UNCHANGED <<signingVars, proc, sessions>>

----------------------------------------------------------------------------
(* Steps of the components *)

AuditStep ==
    /\ \/ Tick \/ Commit \/ \E event \in DOMAIN waiting : Record(event)
       \/ \E p \in Procs : Running(p) /\ (CleanupBegins(p, proc[p][1].retention) \/ DeleteBefore(p))
       \/ Count \/ Find \/ Close
    /\ UNCHANGED <<signingVars, proc, sessions, left>>

AuditFault ==
    /\ \/ Rollback \/ \E event \in DOMAIN waiting : RecordFails(event)
       \/ \E p \in Procs : CleanupFails(p)
    /\ Spend("fault")
    /\ UNCHANGED <<signingVars, proc, sessions>>

OpenLog(p) ==
    /\ Running(p) /\ Spend("read")
    /\ Open(p)
    /\ UNCHANGED <<signingVars, proc, sessions>>

SigningStep(p) ==
    /\ Running(p)
    /\ ReadKey(p, proc[p][1].master) \/ Link(p, proc[p][1].master) \/ Serve(p)
    /\ UNCHANGED <<now, auditVars, proc, sessions, left>>

SigningRequest(p) ==
    /\ Running(p) /\ Spend("update")
    /\ FirstRequest(p)
    /\ UNCHANGED <<now, auditVars, proc, sessions>>

SigningFault(p) ==
    /\ Spend("fault")
    /\ InitializeFails(p)
    /\ UNCHANGED <<now, auditVars, proc, sessions>>

Next ==
    \/ \E p \in Procs :
         \/ \E c \in Configs : Start(p, c)
         \/ Stop(p) \/ OpenLog(p)
         \/ \E actor \in Admins : SignIn(p, actor)
         \/ \E session \in sessions, action \in Actions, k \in 1..Len(apiKeys) + 1 :
              Change(p, session, action, k)
         \/ SigningRequest(p) \/ SigningStep(p) \/ SigningFault(p)
    \/ \E action \in Actions, k \in 1..Len(apiKeys) + 1 : ChangeByCommand(action, k)
    \/ AuditStep \/ AuditFault

Spec == Init /\ [][Next]_vars

----------------------------------------------------------------------------
(* Properties *)

EventsOf(k) == {i \in DOMAIN audits : audits[i].key = k}
Latest(ids) == CHOOSE i \in ids : \A j \in ids : j <= i

(* API-key changes and their audit events are one transaction: whatever    *)
(* fails, crashes or runs beside it, the newest event of a key tells the   *)
(* key's state, and only age can have removed it.                          *)
AuditTellsKeyState ==
    /\ AuditTypeOK
    /\ \A k \in DOMAIN apiKeys :
         IF EventsOf(k) = {} THEN \E c \in Configs : c.retention > 0 /\ apiKeys[k].at < now - c.retention
         ELSE Outcome(audits[Latest(EventsOf(k))].action) = apiKeys[k].state

(* A process with a retention that has cleaned once removes every event    *)
(* that is older, at the latest one interval later and one more for each   *)
(* cleanup that failed, although other processes and late inserts add old  *)
(* events meanwhile.                                                       *)
RetentionIsEnforced ==
    \A p \in Procs : Running(p) /\ proc[p][1].retention > 0 =>
        \A i \in DOMAIN audits :
            \/ CleanupPending(p) \/ ~cleaner[p].cleaned
            \/ audits[i].in >= now - proc[p][1].retention - (1 + cleaner[p].failures) * CleanupInterval

(* Paging through the log while it grows and shrinks: an event that was    *)
(* there from the beginning to the end is shown, unless newer events were  *)
(* removed meanwhile (their time was read before that of an older row) or  *)
(* the last page count was already out of date when the page was read.     *)
ReaderMissesNothing ==
    reader.pc = "end" =>
        LET missed == (reader.start \cap DOMAIN audits) \ reader.seen
            above == {i \in reader.gone : \E m \in missed : i > m}
        IN  Cardinality(missed) <= Cardinality(above) + reader.late

(* Every change of a key through the console is by an administrator who    *)
(* signed in under the master key of the process that took the request,    *)
(* less than a session ago.                                                *)
ChangeFollowsLogin ==
    [][tx' # <<>> /\ tx = <<>> /\ tx'[1].proc \in Procs =>
         \E s \in sessions : /\ s.actor = tx'[1].actor /\ s.master = proc[tx'[1].proc][1].master
                             /\ now - s.at < SessionDuration]_vars

=============================================================================
