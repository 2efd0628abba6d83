------------------------------ MODULE AuditLog ------------------------------
(***************************************************************************)
(* The audit table (backend/database/repository, service, api): events     *)
(* written in the transaction of an API-key change or, best effort, after  *)
(* a login; the retention task of every server process; and the console    *)
(* paging through the table, newest first.  Each process has one database  *)
(* connection, so that its reads wait for its own transaction; writes wait *)
(* for everybody's.                                                        *)
(*                                                                         *)
(* The clock counts in units in which a cleanup completes: time does not   *)
(* pass while one is due or under way.                                     *)
(***************************************************************************)
EXTENDS Integers, Sequences, FiniteSets, BagsExt

CONSTANTS
    Procs,             \* server processes that share the data directory
    CLI,               \* the api-key command, a process of its own
    Admins,            \* administrators, and how they sign in
    CleanupInterval,   \* auditCleanupInterval
    PerPage,           \* per_page of the console's requests
    MaxTime            \* bound of the model

ASSUME AuditAssumption ==
    /\ IsFiniteSet(Procs) /\ CLI \notin Procs
    /\ {CleanupInterval, PerPage} \subseteq Nat \ {0} /\ MaxTime \in Nat

VARIABLES
    now,
    audits,     \* audit_events: id -> row
    lastAudit,  \* the table's autoincrement counter
    apiKeys,    \* api_keys by id; a deleted key is kept as a history
    tx,         \* the key transaction that holds the write lock, if any
    waiting,    \* best-effort events with their time, not yet inserted: a bag
    cleaner,    \* process -> its RunAuditRetention
    reader      \* the console reading the log

auditVars == <<audits, lastAudit, apiKeys, tx, waiting, cleaner, reader>>

(* The changes of API keys, and who may be the actor of an event.          *)
Actions == {"create", "revoke", "delete"}
Actors == Admins \cup {"local-cli"}

(* "in" is a history field: when the row was inserted.                     *)
Rows == [at : Nat, in : Nat, actor : Actors, action : Actions \cup {"login"}, key : Nat]

NoReader == [pc |-> "idle"]
NoCleaner == [due |-> -1, cutoff |-> <<>>, cleaned |-> FALSE, failures |-> 0]

AuditInit ==
    /\ now = 0
    /\ audits = <<>> /\ lastAudit = 0
    /\ apiKeys = <<>>
    /\ tx = <<>> /\ waiting = <<>>
    /\ cleaner = [p \in Procs |-> NoCleaner]
    /\ reader = NoReader

AuditTypeOK ==
    /\ now \in 0..MaxTime
    /\ DOMAIN audits \subseteq 1..lastAudit /\ \A i \in DOMAIN audits : audits[i] \in Rows
    /\ \A k \in DOMAIN apiKeys : apiKeys[k].state \in {"active", "revoked", "deleted"}
    /\ Len(tx) <= 1
    /\ \A p \in Procs : cleaner[p].due \in -1..MaxTime + CleanupInterval

CleanupPending(p) == cleaner[p].cutoff # <<>> \/ cleaner[p].due \in 0..now

Tick ==
    /\ now < MaxTime
    /\ \A p \in Procs : ~CleanupPending(p)
    /\ now' = now + 1
    /\ UNCHANGED auditVars

----------------------------------------------------------------------------
(* Writing *)

(* Rows inserted while the console is between Count and Find.              *)
ReaderSeesInsert == IF reader.pc = "find" THEN [reader EXCEPT !.late = @ + 1] ELSE reader

Insert(row) ==
    /\ lastAudit' = lastAudit + 1
    /\ audits' = [i \in DOMAIN audits \cup {lastAudit'} |-> IF i = lastAudit' THEN row ELSE audits[i]]
    /\ reader' = ReaderSeesInsert

Row(event) ==
    [at |-> event.at, in |-> now, actor |-> event.actor, action |-> event.action, key |-> event.key]

Outcome(action) ==
    CASE action = "create" -> "active" [] action = "revoke" -> "revoked" [] action = "delete" -> "deleted"

(* Create makes a new key, Revoke needs a row, Delete a revoked one; the   *)
(* transaction of any other request ends at once and changes nothing.      *)
Allowed(action, k) ==
    CASE action = "create" -> k = Len(apiKeys) + 1
      [] action = "revoke" -> k \in DOMAIN apiKeys /\ apiKeys[k].state # "deleted"
      [] action = "delete" -> k \in DOMAIN apiKeys /\ apiKeys[k].state = "revoked"

(* The key is written, then the time of its event is taken: the            *)
(* transaction holds the lock.                                             *)
Begin(p, actor, action, k) ==
    /\ tx = <<>> /\ Allowed(action, k)
    /\ tx' = <<[proc |-> p, actor |-> actor, action |-> action, key |-> k, at |-> now]>>
    /\ UNCHANGED <<now, audits, lastAudit, apiKeys, waiting, cleaner, reader>>

Apply(change) ==
    LET row == [state |-> Outcome(change.action), at |-> change.at] IN
    apiKeys' = [k \in DOMAIN apiKeys \cup {change.key} |-> IF k = change.key THEN row ELSE apiKeys[k]]

(* The event is inserted and both are committed ...                        *)
Commit ==
    /\ tx # <<>>
    /\ Apply(tx[1])
    /\ Insert(Row(tx[1]))
    /\ tx' = <<>>
    /\ UNCHANGED <<now, waiting, cleaner>>

(* A plausible bug: the change is kept although its event was not written. *)
MutRollback ==
    /\ tx # <<>> /\ tx' = <<>>
    /\ Apply(tx[1])
    /\ UNCHANGED <<now, audits, lastAudit, waiting, cleaner, reader>>

(* ... or neither is.                                                      *)
Rollback ==
    /\ tx # <<>> /\ tx' = <<>>
    /\ UNCHANGED <<now, audits, lastAudit, apiKeys, waiting, cleaner, reader>>

(* recordAudit outside a transaction: the time is read before the insert   *)
(* gets the connection.                                                    *)
Announce(p, actor, action) ==
    waiting' = BagAdd(waiting, [proc |-> p, actor |-> actor, action |-> action, key |-> 0, at |-> now])

Record(event) ==
    /\ tx = <<>>
    /\ Insert(Row(event))
    /\ waiting' = BagRemove(waiting, event)
    /\ UNCHANGED <<now, apiKeys, tx, cleaner>>

RecordFails(event) ==
    /\ waiting' = BagRemove(waiting, event)
    /\ UNCHANGED <<now, audits, lastAudit, apiKeys, tx, cleaner, reader>>

----------------------------------------------------------------------------
(* RunAuditRetention *)

Cutoff(retention) == now - retention

CleanupBegins(p, retention) ==
    /\ cleaner[p].cutoff = <<>> /\ cleaner[p].due \in 0..now
    /\ cleaner' = [cleaner EXCEPT ![p].cutoff = <<Cutoff(retention)>>, ![p].due = now + CleanupInterval]
    /\ UNCHANGED <<now, audits, lastAudit, apiKeys, tx, waiting, reader>>

(* "cleaned" and "failures" are history fields: this process has cleaned,  *)
(* and the errors since then; and "gone" of the reader.                    *)
DeleteBefore(p) ==
    /\ cleaner[p].cutoff # <<>> /\ tx = <<>>
    /\ LET old == {i \in DOMAIN audits : audits[i].at < cleaner[p].cutoff[1]} IN
       /\ audits' = [i \in DOMAIN audits \ old |-> audits[i]]
       /\ reader' = IF reader.pc = "idle" THEN reader ELSE [reader EXCEPT !.gone = @ \cup old]
    /\ cleaner' = [cleaner EXCEPT ![p].cutoff = <<>>, ![p].cleaned = TRUE, ![p].failures = 0]
    /\ UNCHANGED <<now, lastAudit, apiKeys, tx, waiting>>

(* A plausible bug: the task ends with its first error.                    *)
MutCleanupFails(p) ==
    /\ cleaner[p].cutoff # <<>>
    /\ cleaner' = [cleaner EXCEPT ![p].due = -1, ![p].cutoff = <<>>, ![p].failures = @ + 1]
    /\ UNCHANGED <<now, audits, lastAudit, apiKeys, tx, waiting, reader>>

(* An error is logged; the next attempt is the next tick's.                *)
CleanupFails(p) ==
    /\ cleaner[p].cutoff # <<>>
    /\ cleaner' = [cleaner EXCEPT ![p].cutoff = <<>>, ![p].failures = @ + 1]
    /\ UNCHANGED <<now, audits, lastAudit, apiKeys, tx, waiting, reader>>

----------------------------------------------------------------------------
(* listAudits: Count and Find are two queries *)

MayRead(p) == tx # <<>> => tx[1].proc # p

(* start and what follows are history fields: the rows there were, those   *)
(* shown, those deleted, and those inserted behind the last Count.         *)
Open(p) ==
    /\ reader = NoReader
    /\ reader' = [pc |-> "count", proc |-> p, page |-> 1, total |-> 0,
                  start |-> DOMAIN audits, seen |-> {}, gone |-> {}, late |-> 0]
    /\ UNCHANGED <<now, audits, lastAudit, apiKeys, tx, waiting, cleaner>>

Count ==
    /\ reader.pc = "count" /\ MayRead(reader.proc)
    /\ reader' = [reader EXCEPT !.pc = "find", !.total = Cardinality(DOMAIN audits), !.late = 0]
    /\ UNCHANGED <<now, audits, lastAudit, apiKeys, tx, waiting, cleaner>>

Newer(i) == Cardinality({j \in DOMAIN audits : j > i})

(* A plausible bug: the oldest events come first.                          *)
MutPage(n) ==
    LET older(i) == Cardinality({j \in DOMAIN audits : j < i}) IN
    {i \in DOMAIN audits : older(i) >= (n - 1) * PerPage /\ older(i) < n * PerPage}

(* ORDER BY id DESC LIMIT PerPage OFFSET (n - 1) * PerPage                 *)
Page(n) == {i \in DOMAIN audits : Newer(i) >= (n - 1) * PerPage /\ Newer(i) < n * PerPage}

TotalPages == (reader.total + PerPage - 1) \div PerPage

(* The console offers the next page while there is one.                    *)
Find ==
    /\ reader.pc = "find" /\ MayRead(reader.proc)
    /\ reader' = [reader EXCEPT !.pc = IF reader.page < TotalPages THEN "count" ELSE "end",
                                !.page = @ + 1, !.seen = @ \cup Page(reader.page)]
    /\ UNCHANGED <<now, audits, lastAudit, apiKeys, tx, waiting, cleaner>>

Close ==
    /\ reader.pc = "end"
    /\ reader' = NoReader
    /\ UNCHANGED <<now, audits, lastAudit, apiKeys, tx, waiting, cleaner>>

=============================================================================
