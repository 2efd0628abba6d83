----------------------------- MODULE Downloads ------------------------------
(***************************************************************************)
(* Certificate downloads with an API key (backend/api/bundle.go,           *)
(* certificate_handlers.go and the API key repository): requests run       *)
(* concurrently with each other, with key administration, with the         *)
(* command line and with the publication of new versions.  Each database   *)
(* statement or transaction is one step (there is one connection), and so  *)
(* is bundleCache.get, which holds its mutex while it builds a bundle.     *)
(*                                                                         *)
(* A key, a version and a request are numbers or model values: the secret  *)
(* of a token, and with it requests without a valid one, are left out.  A  *)
(* version directory never changes once it is published (see Issuance), so *)
(* that contents are named by version and artifact, and the ETag of a      *)
(* bundle by version and artifact set.  The administrator's session skips  *)
(* the key and its scopes and is left out, as is the audit log.            *)
(***************************************************************************)
EXTENDS Integers, Sequences, FiniteSets

CONSTANTS
    Requests,          \* handlers that may be active at once
    Certs,             \* the configured certificates that requests name
    ScopeOf,           \* certificateArtifacts: the scope each artifact needs
    Shapes,            \* the keys an administrator may create
    BundleSize,        \* length of a bundle, by artifact set
    bundleCacheLimit,
    Window,            \* usage sampling: one minute
    MaxTime, MaxKeys, MaxVersions, MaxRequests   \* bounds of the model

Artifacts == DOMAIN ScopeOf
FileSets == (SUBSET Artifacts) \ {{}}

ASSUME DownloadsAssumption == IsFiniteSet(Requests) /\ IsFiniteSet(Certs) /\ IsFiniteSet(Artifacts)
ASSUME ShapesAssumption ==
    \A s \in Shapes :
        /\ s.scopes # {} /\ (s.all <=> s.certificates = {})
        /\ s.all \in BOOLEAN /\ s.expires \in Int
ASSUME SizesAssumption ==
    /\ BundleSize \in [FileSets -> Nat] /\ bundleCacheLimit \in Nat
    /\ Window \in Nat \ {0} /\ {MaxTime, MaxKeys, MaxVersions, MaxRequests} \subseteq Nat

VARIABLES
    now,
    keys,       \* api_keys and api_key_certificates; a deleted row keeps its place
    enabled,    \* certificates.enabled
    versions,   \* certificate_versions: the certificate of each
    entries,    \* bundleCache.entries
    size,       \* bundleCache.size
    req,        \* the active requests
    count       \* how many requests there have been

cache == <<entries, size>>
vars == <<now, keys, enabled, versions, cache, req, count>>

Never == -1   \* a nil time

(* The locals of a request: what it asks for, the row, the grants and the  *)
(* cutoff Authenticate has read, the version resolved, the answer's body.  *)
(* History: dead, its key was revoked or expired when it arrived; shut,    *)
(* its certificate has been disabled since it arrived; least, the version  *)
(* current when it arrived.                                                *)
NoBody == [version |-> 0, files |-> {}]

Blank == [pc |-> "idle", key |-> 0, cert |-> "", files |-> {}, match |-> 0,
          revoked |-> FALSE, last |-> Never, grants |-> {}, at |-> 0, version |-> 0,
          body |-> NoBody, dead |-> FALSE, shut |-> FALSE, least |-> 0]

Active(pc) == pc \notin {"idle", "ok", "unmodified"}

TypeOK ==
    /\ now \in Nat
    /\ \A k \in DOMAIN keys :
         /\ keys[k].status \in {"active", "revoked", "deleted"}
         /\ keys[k].last \in Nat \cup {Never}
         /\ keys[k].status # "deleted" => keys[k].grants = keys[k].shape.certificates
    /\ enabled \in [Certs -> BOOLEAN]
    /\ versions \in Seq(Certs)
    /\ \A i \in DOMAIN entries :
         entries[i].version \in DOMAIN versions /\ entries[i].files \in FileSets
    /\ size \in Nat
    /\ \A r \in Requests : req[r].pc # "idle" =>
         req[r].key \in DOMAIN keys /\ req[r].cert \in Certs /\ req[r].files \in FileSets

Init ==
    /\ now = 0
    /\ keys = <<>>
    /\ enabled = [c \in Certs |-> TRUE]
    /\ versions = <<>>
    /\ entries = <<>> /\ size = 0
    /\ req = [r \in Requests |-> Blank]
    /\ count = 0

----------------------------------------------------------------------------
(* Key administration, by HTTP or by the command line *)

Expired(shape) == shape.expires # Never /\ shape.expires < now

Dead(k) == keys[k].status # "active" \/ Expired(keys[k].shape)

Create ==
    /\ Len(keys) < MaxKeys
    /\ \E s \in Shapes :
         keys' = Append(keys, [status |-> "active", shape |-> s, grants |-> s.certificates,
                               last |-> Never])
    /\ UNCHANGED <<now, enabled, versions, cache, req, count>>

Revoke(k) ==
    /\ keys[k].status # "deleted"
    /\ keys' = [keys EXCEPT ![k].status = "revoked"]
    /\ UNCHANGED <<now, enabled, versions, cache, req, count>>

(* Only a revoked key; its grants go in the same transaction.              *)
Delete(k) ==
    /\ keys[k].status = "revoked"
    /\ keys' = [keys EXCEPT ![k].status = "deleted", ![k].grants = {}]
    /\ UNCHANGED <<now, enabled, versions, cache, req, count>>

----------------------------------------------------------------------------
(* Surroundings *)

Tick ==
    /\ now < MaxTime
    /\ now' = now + 1
    /\ UNCHANGED <<keys, enabled, versions, cache, req, count>>

(* CertificateRepository.AddVersion by the issuance worker.                *)
Publish(c) ==
    /\ Len(versions) < MaxVersions
    /\ versions' = Append(versions, c)
    /\ UNCHANGED <<now, keys, enabled, cache, req, count>>

(* An edited config.yaml is reconciled by the command line.                *)
SwitchCertificate(c) ==
    /\ enabled' = [enabled EXCEPT ![c] = ~@]
    /\ req' = [r \in Requests |->
                 IF req[r].cert = c /\ ~enabled[c] THEN [req[r] EXCEPT !.shut = FALSE] ELSE req[r]]
    /\ UNCHANGED <<now, keys, versions, cache, count>>

(* The cache and the requests live in the process.                         *)
Restart ==
    /\ entries' = <<>> /\ size' = 0
    /\ req' = [r \in Requests |-> Blank]
    /\ UNCHANGED <<now, keys, enabled, versions, count>>

----------------------------------------------------------------------------
(* A request *)

VersionsOf(c) == {v \in DOMAIN versions : versions[v] = c}

CurrentVersion(c) ==
    IF VersionsOf(c) = {} THEN 0 ELSE CHOOSE v \in VersionsOf(c) : \A w \in VersionsOf(c) : w <= v

(* 401, 403, 404 or 500.                                                   *)
Refuse(r) == req' = [req EXCEPT ![r] = Blank]

(* 304, or 200 with a body.                                                *)
Answer(r, pc, v, body) ==
    req' = [req EXCEPT ![r] = [@ EXCEPT !.pc = pc, !.version = v, !.body = body, !.match = 0]]

(* A request arrives and Authenticate reads the key: First(&model) ...     *)
Arrive(r) ==
    /\ ~Active(req[r].pc)
    /\ count < MaxRequests /\ count' = count + 1
    /\ \E k \in DOMAIN keys, c \in Certs, fs \in FileSets : \E m \in {0, CurrentVersion(c)} :
         /\ keys[k].status # "deleted"
         /\ req' = [req EXCEPT ![r] =
                [Blank EXCEPT !.pc = "grants", !.key = k, !.cert = c, !.files = fs, !.match = m,
                              !.revoked = (keys[k].status = "revoked"),
                              !.last = keys[k].last,
                              !.dead = Dead(k), !.shut = ~enabled[c], !.least = CurrentVersion(c)]]
    /\ UNCHANGED <<now, keys, enabled, versions, cache>>

(* A plausible bug: a key that was used within the sampling window is not  *)
(* checked again.                                                          *)
MutReadGrantsRecent(r) ==
    /\ req[r].pc = "grants"
    /\ LET key == keys[req[r].key]
           sampled == req[r].last # Never /\ req[r].last > now - Window IN
       IF ~sampled /\ (req[r].revoked \/ Expired(key.shape)) THEN Refuse(r)
       ELSE req' = [req EXCEPT ![r].pc = IF sampled THEN "find" ELSE "stamp",
                               ![r].last = Never, ![r].grants = key.grants,
                               ![r].at = IF sampled THEN 0 ELSE now]
    /\ UNCHANGED <<now, keys, enabled, versions, cache, count>>

(* ... Preload, a second statement, then the checks on what was read.      *)
ReadGrants(r) ==
    /\ req[r].pc = "grants"
    /\ LET key == keys[req[r].key]
           sampled == req[r].last # Never /\ req[r].last > now - Window IN
       IF req[r].revoked \/ Expired(key.shape) THEN Refuse(r)
       ELSE req' = [req EXCEPT ![r].pc = IF sampled THEN "find" ELSE "stamp",
                               ![r].last = Never, ![r].grants = key.grants,
                               ![r].at = IF sampled THEN 0 ELSE now]
    /\ UNCHANGED <<now, keys, enabled, versions, cache, count>>

(* A plausible bug: the update relies on the row read before.              *)
MutStampUnconditional(r) ==
    /\ req[r].pc = "stamp"
    /\ req' = [req EXCEPT ![r].pc = "find", ![r].at = 0]
    /\ keys' = IF keys[req[r].key].status = "deleted" THEN keys
               ELSE [keys EXCEPT ![req[r].key].last = req[r].at]
    /\ UNCHANGED <<now, enabled, versions, cache, count>>

(* UPDATE ... WHERE id = ? AND (last_used_at IS NULL OR <= cutoff)         *)
Stamp(r) ==
    /\ req[r].pc = "stamp"
    /\ req' = [req EXCEPT ![r].pc = "find", ![r].at = 0]
    /\ LET key == keys[req[r].key] IN
       keys' = IF key.status # "deleted" /\ (key.last = Never \/ key.last <= req[r].at - Window)
               THEN [keys EXCEPT ![req[r].key].last = req[r].at] ELSE keys
    /\ UNCHANGED <<now, enabled, versions, cache, count>>

(* A failed update is logged; the request goes on.                         *)
StampFails(r) ==
    /\ req[r].pc = "stamp"
    /\ req' = [req EXCEPT ![r].pc = "find", ![r].at = 0]
    /\ UNCHANGED <<now, keys, enabled, versions, cache, count>>

(* Principal.Allows, on the principal built from what was read.            *)
Allows(r, scope) ==
    LET shape == keys[req[r].key].shape IN
    /\ scope \in shape.scopes \/ "*" \in shape.scopes
    /\ shape.all \/ req[r].cert \in req[r].grants

(* downloadBundle's loop over the files, requireScope for a single one.    *)
Authorized(r) == \A f \in req[r].files : Allows(r, ScopeOf[f])

(* 403, or findEnabledCertificate ...                                      *)
FindCertificate(r) ==
    /\ req[r].pc = "find"
    /\ IF Authorized(r) /\ enabled[req[r].cert]
       THEN req' = [req EXCEPT ![r].pc = "version", ![r].grants = {}] ELSE Refuse(r)
    /\ UNCHANGED <<now, keys, enabled, versions, cache, count>>

(* ... and currentVersion.  The validator is compared: downloadCertificate *)
(* does so after it has read the file, which changes nothing.              *)
ResolveVersion(r) ==
    /\ req[r].pc = "version"
    /\ LET v == CurrentVersion(req[r].cert) IN
       IF v = 0 THEN Refuse(r)
       ELSE IF req[r].match = v THEN Answer(r, "unmodified", v, NoBody)
       ELSE req' = [req EXCEPT ![r].pc = "read", ![r].version = v, ![r].match = 0]
    /\ UNCHANGED <<now, keys, enabled, versions, cache, count>>

(* A single artifact is downloaded without the cache.                      *)
GetArtifact(r) ==
    /\ req[r].pc = "read" /\ Cardinality(req[r].files) = 1
    /\ Answer(r, "ok", req[r].version, [version |-> req[r].version, files |-> req[r].files])
    /\ UNCHANGED <<now, keys, enabled, versions, cache, count>>

----------------------------------------------------------------------------
(* bundleCache.get *)

(* A plausible bug: the key of an entry names the certificate, not the     *)
(* version.                                                                *)
MutSameKey(entry, r) == versions[entry.version] = req[r].cert /\ entry.files = req[r].files

SameKey(entry, r) == entry.version = req[r].version /\ entry.files = req[r].files

Length(entry) == BundleSize[entry.files]

(* The total length of the first n entries of a list, for each n.          *)
Totals(list) ==
    LET total[n \in 0..Len(list)] == IF n = 0 THEN 0 ELSE total[n - 1] + Length(list[n]) IN total

(* A hit moves to the end of the list.                                     *)
Hit(r) ==
    /\ req[r].pc = "read"
    /\ \E i \in DOMAIN entries :
         /\ SameKey(entries[i], r)
         /\ \A j \in 1..(i - 1) : ~SameKey(entries[j], r)
         /\ entries' = SubSeq(entries, 1, i - 1) \o SubSeq(entries, i + 1, Len(entries))
                         \o <<entries[i]>>
         /\ Answer(r, "ok", req[r].version, entries[i])
    /\ UNCHANGED <<now, keys, enabled, versions, size, count>>

(* A plausible bug: at most one entry is evicted.                          *)
MutEvicted(n, length) ==
    /\ n \in {0, 1} \cap 0..Len(entries)
    /\ IF size + length > bundleCacheLimit THEN n = 1 ELSE n = 0

(* The number of entries the loop evicts, oldest first.                    *)
Evicted(n, length) ==
    /\ size - Totals(entries)[n] + length <= bundleCacheLimit
    /\ \A m \in 0..(n - 1) : size - Totals(entries)[m] + length > bundleCacheLimit

(* The bundle is built from the resolved version's files; one that exceeds *)
(* the limit is not kept.                                                  *)
Miss(r) ==
    /\ req[r].pc = "read"
    /\ \A i \in DOMAIN entries : ~SameKey(entries[i], r)
    /\ LET built == [version |-> req[r].version, files |-> req[r].files] IN
       /\ Answer(r, "ok", req[r].version, built)
       /\ \/ Length(built) > bundleCacheLimit /\ UNCHANGED cache
          \/ /\ Length(built) <= bundleCacheLimit
             /\ \E n \in 0..Len(entries) :
                  /\ Evicted(n, Length(built))
                  /\ entries' = Append(SubSeq(entries, n + 1, Len(entries)), built)
                  /\ size' = size - Totals(entries)[n] + Length(built)
    /\ UNCHANGED <<now, keys, enabled, versions, count>>

(* A file cannot be read or decrypted, or a query fails.                   *)
Fails(r) ==
    /\ Active(req[r].pc)
    /\ Refuse(r)
    /\ UNCHANGED <<now, keys, enabled, versions, cache, count>>

----------------------------------------------------------------------------

Handle(r) ==
    \/ ReadGrants(r) \/ Stamp(r) \/ StampFails(r)
    \/ FindCertificate(r) \/ ResolveVersion(r) \/ GetArtifact(r) \/ Hit(r) \/ Miss(r) \/ Fails(r)

Next ==
    \/ Create \/ \E k \in DOMAIN keys : Revoke(k) \/ Delete(k)
    \/ Tick \/ Restart \/ \E c \in Certs : Publish(c) \/ SwitchCertificate(c)
    \/ \E r \in Requests : Arrive(r) \/ Handle(r)

Spec == Init /\ [][Next]_vars

----------------------------------------------------------------------------
(* Properties *)

Answered(r) == req[r].pc \in {"ok", "unmodified"}

(* Revocation and expiry are never cached, nor is the enablement of a      *)
(* certificate: a request that arrives after a revocation or expiry, or    *)
(* whose certificate stays disabled, learns nothing, not even from the     *)
(* bundle cache or a matching validator.  Others get nothing beyond the    *)
(* scopes and certificates that their key was created with, also when the  *)
(* key is deleted half way through the request.                            *)
AnswerIsAuthorized ==
    \A r \in Requests : Answered(r) =>
        LET shape == keys[req[r].key].shape IN
        /\ ~req[r].dead /\ ~req[r].shut
        /\ \A f \in req[r].files : {ScopeOf[f], "*"} \cap shape.scopes # {}
        /\ shape.all \/ req[r].cert \in shape.certificates

(* The body delivered is of the certificate and exactly the artifacts that *)
(* were asked for, of one version, and no older than the one that was      *)
(* current when the request arrived; nor is "not modified" said of older.  *)
AnswerIsCurrent ==
    \A r \in Requests : Answered(r) =>
        /\ req[r].version >= req[r].least
        /\ versions[req[r].version] = req[r].cert
        /\ req[r].pc = "ok" => req[r].body = [version |-> req[r].version, files |-> req[r].files]

(* The cache holds at most bundleCacheLimit bytes, its size is the sum of  *)
(* its entries (else the eviction loop runs off the end), and no bundle is *)
(* kept twice; the rows and requests it serves are well formed.            *)
CacheIsAccounted ==
    /\ TypeOK
    /\ size = Totals(entries)[Len(entries)] /\ size <= bundleCacheLimit
    /\ \A i, j \in DOMAIN entries : entries[i] = entries[j] => i = j

(* Usage is sampled at most once per window, and never moves back, though  *)
(* requests decide by a row they read before others wrote it.              *)
UsageIsSampled ==
    [][\A k \in DOMAIN keys :
          keys'[k].last # keys[k].last /\ keys[k].last # Never =>
              keys'[k].last >= keys[k].last + Window]_vars

=============================================================================
