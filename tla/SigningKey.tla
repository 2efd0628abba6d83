----------------------------- MODULE SigningKey -----------------------------
(***************************************************************************)
(* The signing key of the client update archive (backend/api): created by  *)
(* the first process that needs it and shared by all processes on the data *)
(* directory.  A process initializes its store once, on the first request, *)
(* and keeps the result, an error too.  A key is a number, in the order of *)
(* creation; the file is encrypted under the process's master key.         *)
(***************************************************************************)
EXTENDS Naturals, Sequences

CONSTANT Signers     \* server processes

VARIABLES
    keyFile,    \* client-update-signing-key.enc, if there is one
    made,       \* keys generated so far
    store,      \* process -> its clientUpdateStore and how far initialize is
    served      \* history: keys whose signature or public half was served

signingVars == <<keyFile, made, store, served>>

NewStore == [pc |-> "new", key |-> 0]

SigningInit ==
    /\ keyFile = <<>> /\ made = 0
    /\ store = [p \in Signers |-> NewStore]
    /\ served = {}

SigningTypeOK ==
    /\ Len(keyFile) <= 1
    /\ \A p \in Signers : store[p].pc \in {"new", "read", "link", "reread", "ready", "failed"}
    /\ served \subseteq 1..made

To(p, pc) == store' = [store EXCEPT ![p].pc = pc]

(* sync.Once: the first request initializes, others wait for it.           *)
FirstRequest(p) ==
    /\ store[p].pc = "new"
    /\ To(p, "read")
    /\ UNCHANGED <<keyFile, made, served>>

(* read: no file means that a key is made; a file of another master key is *)
(* an error.  The second read follows a link that found a file.            *)
ReadKey(p, master) ==
    /\ store[p].pc \in {"read", "reread"}
    /\ made' = IF keyFile = <<>> THEN made + 1 ELSE made
    /\ store' = [store EXCEPT ![p] =
         IF keyFile = <<>> THEN [pc |-> IF @.pc = "read" THEN "link" ELSE "failed", key |-> made']
         ELSE IF keyFile[1].master = master THEN [pc |-> "ready", key |-> keyFile[1].key]
         ELSE [pc |-> "failed", key |-> 0]]
    /\ UNCHANGED <<keyFile, served>>

(* A plausible bug: the temporary file is renamed over an existing key.    *)
MutLink(p, master) ==
    /\ store[p].pc = "link"
    /\ keyFile' = <<[key |-> store[p].key, master |-> master]>>
    /\ To(p, "ready")
    /\ UNCHANGED <<made, served>>

(* os.Link publishes the complete temporary file, or finds that another    *)
(* process was first.                                                      *)
Link(p, master) ==
    /\ store[p].pc = "link"
    /\ IF keyFile = <<>>
       THEN keyFile' = <<[key |-> store[p].key, master |-> master]>> /\ To(p, "ready")
       ELSE UNCHANGED keyFile /\ To(p, "reread")
    /\ UNCHANGED <<made, served>>

(* An asset, the file or the link fails: the error stays until the process *)
(* ends.                                                                   *)
InitializeFails(p) ==
    /\ store[p].pc \in {"read", "link", "reread"}
    /\ To(p, "failed")
    /\ UNCHANGED <<keyFile, made, served>>

(* clientUpdate: key.pem and manifest.                                     *)
Serve(p) ==
    /\ store[p].pc = "ready"
    /\ served' = served \cup {store[p].key}
    /\ UNCHANGED <<keyFile, made, store>>

(* Two processes that start on an empty data directory, one that is killed *)
(* half way and one with another master key: clients pin the key they were *)
(* first given, and every signature ever served is by that one key, which  *)
(* is the one on disk.                                                     *)
ProcessesShareSigningKey ==
    /\ SigningTypeOK
    /\ \A k \in served : keyFile # <<>> /\ keyFile[1].key = k

(* The key on disk as clients see it.                                      *)
Agreement == INSTANCE KeyAgreement WITH chosen <- {keyFile[i].key : i \in DOMAIN keyFile}

(* Whatever processes race, fail half way or restart, the first key linked *)
(* is never replaced or removed, and no process serves another or serves   *)
(* one before it is on disk.                                               *)
ImplementsKeyAgreement == Agreement!Spec

=============================================================================
