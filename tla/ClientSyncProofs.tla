-------------------------- MODULE ClientSyncProofs --------------------------
(***************************************************************************)
(* Theorems about the client's sync script, for any number of outputs,     *)
(* overlapping runs, versions, failures, signals and kills, and whichever  *)
(* deployment each run decides on: readers find whole sets, "not modified" *)
(* is answered only when it is true, and nothing but a rollback goes back. *)
(***************************************************************************)
EXTENDS ClientSync, TLAPS, SequenceTheorems

Contents == [o \in Outputs |-> Content(o)]
Linked == {o \in Outputs : out[o].kind = "link"}

(* What is true of the outputs while no run writes to them one by one, and *)
(* of the backup that a rollback puts back: the symlinks show one version; *)
(* all outputs are of one version; none is missing once a run was          *)
(* completed; and as long as the saved validator is the server's version,  *)
(* none is of another.                                                     *)
LinksAgree(content) ==
    "copying" \notin halfway => \E v \in Version \ {0} : \A o \in Linked : content[o] = v

Whole(content) ==
    halfway = {} =>
        \E v \in Version : \A o \in Outputs : content[o] = v \/ (spent["lose"] > 0 /\ content[o] = 0)

Kept(content) == spent["lose"] = 0 /\ etag # 0 => \A o \in Outputs : content[o] # 0

Fresh(content) == etag = published /\ ~DamagedInRepair => \A o \in Outputs : content[o] \in {0, published}

Sound(content) == LinksAgree(content) /\ Whole(content) /\ Kept(content) /\ Fresh(content)

(* No run copies or rolls back; none turns outputs into symlinks.          *)
NoCopying == \A r \in Runs : pc[r] \notin {"copy", "rollback"}
NoLinking == \A r \in Runs : pc[r] # "link"

(* flock 9.                                                                *)
OneRun == \A r, q \in Runs : pc[r] # "idle" /\ pc[q] # "idle" => r = q

Destination ==
    /\ etag <= published
    /\ Linked # {} => current # 0
    /\ current # 0 => snaps[current].there
    /\ Kept(Contents)
    /\ NoCopying => LinksAgree(Contents) /\ Fresh(Contents)
    /\ NoCopying /\ NoLinking => Whole(Contents)

Deploying == {"link", "copy", "reload", "retain", "relink", "save"}
Deployed == {"reload", "retain", "relink", "save"}

(* A run has found the outputs and the validator as they still are.        *)
Asks(r) ==
    pc[r] = "request" =>
        /\ sent[r] # 0 => sent[r] = etag /\ \A o \in Outputs : Content(o) # 0
        /\ sent[r] = 0 /\ etag # 0 => spent["lose"] > 0

(* It has a bundle that is no older than what was completed before.        *)
Bundled(r) == pc[r] \notin {"idle", "request", "unmodified"}
HasBundle(r) ==
    Bundled(r) =>
        /\ got[r] \in 1..published /\ etag <= got[r]
        /\ spent["lose"] = 0 => etag < got[r]

(* What it has done of its deployment, and of its rollback.                *)
Progress(r) ==
    /\ pc[r] \notin Deploying \cup {"rollback"} => done[r] = {}
    /\ pc[r] \in Deploying => \A o \in done[r] : Content(o) = got[r]
    /\ pc[r] \in Deployed => done[r] = Outputs
    /\ pc[r] = "rollback" /\ "copying" \notin halfway => \A o \in done[r] : Content(o) = backup[r][o]

Decided(r) ==
    /\ pc[r] # "idle" => deployment[r] # "none"
    /\ pc[r] \in {"snapshot", "switch", "link", "retain", "relink"} => deployment[r] = "atomic"
    /\ pc[r] \in {"backup", "copy", "rollback"} => deployment[r] = "copy"

Snapshots(r) ==
    /\ pc[r] = "switch" =>
         /\ snapshot[r] # 0 /\ snaps[snapshot[r]].there
         /\ \A o \in Outputs : snaps[snapshot[r]].files[o] = got[r]
    /\ pc[r] \in Deploying /\ deployment[r] = "atomic" =>
         current # 0 /\ current = snapshot[r] /\ \A o \in Outputs : snaps[current].files[o] = got[r]

BackedUp(r) ==
    pc[r] \in {"copy", "reload", "rollback"} /\ deployment[r] = "copy" => Sound(backup[r])

RunState(r) ==
    Asks(r) /\ HasBundle(r) /\ Progress(r) /\ Decided(r) /\ Snapshots(r) /\ BackedUp(r)

SyncInv == TypeOK /\ OneRun /\ Destination /\ \A r \in Runs : RunState(r)

----------------------------------------------------------------------------
(* Types *)

Row == [kind : {"none", "file", "link"}, version : Version \cup {Torn}]
Snapshot == [files : [Outputs -> Version \cup {Torn}], there : BOOLEAN, succeeded : BOOLEAN]

LEMMA EndTypes ==
    ASSUME TypeOK, NEW r \in Runs, End(r), UNCHANGED <<published, supports, current, previous>>,
           out' \in [Outputs -> Row], snaps' \in Seq(Snapshot), Len(snaps') = Len(snaps),
           etag' \in Version, loaded' \in Version \cup {Torn}, inherited' \in BOOLEAN,
           halfway' \in SUBSET {"linking", "copying"}, spent' \in [BoundedEvents -> Nat]
    PROVE  TypeOK'
<1>1. 0 \in Version /\ 0 \in 0..Len(snaps)
    BY VersionAssumption DEF TypeOK, Version
<1>2. "idle" \in PCs
    BY DEF PCs
<1> QED
    BY <1>1, <1>2 DEF TypeOK, End, Row, Snapshot

LEMMA SpendTypes ==
    ASSUME TypeOK, NEW e \in BoundedEvents, Spend(e)
    PROVE  spent' \in [BoundedEvents -> Nat]
BY DEF TypeOK, Spend

LEMMA SnapsAreRows ==
    ASSUME TypeOK
    PROVE  /\ snaps \in Seq(Snapshot) /\ DOMAIN snaps = 1..Len(snaps) /\ Len(snaps) \in Nat
           /\ \A s \in DOMAIN snaps : snaps[s] \in Snapshot
           /\ current \in 0..Len(snaps) /\ (current # 0 => current \in DOMAIN snaps)
<1>1. PICK S : S = Snapshot
    OBVIOUS
<1>2. snaps \in Seq(S)
    BY <1>1 DEF TypeOK, Snapshot
<1>3. DOMAIN snaps = 1..Len(snaps) /\ Len(snaps) \in Nat /\ \A s \in DOMAIN snaps : snaps[s] \in S
    BY <1>2
<1>4. current \in 0..Len(snaps)
    BY DEF TypeOK
<1>5. current # 0 => current \in DOMAIN snaps
    BY <1>3, <1>4
<1> QED
    BY <1>1, <1>2, <1>3, <1>4, <1>5

LEMMA FilesHaveVersions ==
    ASSUME TypeOK, NEW s \in DOMAIN snaps, NEW o \in Outputs
    PROVE  snaps[s].files[o] \in Version \cup {Torn}
BY SnapsAreRows DEF Snapshot

LEMMA ContentTypes ==
    ASSUME TypeOK
    PROVE  \A o \in Outputs : Content(o) \in Version \cup {Torn}
<1> SUFFICES ASSUME NEW o \in Outputs PROVE Content(o) \in Version \cup {Torn}
    OBVIOUS
<1>1. 0 \in Version
    BY VersionAssumption DEF Version
<1>2. PICK row : row = out[o] /\ row \in Row
    BY DEF TypeOK, Row
<1>3. row.kind \in {"none", "file", "link"} /\ row.version \in Version \cup {Torn}
    BY <1>2 DEF Row
<1>4. current # 0 => snaps[current].files[o] \in Version \cup {Torn}
    BY SnapsAreRows, FilesHaveVersions
<1> QED
    BY <1>1, <1>2, <1>3, <1>4 DEF Content

(* The snapshot directories keep their number.                             *)
LEMMA RewrittenSnaps ==
    ASSUME TypeOK, NEW new, new = [s \in DOMAIN snaps |-> new[s]], \A s \in DOMAIN snaps : new[s] \in Snapshot
    PROVE  new \in Seq(Snapshot) /\ Len(new) = Len(snaps) /\ DOMAIN new = DOMAIN snaps
<1>1. snaps \in Seq(Snapshot) /\ DOMAIN snaps = 1..Len(snaps) /\ Len(snaps) \in Nat
    BY SnapsAreRows
<1>2. new \in [1..Len(snaps) -> Snapshot]
    BY <1>1
<1> QED
    BY <1>1, <1>2

LEMMA FileIs ==
    ASSUME NEW v \in Version \cup {Torn}
    PROVE  /\ File(v) \in Row /\ File(v).version = v
           /\ File(v).kind \in {"none", "file"} /\ (File(v).kind = "none" <=> v = 0)
BY VersionAssumption DEF File, Absent, Version, Torn, Row

(* What a write changes: the output shows the version written, the others  *)
(* stay, and so do the symlinks and what else the snapshots are.           *)
LEMMA WriteShows ==
    ASSUME TypeOK, NEW o \in Outputs, NEW v \in (Version \ {0}) \cup {Torn}, Write(o, v),
           UNCHANGED current, Linked # {} => current # 0, current # 0 => snaps[current].there
    PROVE  /\ out' \in [Outputs -> Row] /\ snaps' \in Seq(Snapshot) /\ Len(snaps') = Len(snaps)
           /\ Content(o)' = v /\ \A p \in Outputs : p # o => Content(p)' = Content(p)
           /\ Linked' = Linked /\ (current # 0 => snaps'[current].there)
<1>1. out \in [Outputs -> Row] /\ out[o] \in Row
    BY DEF TypeOK, Row
<1>2. CASE out[o].kind = "link"
  <2>1. current # 0 /\ current \in DOMAIN snaps /\ snaps[current].there
    BY <1>2, SnapsAreRows DEF Linked
  <2>2. \A s \in DOMAIN snaps : snaps[s] \in Snapshot
    BY SnapsAreRows
  <2>3. /\ snaps' = [s \in DOMAIN snaps |-> snaps'[s]] /\ out' = out
        /\ \A s \in DOMAIN snaps : s # current => snaps'[s] = snaps[s]
        /\ snaps'[current] = [snaps[current] EXCEPT !.files = [@ EXCEPT ![o] = v]]
    BY <1>2, <2>1 DEF Write
  <2>4. /\ snaps[current] \in Snapshot /\ snaps[current].files \in [Outputs -> Version \cup {Torn}]
    BY <2>1, <2>2 DEF Snapshot
  <2>5. PICK files : files = [snaps[current].files EXCEPT ![o] = v]
    OBVIOUS
  <2>6. files \in [Outputs -> Version \cup {Torn}] /\ files[o] = v
        /\ \A p \in Outputs : p # o => files[p] = snaps[current].files[p]
    BY <2>4, <2>5
  <2>7. snaps'[current] \in Snapshot /\ snaps'[current].files = files /\ snaps'[current].there
    BY <2>1, <2>3, <2>4, <2>5, <2>6 DEF Snapshot
  <2>8. \A s \in DOMAIN snaps : snaps'[s] \in Snapshot
    BY <2>2, <2>3, <2>7
  <2>9. snaps' \in Seq(Snapshot) /\ Len(snaps') = Len(snaps)
    BY <2>3, <2>8, RewrittenSnaps
  <2>10. Content(o)' = v
    BY <1>2, <2>1, <2>3, <2>6, <2>7 DEF Content
  <2>11. \A p \in Outputs : p # o => Content(p)' = Content(p)
    BY <2>1, <2>3, <2>6, <2>7 DEF Content
  <2> QED
    BY <1>1, <2>3, <2>7, <2>9, <2>10, <2>11 DEF Linked
<1>3. CASE out[o].kind # "link"
  <2>1. out' = [out EXCEPT ![o] = File(v)] /\ snaps' = snaps
    BY <1>3 DEF Write
  <2>2. v # 0 /\ File(v) \in Row /\ File(v).version = v /\ File(v).kind = "file"
    BY FileIs, VersionAssumption DEF Torn
  <2>3. /\ out' \in [Outputs -> Row] /\ out'[o] = File(v)
        /\ \A p \in Outputs : p # o => out'[p] = out[p]
    BY <1>1, <2>1, <2>2
  <2>4. Content(o)' = v
    BY <2>2, <2>3 DEF Content
  <2>5. \A p \in Outputs : p # o => Content(p)' = Content(p)
    BY <2>1, <2>3 DEF Content
  <2>6. Linked' = Linked
    BY <1>3, <2>2, <2>3 DEF Linked
  <2> QED
    BY <2>1, <2>3, <2>4, <2>5, <2>6, SnapsAreRows
<1> QED
    BY <1>2, <1>3

LEMMA WriteTypes ==
    ASSUME TypeOK, NEW o \in Outputs, NEW v \in Version \cup {Torn}, Write(o, v)
    PROVE  out' \in [Outputs -> Row] /\ snaps' \in Seq(Snapshot) /\ Len(snaps') = Len(snaps)
<1>1. out \in [Outputs -> Row] /\ \A s \in DOMAIN snaps : snaps[s] \in Snapshot
    BY SnapsAreRows DEF TypeOK, Row
<1>2. CASE out[o].kind = "link"
  <2>1. out' = out /\ snaps' = [snaps EXCEPT ![current].files[o] = v]
    BY <1>2 DEF Write
  <2>2. snaps' = [s \in DOMAIN snaps |-> snaps'[s]]
    BY <2>1
  <2>3. ASSUME NEW s \in DOMAIN snaps PROVE snaps'[s] \in Snapshot
    <3>1. snaps'[s] = snaps[s] \/ snaps'[s] = [snaps[s] EXCEPT !.files = [@ EXCEPT ![o] = v]]
      BY <2>1
    <3>2. PICK files : files = [snaps[s].files EXCEPT ![o] = v]
      OBVIOUS
    <3>3. files \in [Outputs -> Version \cup {Torn}]
      BY <1>1, <3>2 DEF Snapshot
    <3> QED
      BY <1>1, <3>1, <3>2, <3>3 DEF Snapshot
  <2> QED
    BY <1>1, <2>1, <2>2, <2>3, RewrittenSnaps
<1>3. CASE out[o].kind # "link"
  <2>1. out' = [out EXCEPT ![o] = File(v)] /\ snaps' = snaps
    BY <1>3 DEF Write
  <2> QED
    BY <1>1, <2>1, FileIs, SnapsAreRows
<1> QED
    BY <1>2, <1>3

LEMMA TypeBegin == ASSUME TypeOK, NEW r \in Runs, Begin(r) PROVE TypeOK'
<1>1. spent' \in [BoundedEvents -> Nat]
    BY SpendTypes DEF Begin, Decide, BoundedEvents, TypeOK
<1>2. deployment' \in [Runs -> {"none", "atomic", "copy"}]
    BY DEF Begin, Decide, TypeOK
<1>3. pc' \in [Runs -> PCs]
    BY DEF Begin, Goto, PCs, TypeOK
<1>4. sent' \in [Runs -> Version]
    BY VersionAssumption DEF Begin, ChooseValidator, TypeOK, Version
<1> QED
    BY <1>1, <1>2, <1>3, <1>4 DEF TypeOK, Begin, disk, service, progress
LEMMA TypeNotModified == ASSUME TypeOK, NEW r \in Runs, NotModified(r) PROVE TypeOK'
BY DEF TypeOK, NotModified, Goto, PCs, disk, service, locals, bundle, progress
LEMMA TypeReceive == ASSUME TypeOK, NEW r \in Runs, Receive(r) PROVE TypeOK'
BY DEF TypeOK, Receive, Goto, PCs, disk, service, progress
LEMMA TypeUnpack == ASSUME TypeOK, NEW r \in Runs, Unpack(r) PROVE TypeOK'
BY DEF TypeOK, Unpack, Goto, PCs, disk, service, locals, bundle, progress
LEMMA TypeMoveSnapshot == ASSUME TypeOK, NEW r \in Runs, MoveSnapshot(r) PROVE TypeOK'
<1>1. PICK new : new = [files |-> [o \in Outputs |-> got[r]], there |-> TRUE, succeeded |-> FALSE]
    OBVIOUS
<1>2. new \in Snapshot
    BY <1>1 DEF TypeOK, Snapshot
<1>3. PICK S : S = Snapshot
    OBVIOUS
<1>4. snaps' \in Seq(S) /\ Len(snaps') = Len(snaps) + 1 /\ Len(snaps) \in Nat
    BY <1>1, <1>2, <1>3, SnapsAreRows DEF MoveSnapshot
<1>5. snapshot' \in [Runs -> 0..Len(snaps')] /\ old_snapshot' \in [Runs -> 0..Len(snaps')]
      /\ current' \in 0..Len(snaps') /\ previous' \in 0..Len(snaps')
    BY <1>4 DEF MoveSnapshot, TypeOK
<1>6. pc' \in [Runs -> PCs]
    BY DEF MoveSnapshot, Goto, PCs, TypeOK
<1> QED
    BY <1>3, <1>4, <1>5, <1>6 DEF TypeOK, MoveSnapshot, service, bundle, Snapshot
LEMMA TypeSwitch == ASSUME TypeOK, NEW r \in Runs, Switch(r) PROVE TypeOK'
BY DEF TypeOK, Switch, Goto, PCs, service, locals, bundle, progress
LEMMA TypeLinkOutput == ASSUME TypeOK, NEW r \in Runs, NEW o \in Outputs, LinkOutput(r, o) PROVE TypeOK'
<1>1. out' \in [Outputs -> Row]
    BY VersionAssumption DEF LinkOutput, TypeOK, Link, Row, Version
<1> QED
    BY <1>1 DEF TypeOK, LinkOutput, service, bundle, Row
LEMMA TypeBackup == ASSUME TypeOK, NEW r \in Runs, Backup(r) PROVE TypeOK'
BY ContentTypes DEF TypeOK, Backup, Goto, PCs, disk, service, bundle
LEMMA TypeCopyOutput == ASSUME TypeOK, NEW r \in Runs, NEW o \in Outputs, CopyOutput(r, o) PROVE TypeOK'
<1>1. got[r] \in Version \cup {Torn} /\ Write(o, got[r])
    BY DEF CopyOutput, TypeOK
<1>2. out' \in [Outputs -> Row] /\ snaps' \in Seq(Snapshot) /\ Len(snaps') = Len(snaps)
    BY <1>1, WriteTypes
<1> QED
    BY <1>2 DEF TypeOK, CopyOutput, service, bundle, Row, Snapshot
LEMMA TypeOutputsDone == ASSUME TypeOK, NEW r \in Runs, OutputsDone(r) PROVE TypeOK'
BY DEF TypeOK, OutputsDone, Goto, PCs, disk, service, locals, bundle, progress
LEMMA TypeReload == ASSUME TypeOK, NEW r \in Runs, Reload(r) PROVE TypeOK'
<1>1. \A s \in DOMAIN snaps : snaps[s] \in Snapshot
    BY SnapsAreRows
<1>2. snaps' = [s \in DOMAIN snaps |-> snaps'[s]] /\ \A s \in DOMAIN snaps : snaps'[s] \in Snapshot
    BY <1>1 DEF Reload, Snapshot
<1>3. snaps' \in Seq(Snapshot) /\ Len(snaps') = Len(snaps)
    BY <1>2, RewrittenSnaps
<1>4. loaded' \in Version \cup {Torn} /\ inherited' \in BOOLEAN /\ halfway' \in SUBSET {"linking", "copying"}
    BY ContentTypes, SyncAssumption DEF Reload
<1>5. pc' \in [Runs -> PCs]
    BY DEF Reload, Goto, PCs, TypeOK
<1> QED
    BY <1>3, <1>4, <1>5 DEF TypeOK, Reload, locals, bundle, progress, Snapshot
LEMMA TypeRemoveOlder == ASSUME TypeOK, NEW r \in Runs, RemoveOlder(r) PROVE TypeOK'
<1>1. \A s \in DOMAIN snaps : snaps[s] \in Snapshot
    BY SnapsAreRows
<1>2. snaps' = [s \in DOMAIN snaps |-> snaps'[s]] /\ \A s \in DOMAIN snaps : snaps'[s] \in Snapshot
    BY <1>1 DEF RemoveOlder, Snapshot
<1>3. snaps' \in Seq(Snapshot) /\ Len(snaps') = Len(snaps)
    BY <1>2, RewrittenSnaps
<1> QED
    BY <1>3 DEF TypeOK, RemoveOlder, Goto, PCs, service, locals, bundle, progress, Snapshot
LEMMA TypeRelinkPrevious == ASSUME TypeOK, NEW r \in Runs, RelinkPrevious(r) PROVE TypeOK'
BY DEF TypeOK, RelinkPrevious, Goto, PCs, service, locals, bundle, progress
LEMMA TypePublish == ASSUME TypeOK, Publish PROVE TypeOK'
BY VersionAssumption DEF TypeOK, Publish, Version, disk, service, locals, bundle, progress
LEMMA TypeLoseOutput == ASSUME TypeOK, NEW o \in Outputs, LoseOutput(o) PROVE TypeOK'
<1>1. out' \in [Outputs -> Row] /\ spent' \in [BoundedEvents -> Nat]
    BY SpendTypes, VersionAssumption DEF TypeOK, LoseOutput, Absent, Version, BoundedEvents, Row
<1> QED
    BY <1>1 DEF TypeOK, LoseOutput, service, locals, bundle, progress, Row
LEMMA TypeDaemonEnds == ASSUME TypeOK, DaemonEnds PROVE TypeOK'
BY DEF TypeOK, DaemonEnds, disk, locals, bundle, progress

----------------------------------------------------------------------------
(* What is left to show of a step of one run *)

(* The other runs wait for the lock.                                       *)
Alone(r) ==
    \A q \in Runs : q # r => pc[q] = "idle" /\ pc'[q] = "idle" /\ done'[q] = done[q]

LEMMA HolderIsAlone ==
    ASSUME SyncInv, NEW r \in Runs, pc[r] # "idle", NEW to, pc' = [pc EXCEPT ![r] = to],
           \A q \in Runs : q # r => done'[q] = done[q]
    PROVE  Alone(r)
BY DEF SyncInv, OneRun, Alone, TypeOK

LEMMA RunMoves ==
    ASSUME SyncInv, NEW r \in Runs, Alone(r), TypeOK', Destination', RunState(r)'
    PROVE  SyncInv'
<1>1. OneRun'
    BY DEF OneRun, Alone
<1>2. ASSUME NEW q \in Runs, q # r PROVE RunState(q)'
  <2>1. pc[q] = "idle" /\ pc'[q] = "idle" /\ done'[q] = {}
    BY <1>2 DEF Alone, SyncInv, RunState, Progress, Deploying
  <2> QED
    BY <2>1 DEF RunState, Asks, HasBundle, Bundled, Progress, Decided, Snapshots, BackedUp, Deploying, Deployed
<1> QED
    BY <1>1, <1>2 DEF SyncInv

LEMMA ContentsStay ==
    ASSUME UNCHANGED <<out, snaps, current>>
    PROVE  /\ Contents' = Contents /\ \A o \in Outputs : Content(o)' = Content(o)
           /\ Linked' = Linked
BY DEF Contents, Content, Linked

LEMMA OutputStays ==
    ASSUME NEW o \in Outputs, out'[o] = out[o], UNCHANGED <<snaps, current>>
    PROVE  Content(o)' = Content(o)
BY DEF Content

(* Nothing that the claims about a content depend on gets stricter.        *)
Eases ==
    /\ UNCHANGED <<published, etag>> /\ Linked' \subseteq Linked
    /\ spent'["lose"] = spent["lose"] /\ halfway \subseteq halfway'

LEMMA ClaimsStay ==
    ASSUME Eases, NEW content
    PROVE  /\ LinksAgree(content) => LinksAgree(content)'
           /\ Whole(content) => Whole(content)'
           /\ Kept(content) => Kept(content)'
           /\ Fresh(content) => Fresh(content)'
<1>1. "copying" \in halfway => "copying" \in halfway'
    BY DEF Eases
<1>2. halfway' = {} => halfway = {}
    BY DEF Eases
<1>3. LinksAgree(content) => LinksAgree(content)'
    BY <1>1 DEF Eases, LinksAgree
<1>4. Whole(content) => Whole(content)'
    BY <1>2 DEF Eases, Whole
<1>5. Fresh(content) => Fresh(content)'
    BY <1>1 DEF Eases, Fresh, DamagedInRepair
<1> QED
    BY <1>3, <1>4, <1>5 DEF Eases, Kept

LEMMA SoundStays ==
    ASSUME Eases, NEW content, Sound(content)
    PROVE  Sound(content)'
BY ClaimsStay DEF Sound

(* The backup, once taken, stays sound.                                    *)
LEMMA BackupStays ==
    ASSUME Eases, NEW r \in Runs, backup'[r] = backup[r], Sound(backup[r])
    PROVE  Sound(backup[r])'
<1>1. PICK content : content = backup[r]
    OBVIOUS
<1>2. Sound(content)' /\ backup'[r] = content
    BY <1>1, SoundStays
<1> QED
    BY <1>2 DEF Sound, LinksAgree, Whole, Kept, Fresh

(* A step that leaves what a reader of the destination finds.              *)
LEMMA DestinationStays ==
    ASSUME SyncInv, Eases, UNCHANGED <<current, Contents>>, current # 0 => snaps'[current].there,
           NoCopying' => LinksAgree(Contents) /\ Fresh(Contents),
           NoCopying' /\ NoLinking' => Whole(Contents)
    PROVE  Destination'
<1>1. PICK content : content = Contents
    OBVIOUS
<1>2. /\ LinksAgree(content) => LinksAgree(content)'
      /\ Whole(content) => Whole(content)'
      /\ Kept(content)'
      /\ Fresh(content) => Fresh(content)'
    BY <1>1, ClaimsStay DEF SyncInv, Destination
<1>3. Contents' = content
    BY <1>1
<1>4. /\ LinksAgree(Contents) => LinksAgree(Contents)'
      /\ Whole(Contents) => Whole(Contents)'
      /\ Kept(Contents)'
      /\ Fresh(Contents) => Fresh(Contents)'
    BY <1>1, <1>2, <1>3 DEF LinksAgree, Whole, Kept, Fresh
<1>5. etag' <= published' /\ (Linked' # {} => current' # 0) /\ (current' # 0 => snaps'[current'].there)
    BY DEF SyncInv, Destination, Eases
<1> QED
    BY <1>4, <1>5 DEF Destination

(* The run with the lock neither copies, links nor rolls back.             *)
LEMMA RestIsSound ==
    ASSUME SyncInv, NEW r \in Runs, pc[r] \notin {"idle", "copy", "rollback"}
    PROVE  /\ LinksAgree(Contents) /\ Kept(Contents) /\ Fresh(Contents)
           /\ pc[r] # "link" => Sound(Contents)
<1>1. NoCopying /\ (pc[r] # "link" => NoLinking)
    BY DEF SyncInv, OneRun, NoCopying, NoLinking
<1> QED
    BY <1>1 DEF SyncInv, Destination, Sound

LEMMA IdleIsSound ==
    ASSUME SyncInv, \A r \in Runs : pc[r] = "idle"
    PROVE  Sound(Contents)
BY DEF SyncInv, Destination, Sound, NoCopying, NoLinking

(* A run that leaves the disk alone and was doing nothing to it.           *)
LEMMA DiskStays ==
    ASSUME SyncInv, NEW r \in Runs, pc[r] \notin {"idle", "copy", "rollback", "link"},
           UNCHANGED <<published, disk>>, spent'["lose"] = spent["lose"], halfway \subseteq halfway'
    PROVE  Destination' /\ Eases
<1>1. Contents' = Contents /\ Linked' = Linked
    BY ContentsStay DEF disk
<1>2. Eases
    BY <1>1 DEF Eases, disk
<1>3. current # 0 => snaps'[current].there
    BY DEF SyncInv, Destination, disk
<1> QED
    BY <1>1, <1>2, <1>3, RestIsSound, DestinationStays DEF disk, Sound

LEMMA SpentIs ==
    ASSUME TypeOK, NEW e \in BoundedEvents, Spend(e)
    PROVE  /\ spent["lose"] \in Nat /\ spent' \in [BoundedEvents -> Nat]
           /\ spent'["lose"] = IF e = "lose" THEN spent["lose"] + 1 ELSE spent["lose"]
BY DEF TypeOK, Spend, BoundedEvents

(* A run goes on with its bundle.                                          *)
LEMMA BundleStays ==
    ASSUME SyncInv, NEW r \in Runs, Bundled(r),
           got'[r] = got[r], UNCHANGED <<published, etag>>, spent'["lose"] = spent["lose"]
    PROVE  HasBundle(r)' /\ got[r] # 0 /\ got[r] \in Nat /\ got[r] \in Version \ {0}
<1>1. published \in Nat /\ got[r] \in Version
    BY VersionAssumption DEF SyncInv, TypeOK, Version
<1>2. HasBundle(r)
    BY DEF SyncInv, RunState
<1> QED
    BY <1>1, <1>2 DEF HasBundle

----------------------------------------------------------------------------
(* Steps that change no output *)

LEMMA BeginKeeps ==
    ASSUME SyncInv, NEW r \in Runs, Begin(r)
    PROVE  SyncInv'
<1>1. /\ \A q \in Runs : pc[q] = "idle"
      /\ pc' = [pc EXCEPT ![r] = "request"]
      /\ sent' = [sent EXCEPT ![r] = IF \A o \in Outputs : Content(o) # 0 THEN etag ELSE 0]
      /\ UNCHANGED <<published, disk, done, halfway>>
    BY DEF Begin, Goto, ChooseValidator, progress
<1>2. pc'[r] = "request" /\ sent'[r] = (IF \A o \in Outputs : Content(o) # 0 THEN etag ELSE 0)
    BY <1>1 DEF SyncInv, TypeOK
<1>3. deployment'[r] \in {"atomic", "copy"} /\ spent'["lose"] = spent["lose"]
  <2>1. "fault" \in BoundedEvents /\ TypeOK
    BY DEF BoundedEvents, SyncInv
  <2>2. spent'["lose"] = spent["lose"]
    BY <2>1, SpentIs DEF Begin, Decide
  <2> QED
    BY <2>1, <2>2 DEF Begin, Decide, TypeOK
<1>4. Alone(r)
    BY <1>1 DEF Alone, SyncInv, TypeOK
<1>5. TypeOK'
    BY TypeBegin DEF SyncInv
<1>6. Contents' = Contents /\ Linked' = Linked /\ \A o \in Outputs : Content(o)' = Content(o)
    BY <1>1, ContentsStay DEF disk
<1>7. Destination'
  <2>1. Eases /\ (current # 0 => snaps'[current].there)
    BY <1>1, <1>3, <1>6 DEF Eases, disk, SyncInv, Destination
  <2> QED
    BY <1>1, <1>6, <2>1, IdleIsSound, DestinationStays DEF disk, Sound
<1>8. Asks(r)'
  <2>1. CASE \A o \in Outputs : Content(o) # 0
    BY <1>1, <1>2, <1>6, <2>1 DEF Asks, disk
  <2>2. CASE ~\A o \in Outputs : Content(o) # 0
    <3>1. ~(spent["lose"] = 0 /\ etag # 0)
      BY <2>2 DEF SyncInv, Destination, Kept, Contents
    <3>2. spent["lose"] \in Nat
      BY DEF SyncInv, TypeOK, BoundedEvents
    <3> QED
      BY <1>1, <1>2, <1>3, <2>2, <3>1, <3>2 DEF Asks, disk
  <2> QED
    BY <2>1, <2>2
<1>9. done'[r] = {}
    BY <1>1 DEF SyncInv, RunState, Progress, Deploying
<1>10. RunState(r)'
    BY <1>2, <1>3, <1>8, <1>9
       DEF RunState, HasBundle, Bundled, Progress, Decided, Snapshots, BackedUp, Deploying, Deployed
<1> QED
    BY <1>4, <1>5, <1>7, <1>10, RunMoves

LEMMA NotModifiedKeeps ==
    ASSUME SyncInv, NEW r \in Runs, NotModified(r)
    PROVE  SyncInv'
<1>1. pc[r] = "request" /\ pc' = [pc EXCEPT ![r] = "unmodified"]
      /\ UNCHANGED <<published, disk, deployment, done, halfway, spent>>
    BY DEF NotModified, Goto, locals, bundle, progress
<1>2. pc'[r] = "unmodified" /\ done'[r] = {} /\ deployment'[r] # "none"
    BY <1>1 DEF SyncInv, TypeOK, RunState, Progress, Decided, Deploying
<1>3. Alone(r)
    BY <1>1, HolderIsAlone
<1>4. TypeOK'
    BY TypeNotModified DEF SyncInv
<1>5. Destination'
    BY <1>1, DiskStays
<1>6. RunState(r)'
    BY <1>2 DEF RunState, Asks, HasBundle, Bundled, Progress, Decided, Snapshots, BackedUp, Deploying, Deployed
<1> QED
    BY <1>3, <1>4, <1>5, <1>6, RunMoves

LEMMA ReceiveKeeps ==
    ASSUME SyncInv, NEW r \in Runs, Receive(r)
    PROVE  SyncInv'
<1>1. /\ pc[r] = "request" /\ pc' = [pc EXCEPT ![r] = "unpack"] /\ sent[r] # published
      /\ got' = [got EXCEPT ![r] = published]
      /\ UNCHANGED <<published, disk, deployment, done, halfway, spent>>
    BY DEF Receive, Goto, progress
<1>2. pc'[r] = "unpack" /\ done'[r] = {} /\ got'[r] = published /\ deployment'[r] # "none"
    BY <1>1 DEF SyncInv, TypeOK, RunState, Progress, Decided, Deploying
<1>3. Alone(r)
    BY <1>1, HolderIsAlone
<1>4. TypeOK'
    BY TypeReceive DEF SyncInv
<1>5. Destination'
    BY <1>1, DiskStays
<1>6. HasBundle(r)'
  <2>1. published \in Nat \ {0} /\ etag \in Nat /\ etag <= published
    BY VersionAssumption DEF SyncInv, Destination, TypeOK, Version
  <2>2. spent["lose"] = 0 => etag # published
    <3>1. spent["lose"] \in Nat
      BY DEF SyncInv, TypeOK, BoundedEvents
    <3>2. spent["lose"] = 0 /\ etag # 0 => sent[r] = etag
      BY <1>1, <3>1 DEF SyncInv, RunState, Asks
    <3> QED
      BY <1>1, <2>1, <3>2
  <2> QED
    BY <1>1, <1>2, <2>1, <2>2 DEF HasBundle, disk
<1>7. RunState(r)'
    BY <1>2, <1>6 DEF RunState, Asks, Progress, Decided, Snapshots, BackedUp, Deploying, Deployed
<1> QED
    BY <1>3, <1>4, <1>5, <1>7, RunMoves

LEMMA UnpackKeeps ==
    ASSUME SyncInv, NEW r \in Runs, Unpack(r)
    PROVE  SyncInv'
<1>1. pc[r] = "unpack" /\ pc' = [pc EXCEPT ![r] = IF deployment[r] = "atomic" THEN "snapshot" ELSE "backup"]
      /\ UNCHANGED <<published, disk, deployment, got, done, halfway, spent>>
    BY DEF Unpack, Goto, locals, bundle, progress
<1>2. /\ pc'[r] = IF deployment[r] = "atomic" THEN "snapshot" ELSE "backup"
      /\ done'[r] = {} /\ deployment[r] \in {"atomic", "copy"}
    BY <1>1 DEF SyncInv, TypeOK, RunState, Progress, Decided, Deploying
<1>3. Alone(r)
    BY <1>1, HolderIsAlone
<1>4. TypeOK'
    BY TypeUnpack DEF SyncInv
<1>5. Destination'
    BY <1>1, DiskStays
<1>6. HasBundle(r)'
    BY <1>1, BundleStays DEF Bundled, disk
<1>7. RunState(r)'
    BY <1>1, <1>2, <1>6 DEF RunState, Asks, Progress, Decided, Snapshots, BackedUp, Deploying, Deployed
<1> QED
    BY <1>3, <1>4, <1>5, <1>7, RunMoves

LEMMA BackupKeeps ==
    ASSUME SyncInv, NEW r \in Runs, Backup(r)
    PROVE  SyncInv'
<1>1. /\ pc[r] = "backup" /\ pc' = [pc EXCEPT ![r] = "copy"]
      /\ backup' = [backup EXCEPT ![r] = Contents]
      /\ UNCHANGED <<published, disk, deployment, got, done, halfway, spent>>
    BY DEF Backup, Goto, Contents, bundle
<1>2. pc'[r] = "copy" /\ done'[r] = {} /\ deployment[r] = "copy" /\ backup'[r] = Contents
    BY <1>1 DEF SyncInv, TypeOK, RunState, Progress, Decided, Deploying
<1>3. Alone(r)
    BY <1>1, HolderIsAlone
<1>4. TypeOK'
    BY TypeBackup DEF SyncInv
<1>5. Destination' /\ Eases
    BY <1>1, DiskStays
<1>6. HasBundle(r)'
    BY <1>1, BundleStays DEF Bundled, disk
<1>7. Sound(backup[r])'
  <2>1. PICK content : content = Contents
    OBVIOUS
  <2>2. Sound(content)'
    BY <1>1, <1>5, <2>1, RestIsSound, SoundStays
  <2>3. backup'[r] = content
    BY <1>2, <2>1
  <2> QED
    BY <2>2, <2>3 DEF Sound, LinksAgree, Whole, Kept, Fresh
<1>8. RunState(r)'
    BY <1>1, <1>2, <1>6, <1>7 DEF RunState, Asks, Progress, Decided, Snapshots, BackedUp, Deploying, Deployed
<1> QED
    BY <1>3, <1>4, <1>5, <1>8, RunMoves

(* All outputs are of the version that was received.                       *)
LEMMA ReceivedIsSound ==
    ASSUME SyncInv, NEW r \in Runs, Bundled(r), \A o \in Outputs : Content(o)' = got[r],
           UNCHANGED published, etag' \in {etag, got[r]}
    PROVE  Sound(Contents)' /\ etag' <= published'
<1>1. got[r] \in Version \ {0} /\ (etag' = published => got[r] = published) /\ etag' <= published
  <2>1. got[r] \in 1..published /\ etag <= got[r] /\ published \in Nat /\ etag \in Nat /\ got[r] \in Version
    BY VersionAssumption DEF SyncInv, RunState, HasBundle, TypeOK, Version
  <2> QED
    BY <2>1
<1>2. \A o \in Outputs : Contents'[o] = got[r]
    BY DEF Contents
<1>3. Fresh(Contents)' /\ Kept(Contents)'
    BY <1>1, <1>2 DEF Fresh, Kept
<1>4. LinksAgree(Contents)' /\ Whole(Contents)'
    BY <1>1, <1>2 DEF LinksAgree, Whole, Linked
<1> QED
    BY <1>1, <1>3, <1>4 DEF Sound

LEMMA OutputsDoneKeeps ==
    ASSUME SyncInv, NEW r \in Runs, OutputsDone(r)
    PROVE  SyncInv'
<1>1. /\ pc[r] \in {"link", "copy"} /\ pc' = [pc EXCEPT ![r] = "reload"] /\ done[r] = Outputs
      /\ UNCHANGED <<published, disk, deployment, got, snapshot, backup, done, halfway, spent>>
    BY DEF OutputsDone, Goto, locals, bundle, progress
<1>2. pc'[r] = "reload" /\ Bundled(r) /\ deployment[r] # "none"
    BY <1>1 DEF SyncInv, TypeOK, Bundled, RunState, Decided
<1>3. \A o \in Outputs : Content(o) = got[r] /\ Content(o)' = got[r]
    BY <1>1, ContentsStay DEF SyncInv, RunState, Progress, Deploying, disk
<1>4. Alone(r)
    BY <1>1, HolderIsAlone
<1>5. TypeOK'
    BY TypeOutputsDone DEF SyncInv
<1>6. Eases /\ UNCHANGED <<current, Contents>>
    BY <1>1, ContentsStay DEF Eases, disk
<1>7. Destination'
  <2>1. Sound(Contents)' /\ etag' <= published'
    BY <1>1, <1>2, <1>3, ReceivedIsSound DEF disk
  <2> QED
    BY <1>1, <1>6, <2>1 DEF Destination, Sound, SyncInv, Eases, disk
<1>8. HasBundle(r)'
    BY <1>1, <1>2, BundleStays DEF disk
<1>9. BackedUp(r)'
  <2>1. deployment[r] = "copy" => pc[r] = "copy"
    BY <1>1 DEF SyncInv, RunState, Decided
  <2>2. deployment[r] = "copy" => Sound(backup[r])
    BY <2>1 DEF SyncInv, RunState, BackedUp
  <2> QED
    BY <1>1, <1>6, <2>2, BackupStays DEF BackedUp
<1>10. Snapshots(r)'
    BY <1>1, <1>2 DEF SyncInv, RunState, Snapshots, Deploying, disk
<1>11. RunState(r)'
    BY <1>1, <1>2, <1>3, <1>8, <1>9, <1>10 DEF RunState, Asks, Progress, Decided, Deploying, Deployed
<1> QED
    BY <1>4, <1>5, <1>7, <1>11, RunMoves

----------------------------------------------------------------------------
(* Atomic deployment *)

(* A snapshot moved into place is not shown yet.                           *)
LEMMA MoveSnapshotStays ==
    ASSUME SyncInv, NEW r \in Runs, MoveSnapshot(r)
    PROVE  /\ Contents' = Contents /\ Linked' = Linked
           /\ current # 0 => snaps'[current].there
           /\ Len(snaps') # 0 /\ snaps'[Len(snaps')].there
           /\ \A o \in Outputs : snaps'[Len(snaps')].files[o] = got[r]
<1>1. /\ snaps' = Append(snaps, [files |-> [o \in Outputs |-> got[r]], there |-> TRUE, succeeded |-> FALSE])
      /\ UNCHANGED <<out, current>>
    BY DEF MoveSnapshot
<1>2. PICK new : new = [files |-> [o \in Outputs |-> got[r]], there |-> TRUE, succeeded |-> FALSE]
    OBVIOUS
<1>3. new \in Snapshot /\ new.there /\ \A o \in Outputs : new.files[o] = got[r]
    BY <1>2 DEF SyncInv, TypeOK, Snapshot
<1>4. /\ Len(snaps') = Len(snaps) + 1 /\ Len(snaps) \in Nat
      /\ (\A s \in 1..Len(snaps) : snaps'[s] = snaps[s]) /\ snaps'[Len(snaps) + 1] = new
  <2>1. snaps \in Seq(Snapshot) /\ snaps' = Append(snaps, new)
    BY <1>1, <1>2, SnapsAreRows DEF SyncInv
  <2> QED
    BY <1>3, <2>1, AppendProperties
<1>5. current # 0 => snaps'[current] = snaps[current]
  <2>1. current \in 0..Len(snaps)
    BY DEF SyncInv, TypeOK
  <2> QED
    BY <1>4, <2>1
<1>6. Contents' = Contents /\ Linked' = Linked
    BY <1>1, <1>5 DEF Contents, Content, Linked
<1> QED
    BY <1>3, <1>4, <1>5, <1>6 DEF SyncInv, Destination

LEMMA MoveSnapshotKeeps ==
    ASSUME SyncInv, NEW r \in Runs, MoveSnapshot(r)
    PROVE  SyncInv'
<1>1. /\ pc[r] = "snapshot" /\ pc' = [pc EXCEPT ![r] = "switch"]
      /\ snapshot' = [snapshot EXCEPT ![r] = Len(snaps')]
      /\ UNCHANGED <<published, out, current, etag, deployment, got, done, halfway, spent>>
    BY DEF MoveSnapshot, Goto, bundle
<1>2. /\ pc'[r] = "switch" /\ done'[r] = {} /\ deployment[r] = "atomic"
      /\ snapshot'[r] = Len(snaps')
    BY <1>1 DEF SyncInv, TypeOK, RunState, Progress, Decided, Deploying
<1>3. Alone(r)
    BY <1>1, HolderIsAlone
<1>4. TypeOK'
    BY TypeMoveSnapshot DEF SyncInv
<1>5. Destination'
  <2>1. Contents' = Contents /\ Eases /\ (current # 0 => snaps'[current].there)
    BY <1>1, MoveSnapshotStays DEF Eases
  <2> QED
    BY <1>1, <2>1, RestIsSound, DestinationStays DEF Sound
<1>6. HasBundle(r)'
    BY <1>1, BundleStays DEF Bundled
<1>7. Snapshots(r)'
    BY <1>1, <1>2, MoveSnapshotStays DEF Snapshots, Deploying
<1>8. RunState(r)'
    BY <1>1, <1>2, <1>6, <1>7 DEF RunState, Asks, Progress, Decided, BackedUp, Deploying, Deployed
<1> QED
    BY <1>3, <1>4, <1>5, <1>8, RunMoves

(* Every output keeps its contents or gets the version received, and those *)
(* that are symlinks get it.                                               *)
Receives(r) == \A o \in Outputs : Content(o)' = got[r] \/ (o \notin Linked' /\ Content(o)' = Content(o))

LEMMA LinkingIsSound ==
    ASSUME SyncInv, NEW r \in Runs, Bundled(r), NoCopying, Receives(r),
           UNCHANGED <<published, etag, halfway, spent>>
    PROVE  Kept(Contents)' /\ Fresh(Contents)' /\ LinksAgree(Contents)'
<1>1. Kept(Contents) /\ Fresh(Contents)
    BY DEF SyncInv, Destination
<1>2. got[r] \in Version \ {0} /\ (etag = published => got[r] = published)
  <2>1. got[r] \in 1..published /\ etag <= got[r] /\ published \in Nat /\ etag \in Nat /\ got[r] \in Version
    BY VersionAssumption DEF SyncInv, RunState, HasBundle, TypeOK, Version
  <2> QED
    BY <2>1
<1>3. Kept(Contents)'
    BY <1>1, <1>2 DEF Kept, Contents, Receives
<1>4. Fresh(Contents)'
    BY <1>1, <1>2 DEF Fresh, Contents, Receives, DamagedInRepair
<1>5. LinksAgree(Contents)'
  <2>1. \A o \in Linked' : o \in Outputs /\ Content(o)' = got[r]
    BY DEF Receives, Linked
  <2> QED
    BY <1>2, <2>1 DEF LinksAgree, Contents
<1> QED
    BY <1>3, <1>4, <1>5

LEMMA SwitchReceives ==
    ASSUME SyncInv, NEW r \in Runs, Switch(r)
    PROVE  Receives(r) /\ current' # 0 /\ snaps'[current'].there
           /\ \A o \in Outputs : snaps'[current'].files[o] = got[r]
<1>1. pc[r] = "switch" /\ current' = snapshot[r] /\ UNCHANGED <<out, snaps>>
    BY DEF Switch, Goto
<1>2. current' # 0 /\ snaps'[current'].there /\ \A o \in Outputs : snaps'[current'].files[o] = got[r]
    BY <1>1 DEF SyncInv, RunState, Snapshots
<1>3. ASSUME NEW o \in Outputs PROVE Content(o)' = got[r] \/ (o \notin Linked' /\ Content(o)' = Content(o))
  <2>1. out[o].kind \in {"none", "file", "link"} /\ out'[o] = out[o]
    BY <1>1 DEF SyncInv, TypeOK
  <2> QED
    BY <1>2, <2>1 DEF Content, Linked
<1> QED
    BY <1>2, <1>3 DEF Receives

LEMMA SwitchKeeps ==
    ASSUME SyncInv, NEW r \in Runs, Switch(r)
    PROVE  SyncInv'
<1>1. /\ pc[r] = "switch" /\ pc' = [pc EXCEPT ![r] = "link"] /\ current' = snapshot[r]
      /\ UNCHANGED <<published, out, snaps, etag, deployment, got, snapshot, done, halfway, spent>>
    BY DEF Switch, Goto, locals, bundle, progress
<1>2. /\ pc'[r] = "link" /\ done'[r] = {} /\ deployment[r] = "atomic" /\ Bundled(r)
      /\ current' # 0 /\ snaps'[current'].there /\ \A o \in Outputs : snaps'[current'].files[o] = got[r]
    BY <1>1, SwitchReceives DEF SyncInv, TypeOK, RunState, Progress, Decided, Deploying, Bundled
<1>3. Alone(r)
    BY <1>1, HolderIsAlone
<1>4. TypeOK'
    BY TypeSwitch DEF SyncInv
<1>5. HasBundle(r)'
    BY <1>1, <1>2, BundleStays
<1>6. Receives(r)
    BY SwitchReceives
<1>7. Destination'
  <2>1. NoCopying /\ ~NoLinking'
    BY <1>1, <1>2 DEF NoCopying, NoLinking, SyncInv, OneRun
  <2>2. Kept(Contents)' /\ Fresh(Contents)' /\ LinksAgree(Contents)'
    BY <1>1, <1>2, <1>6, <2>1, LinkingIsSound
  <2> QED
    BY <1>1, <1>2, <2>1, <2>2 DEF SyncInv, Destination
<1>8. Snapshots(r)'
    BY <1>1, <1>2 DEF Snapshots
<1>9. RunState(r)'
    BY <1>1, <1>2, <1>5, <1>8 DEF RunState, Asks, Progress, Decided, BackedUp, Deploying, Deployed
<1> QED
    BY <1>3, <1>4, <1>7, <1>9, RunMoves

LEMMA LinkReceives ==
    ASSUME SyncInv, NEW r \in Runs, NEW o \in Outputs, LinkOutput(r, o)
    PROVE  Receives(r) /\ Content(o)' = got[r] /\ \A p \in Outputs : p # o => Content(p)' = Content(p)
<1>1. pc[r] = "link" /\ out' = [out EXCEPT ![o] = Link] /\ UNCHANGED <<snaps, current>>
    BY DEF LinkOutput
<1>2. current # 0 /\ snaps[current].there /\ \A p \in Outputs : snaps[current].files[p] = got[r]
    BY <1>1 DEF SyncInv, RunState, Decided, Snapshots, Deploying, Destination
<1>3. out'[o] = Link /\ \A p \in Outputs : p # o => out'[p] = out[p]
    BY <1>1 DEF SyncInv, TypeOK
<1>4. \A p \in Outputs : out'[p].kind = "link" => Content(p)' = got[r]
    BY <1>1, <1>2 DEF Content
<1>5. Content(o)' = got[r]
    BY <1>3, <1>4 DEF Link
<1>6. \A p \in Outputs : p # o => Content(p)' = Content(p)
    BY <1>1, <1>3, OutputStays
<1> QED
    BY <1>4, <1>5, <1>6 DEF Receives, Linked

LEMMA LinkOutputKeeps ==
    ASSUME SyncInv, NEW r \in Runs, NEW o \in Outputs, LinkOutput(r, o)
    PROVE  SyncInv'
<1>1. /\ pc[r] = "link" /\ out' = [out EXCEPT ![o] = Link] /\ done' = [done EXCEPT ![r] = @ \cup {o}]
      /\ UNCHANGED <<published, snaps, current, etag, pc, deployment, got, snapshot, halfway, spent>>
    BY DEF LinkOutput, bundle
<1>2. /\ pc'[r] = "link" /\ done'[r] = done[r] \cup {o} /\ deployment[r] = "atomic" /\ Bundled(r)
      /\ current # 0 /\ current = snapshot[r] /\ snaps[current].there
      /\ \A p \in Outputs : snaps[current].files[p] = got[r]
    BY <1>1 DEF SyncInv, TypeOK, RunState, Progress, Decided, Snapshots, Deploying, Destination, Bundled
<1>3. Alone(r)
  <2>1. pc' = [pc EXCEPT ![r] = "link"] /\ \A q \in Runs : q # r => done'[q] = done[q]
    BY <1>1 DEF SyncInv, TypeOK
  <2> QED
    BY <1>1, <2>1, HolderIsAlone
<1>4. TypeOK'
    BY TypeLinkOutput DEF SyncInv
<1>5. Receives(r) /\ Content(o)' = got[r] /\ \A p \in Outputs : p # o => Content(p)' = Content(p)
    BY LinkReceives
<1>6. Destination'
  <2>1. NoCopying /\ ~NoLinking'
    BY <1>1, <1>2 DEF NoCopying, NoLinking, SyncInv, OneRun
  <2>2. Kept(Contents)' /\ Fresh(Contents)' /\ LinksAgree(Contents)'
    BY <1>1, <1>2, <1>5, <2>1, LinkingIsSound
  <2> QED
    BY <1>1, <1>2, <2>1, <2>2 DEF SyncInv, Destination
<1>7. HasBundle(r)'
    BY <1>1, <1>2, BundleStays
<1>8. Progress(r)'
  <2>1. \A p \in done[r] : Content(p) = got[r] /\ p \in Outputs
    BY <1>1 DEF SyncInv, TypeOK, RunState, Progress, Deploying
  <2> QED
    BY <1>1, <1>2, <1>5, <2>1 DEF Progress, Deploying, Deployed
<1>9. RunState(r)'
    BY <1>1, <1>2, <1>7, <1>8 DEF RunState, Asks, Decided, Snapshots, BackedUp
<1> QED
    BY <1>3, <1>4, <1>6, <1>9, RunMoves

----------------------------------------------------------------------------
(* Copy deployment *)

(* One output is written and the others stay.                              *)
Writes(o) == \A p \in Outputs : p # o => Content(p)' = Content(p)

LEMMA WriteIsKept ==
    ASSUME SyncInv, NEW o \in Outputs, Writes(o), Content(o)' # 0,
           UNCHANGED etag, spent'["lose"] = spent["lose"]
    PROVE  Kept(Contents)'
BY DEF SyncInv, Destination, Kept, Contents, Writes

LEMMA CopyOutputKeeps ==
    ASSUME SyncInv, NEW r \in Runs, NEW o \in Outputs, CopyOutput(r, o)
    PROVE  SyncInv'
<1>1. /\ pc[r] = "copy" /\ Write(o, got[r]) /\ done' = [done EXCEPT ![r] = @ \cup {o}]
      /\ UNCHANGED <<published, current, etag, pc, deployment, got, snapshot, backup, halfway, spent>>
    BY DEF CopyOutput, bundle
<1>2. pc'[r] = "copy" /\ done'[r] = done[r] \cup {o} /\ deployment[r] = "copy" /\ Bundled(r)
    BY <1>1 DEF SyncInv, TypeOK, RunState, Progress, Decided, Bundled
<1>3. Alone(r)
  <2>1. pc' = [pc EXCEPT ![r] = "copy"] /\ \A q \in Runs : q # r => done'[q] = done[q]
    BY <1>1 DEF SyncInv, TypeOK
  <2> QED
    BY <1>1, <2>1, HolderIsAlone
<1>4. TypeOK'
    BY TypeCopyOutput DEF SyncInv
<1>5. HasBundle(r)' /\ got[r] # 0 /\ got[r] \in Version \ {0}
    BY <1>1, <1>2, BundleStays
<1>6. /\ Content(o)' = got[r] /\ Writes(o)
      /\ Linked' = Linked /\ (current # 0 => snaps'[current].there)
    BY <1>1, <1>5, WriteShows DEF SyncInv, Destination, Writes
<1>7. Destination'
  <2>1. Kept(Contents)' /\ ~NoCopying'
    BY <1>1, <1>2, <1>5, <1>6, WriteIsKept DEF NoCopying
  <2> QED
    BY <1>1, <1>6, <2>1 DEF SyncInv, Destination
<1>8. Progress(r)'
  <2>1. \A p \in done[r] : Content(p) = got[r] /\ p \in Outputs
    BY <1>1 DEF SyncInv, TypeOK, RunState, Progress, Deploying
  <2> QED
    BY <1>1, <1>2, <1>6, <2>1 DEF Progress, Deploying, Deployed, Writes
<1>9. BackedUp(r)'
  <2>1. Eases /\ Sound(backup[r])
    BY <1>1, <1>2, <1>6 DEF Eases, SyncInv, RunState, BackedUp
  <2> QED
    BY <1>1, <2>1, BackupStays DEF BackedUp
<1>10. RunState(r)'
    BY <1>1, <1>2, <1>5, <1>8, <1>9 DEF RunState, Asks, Decided, Snapshots, Deploying
<1> QED
    BY <1>3, <1>4, <1>7, <1>10, RunMoves

----------------------------------------------------------------------------
(* Reload, retention and validator *)

(* The outputs are deployed and the run goes on.                           *)
GoesOn(r, to) ==
    /\ pc[r] \in Deployed /\ to \in Deployed \ {"reload"}
    /\ to \in {"retain", "relink"} => deployment[r] = "atomic"
    /\ pc' = [pc EXCEPT ![r] = to]
    /\ UNCHANGED <<published, out, current, etag, deployment, got, done, snapshot, spent>>
    /\ current # 0 => snaps'[current].there /\ snaps'[current].files = snaps[current].files

LEMMA GoesOnShows ==
    ASSUME SyncInv, NEW r \in Runs, NEW to, GoesOn(r, to)
    PROVE  Shown(got[r]) /\ Shown(got[r])'
<1>1. \A o \in Outputs : Content(o) = got[r]
    BY DEF GoesOn, SyncInv, RunState, Progress, Deployed, Deploying
<1>2. ASSUME NEW o \in Outputs PROVE Content(o)' = Content(o)
  <2>1. current # 0 => snaps[current].there
    BY DEF SyncInv, Destination
  <2>2. out[o].kind \in {"none", "file", "link"}
    BY DEF SyncInv, TypeOK
  <2> QED
    BY <2>1, <2>2 DEF GoesOn, Content
<1> QED
    BY <1>1, <1>2 DEF Shown, GoesOn

LEMMA GoesOnKeeps ==
    ASSUME SyncInv, NEW r \in Runs, NEW to, GoesOn(r, to), TypeOK'
    PROVE  SyncInv'
<1>1. /\ pc[r] \in Deployed /\ to \in Deployed \ {"reload"}
      /\ to \in {"retain", "relink"} => deployment[r] = "atomic"
      /\ pc' = [pc EXCEPT ![r] = to]
      /\ UNCHANGED <<published, out, current, etag, deployment, got, done, snapshot, spent>>
      /\ current # 0 => snaps'[current].there /\ snaps'[current].files = snaps[current].files
    BY DEF GoesOn
<1>2. pc'[r] = to /\ done[r] = Outputs /\ pc[r] # "idle" /\ Bundled(r) /\ deployment[r] # "none"
    BY <1>1 DEF SyncInv, TypeOK, RunState, Progress, Decided, Deployed, Bundled
<1>3. Alone(r)
    BY <1>1, <1>2, HolderIsAlone
<1>4. \A o \in Outputs : Content(o)' = got[r]
    BY <1>1, GoesOnShows DEF Shown
<1>5. Destination'
  <2>1. Sound(Contents)' /\ etag' <= published' /\ Linked' = Linked
    BY <1>1, <1>2, <1>4, ReceivedIsSound DEF Linked
  <2> QED
    BY <1>1, <2>1 DEF SyncInv, Destination, Sound
<1>6. HasBundle(r)'
    BY <1>1, <1>2, BundleStays
<1>7. Progress(r)'
    BY <1>1, <1>2, <1>4 DEF Progress, Deploying, Deployed
<1>8. Snapshots(r)'
    BY <1>1, <1>2 DEF SyncInv, RunState, Snapshots, Deployed, Deploying
<1>9. RunState(r)'
    BY <1>1, <1>2, <1>6, <1>7, <1>8 DEF RunState, Asks, Decided, BackedUp, Deployed
<1> QED
    BY <1>3, <1>5, <1>9, RunMoves

LEMMA ReloadGoesOn ==
    ASSUME SyncInv, NEW r \in Runs, Reload(r)
    PROVE  \E to \in {"retain", "save"} : GoesOn(r, to)
<1>1. PICK to : to = IF deployment[r] = "atomic" /\ old_snapshot[r] # 0 THEN "retain" ELSE "save"
    OBVIOUS
<1>2. current # 0 => snaps'[current].there /\ snaps'[current].files = snaps[current].files
  <2>1. current # 0 => current \in DOMAIN snaps /\ snaps[current] \in Snapshot /\ snaps[current].there
    BY SnapsAreRows DEF SyncInv, Destination
  <2> QED
    BY <2>1 DEF Reload, Snapshot
<1> QED
    BY <1>1, <1>2 DEF Reload, Goto, GoesOn, Deployed, locals, bundle, progress

LEMMA RemoveOlderGoesOn ==
    ASSUME SyncInv, NEW r \in Runs, RemoveOlder(r)
    PROVE  GoesOn(r, "relink")
<1>1. deployment[r] = "atomic" /\ current = snapshot[r] /\ current # 0 /\ snaps[current].there
    BY DEF RemoveOlder, Goto, SyncInv, RunState, Decided, Snapshots, Deploying, Destination
<1>2. snaps'[current].there /\ snaps'[current].files = snaps[current].files
  <2>1. current \in DOMAIN snaps
    BY <1>1, SnapsAreRows DEF SyncInv
  <2> QED
    BY <1>1, <2>1 DEF RemoveOlder
<1> QED
    BY <1>1, <1>2 DEF RemoveOlder, Goto, GoesOn, Deployed, locals, bundle, progress

LEMMA RelinkPreviousGoesOn ==
    ASSUME SyncInv, NEW r \in Runs, RelinkPrevious(r)
    PROVE  GoesOn(r, "save")
BY DEF RelinkPrevious, Goto, GoesOn, Deployed, locals, bundle, progress, SyncInv, Destination

LEMMA ReloadingKeeps ==
    ASSUME SyncInv, NEW r \in Runs, Reload(r) \/ RemoveOlder(r) \/ RelinkPrevious(r)
    PROVE  SyncInv'
<1>1. TypeOK'
    BY TypeReload, TypeRemoveOlder, TypeRelinkPrevious DEF SyncInv
<1>2. \E to : GoesOn(r, to)
    BY ReloadGoesOn, RemoveOlderGoesOn, RelinkPreviousGoesOn
<1> QED
    BY <1>1, <1>2, GoesOnKeeps

(* A run ends.                                                             *)
LEMMA EndKeeps ==
    ASSUME SyncInv, NEW r \in Runs, pc[r] # "idle", End(r), TypeOK', Destination'
    PROVE  SyncInv'
<1>1. /\ pc' = [pc EXCEPT ![r] = "idle"] /\ pc'[r] = "idle" /\ done'[r] = {}
      /\ \A q \in Runs : q # r => done'[q] = done[q]
    BY DEF End, SyncInv, TypeOK
<1>2. Alone(r)
    BY <1>1, HolderIsAlone
<1>3. RunState(r)'
    BY <1>1
       DEF RunState, Asks, HasBundle, Bundled, Progress, Decided, Snapshots, BackedUp, Deploying, Deployed
<1> QED
    BY <1>2, <1>3, RunMoves

LEMMA LeaveKeeps ==
    ASSUME SyncInv, NEW r \in Runs, Leave(r)
    PROVE  SyncInv'
<1>1. pc[r] = "unmodified" /\ End(r) /\ UNCHANGED <<published, supports, disk, service, halfway, spent>>
    BY DEF Leave
<1>2. TypeOK'
    BY <1>1, EndTypes DEF SyncInv, TypeOK, disk, service, Row, Snapshot
<1>3. Destination'
    BY <1>1, DiskStays
<1> QED
    BY <1>1, <1>2, <1>3, EndKeeps

LEMMA SaveEtagKeeps ==
    ASSUME SyncInv, NEW r \in Runs, SaveEtag(r)
    PROVE  SyncInv'
<1>1. pc[r] = "save" /\ etag' = got[r] /\ End(r)
      /\ UNCHANGED <<published, supports, out, snaps, current, previous, service, halfway, spent>>
    BY DEF SaveEtag
<1>2. TypeOK'
    BY <1>1, EndTypes DEF SyncInv, TypeOK, service, Row, Snapshot
<1>3. \A o \in Outputs : Content(o)' = got[r]
    BY <1>1, ContentsStay DEF SyncInv, RunState, Progress, Deployed, Deploying
<1>4. Sound(Contents)' /\ etag' <= published' /\ Linked' = Linked
    BY <1>1, <1>3, ReceivedIsSound DEF Bundled, Linked
<1>5. Destination'
    BY <1>1, <1>4 DEF SyncInv, Destination, Sound
<1> QED
    BY <1>1, <1>2, <1>5, EndKeeps

----------------------------------------------------------------------------
(* Failures *)

LEMMA ReloadCutTypes ==
    ASSUME TypeOK, NEW r \in Runs, ReloadCut(r)
    PROVE  loaded' \in Version \cup {Torn} /\ inherited' \in BOOLEAN
BY ContentTypes, SyncAssumption DEF TypeOK, ReloadCut, service

(* A file that is torn is there.                                           *)
LEMMA TearShows ==
    ASSUME SyncInv, NEW r \in Runs, TearOutput(r), UNCHANGED <<current, etag>>, spent'["lose"] = spent["lose"]
    PROVE  /\ out' \in [Outputs -> Row] /\ snaps' \in Seq(Snapshot) /\ Len(snaps') = Len(snaps)
           /\ Kept(Contents)' /\ Linked' = Linked /\ (current # 0 => snaps'[current].there)
           /\ \A o \in Outputs : Content(o)' \in {Content(o), Torn}
           /\ pc[r] \notin {"copy", "rollback"} => UNCHANGED <<out, snaps>>
<1>1. CASE UNCHANGED <<out, snaps>>
  <2>1. Contents' = Contents /\ Linked' = Linked /\ \A o \in Outputs : Content(o)' = Content(o)
    BY <1>1, ContentsStay
  <2>2. Kept(Contents)'
    BY <2>1 DEF Kept, SyncInv, Destination
  <2>3. out \in [Outputs -> Row] /\ snaps \in Seq(Snapshot)
    BY SnapsAreRows DEF SyncInv, TypeOK, Row
  <2> QED
    BY <1>1, <2>1, <2>2, <2>3 DEF SyncInv, Destination
<1>2. ASSUME pc[r] \in {"copy", "rollback"}, NEW o \in Outputs, Write(o, Torn)
      PROVE  /\ out' \in [Outputs -> Row] /\ snaps' \in Seq(Snapshot) /\ Len(snaps') = Len(snaps)
             /\ Kept(Contents)' /\ Linked' = Linked /\ (current # 0 => snaps'[current].there)
             /\ \A p \in Outputs : Content(p)' \in {Content(p), Torn}
  <2>1. Torn # 0
    BY VersionAssumption DEF Torn
  <2>2. /\ out' \in [Outputs -> Row] /\ snaps' \in Seq(Snapshot) /\ Len(snaps') = Len(snaps)
        /\ Content(o)' = Torn /\ Writes(o)
        /\ Linked' = Linked /\ (current # 0 => snaps'[current].there)
    BY <1>2, WriteShows DEF SyncInv, Destination, Writes
  <2> QED
    BY <2>1, <2>2, WriteIsKept DEF Writes
<1> QED
    BY <1>1, <1>2 DEF TearOutput

(* A copy or a rollback that was cut short is on record.                   *)
LEMMA CutIsOnRecord ==
    ASSUME SyncInv, NEW r \in Runs, Bundled(r), "copying" \in halfway', UNCHANGED <<published, etag>>,
           spent'["lose"] = spent["lose"], Kept(Contents)'
    PROVE  Sound(Contents)'
<1>1. etag = published => spent["lose"] > 0
  <2>1. got[r] \in 1..published /\ published \in Nat /\ (spent["lose"] = 0 => etag < got[r])
        /\ etag \in Nat /\ spent["lose"] \in Nat
    BY VersionAssumption DEF SyncInv, RunState, HasBundle, TypeOK, Version, BoundedEvents
  <2> QED
    BY <2>1
<1>2. Fresh(Contents)'
    BY <1>1 DEF Fresh, DamagedInRepair
<1> QED
    BY <1>2 DEF Sound, LinksAgree, Whole

(* The script ends at once: a kill, or a failure outside the rollback.     *)
LEMMA CutKeeps ==
    ASSUME SyncInv, NEW r \in Runs, pc[r] # "idle", TearOutput(r), ReloadCut(r), End(r),
           NEW copying, pc[r] \in {"copy", "rollback"} => pc[r] \in copying,
           halfway' = halfway \cup Left(r, copying),
           spent' \in [BoundedEvents -> Nat], spent'["lose"] = spent["lose"],
           UNCHANGED <<published, supports, current, previous, etag>>
    PROVE  SyncInv'
<1>1. /\ out' \in [Outputs -> Row] /\ snaps' \in Seq(Snapshot) /\ Len(snaps') = Len(snaps)
      /\ Kept(Contents)' /\ Linked' = Linked /\ (current # 0 => snaps'[current].there)
      /\ pc[r] \notin {"copy", "rollback"} => UNCHANGED <<out, snaps>>
    BY TearShows
<1>2. halfway' \in SUBSET {"linking", "copying"}
    BY DEF SyncInv, TypeOK, Left
<1>3. TypeOK'
    BY <1>1, <1>2, EndTypes, ReloadCutTypes DEF SyncInv, TypeOK
<1>4. Sound(Contents)'
  <2>1. CASE pc[r] \in {"copy", "rollback"}
    <3>1. "copying" \in halfway' /\ Bundled(r)
      BY <2>1 DEF Left, Bundled
    <3> QED
      BY <1>1, <3>1, CutIsOnRecord
  <2>2. CASE pc[r] \notin {"copy", "rollback"}
    <3>1. UNCHANGED <<out, snaps, current>> /\ Contents' = Contents /\ \A o \in Outputs : Content(o)' = Content(o)
      BY <1>1, <2>2, ContentsStay
    <3>2. PICK content : content = Contents
      OBVIOUS
    <3>3. Eases
      BY <1>1 DEF Eases
    <3>4. LinksAgree(content)' /\ Kept(content)' /\ Fresh(content)' /\ (pc[r] # "link" => Whole(content)')
      BY <2>2, <3>2, <3>3, RestIsSound, ClaimsStay DEF Sound
    <3>5. Contents' = content
      BY <3>1, <3>2
    <3>6. LinksAgree(Contents)' /\ Kept(Contents)' /\ Fresh(Contents)' /\ (pc[r] # "link" => Whole(Contents)')
      BY <3>4, <3>5 DEF LinksAgree, Kept, Fresh, Whole
    <3>7. ASSUME pc[r] = "link", halfway' = {} PROVE Sound(Contents)'
      <4>1. \A o \in Outputs : out[o].kind = "link"
        BY <3>7 DEF Left
      <4>2. /\ Bundled(r) /\ current # 0 /\ snaps[current].there
            /\ \A o \in Outputs : snaps[current].files[o] = got[r]
        BY <3>7 DEF SyncInv, RunState, Snapshots, Decided, Destination, Deploying, Bundled
      <4>3. \A o \in Outputs : Content(o)' = got[r]
        BY <3>1, <4>1, <4>2 DEF Content
      <4> QED
        BY <4>2, <4>3, ReceivedIsSound
    <3> QED
      BY <3>6, <3>7 DEF Sound, Whole
  <2> QED
    BY <2>1, <2>2
<1>5. Destination'
    BY <1>1, <1>4 DEF SyncInv, Destination, Sound
<1> QED
    BY <1>3, <1>5, EndKeeps

(* A failure or a signal, with the rollback that may be armed.             *)
LEMMA AbortKeeps ==
    ASSUME SyncInv, NEW r \in Runs, pc[r] # "idle", Abort(r), Spend("fault") \/ Spend("term")
    PROVE  SyncInv'
<1>1. /\ TearOutput(r) /\ ReloadCut(r) /\ halfway' = halfway \cup Left(r, {"rollback"})
      /\ UNCHANGED <<published, supports, current, previous, etag>>
    BY DEF Abort
<1>2. spent' \in [BoundedEvents -> Nat] /\ spent'["lose"] = spent["lose"]
  <2>1. "fault" \in BoundedEvents /\ "term" \in BoundedEvents /\ TypeOK
    BY DEF BoundedEvents, SyncInv
  <2> QED
    BY <2>1, SpentIs
<1>3. CASE RollbackArmed(r)
  <2>1. /\ pc[r] \in {"copy", "reload"} /\ deployment[r] = "copy" /\ Bundled(r)
        /\ pc' = [pc EXCEPT ![r] = "rollback"] /\ done' = [done EXCEPT ![r] = {}]
        /\ UNCHANGED <<bundle, snapshot, old_snapshot, backup>>
    BY <1>3 DEF Abort, RollbackArmed, Bundled
  <2>2. pc'[r] = "rollback" /\ done'[r] = {}
    BY <2>1 DEF SyncInv, TypeOK
  <2>3. /\ out' \in [Outputs -> Row] /\ snaps' \in Seq(Snapshot) /\ Len(snaps') = Len(snaps)
        /\ Kept(Contents)' /\ Linked' = Linked /\ (current # 0 => snaps'[current].there)
    BY <1>1, <1>2, TearShows
  <2>4. Alone(r)
    <3>1. \A q \in Runs : q # r => done'[q] = done[q]
      BY <2>1 DEF SyncInv, TypeOK
    <3> QED
      BY <2>1, <3>1, HolderIsAlone
  <2>5. TypeOK'
    <3>1. halfway' \in SUBSET {"linking", "copying"}
      BY <1>1 DEF SyncInv, TypeOK, Left
    <3>2. pc' \in [Runs -> PCs] /\ done' \in [Runs -> SUBSET Outputs]
      BY <2>1 DEF SyncInv, TypeOK, PCs
    <3> QED
      BY <1>1, <1>2, <2>1, <2>3, <3>1, <3>2, ReloadCutTypes DEF SyncInv, TypeOK, bundle, Row, Snapshot
  <2>6. Destination'
    <3>1. ~NoCopying'
      BY <2>2 DEF NoCopying
    <3> QED
      BY <1>1, <2>3, <3>1 DEF SyncInv, Destination
  <2>7. BackedUp(r)'
    <3>1. Eases /\ Sound(backup[r])
      BY <1>1, <1>2, <2>1, <2>3 DEF Eases, SyncInv, RunState, BackedUp
    <3> QED
      BY <2>1, <3>1, BackupStays DEF BackedUp
  <2>8. HasBundle(r)'
    BY <1>1, <1>2, <2>1, BundleStays DEF bundle
  <2>9. RunState(r)'
    BY <2>1, <2>2, <2>7, <2>8 DEF RunState, Asks, Progress, Decided, Snapshots, Deploying, Deployed, bundle
  <2> QED
    BY <2>4, <2>5, <2>6, <2>9, RunMoves
<1>4. CASE ~RollbackArmed(r)
  <2>1. End(r)
    BY <1>4 DEF Abort
  <2>2. pc[r] # "copy"
    BY <1>4 DEF RollbackArmed, SyncInv, RunState, Decided
  <2>3. pc[r] \in {"copy", "rollback"} => pc[r] \in {"rollback"}
    BY <2>2
  <2> QED
    BY <1>1, <1>2, <2>1, <2>3, CutKeeps
<1> QED
    BY <1>3, <1>4

LEMMA KillKeeps ==
    ASSUME SyncInv, NEW r \in Runs, Kill(r)
    PROVE  SyncInv'
<1>1. "kill" \in BoundedEvents /\ TypeOK
    BY DEF BoundedEvents, SyncInv
<1>2. spent' \in [BoundedEvents -> Nat] /\ spent'["lose"] = spent["lose"]
    BY <1>1, SpentIs DEF Kill
<1> QED
    BY <1>2, CutKeeps DEF Kill

----------------------------------------------------------------------------
(* Rollback *)

(* The loop goes on: the output dealt with has its backup, or the failure  *)
(* is on record.                                                           *)
RollsOn(r, o) ==
    /\ pc[r] = "rollback" /\ done' = [done EXCEPT ![r] = @ \cup {o}]
    /\ Content(o)' = backup[r][o] \/ "copying" \in halfway'
    /\ Writes(o) /\ Linked' \subseteq Linked /\ (current # 0 => snaps'[current].there)
    /\ halfway \subseteq halfway' /\ spent'["lose"] = spent["lose"] /\ Kept(Contents)'
    /\ UNCHANGED <<published, current, etag, pc, bundle, snapshot, backup>>

LEMMA RollsOnKeeps ==
    ASSUME SyncInv, NEW r \in Runs, NEW o \in Outputs, RollsOn(r, o), TypeOK'
    PROVE  SyncInv'
<1>1. /\ pc[r] = "rollback" /\ done'[r] = done[r] \cup {o} /\ Bundled(r) /\ deployment[r] = "copy"
      /\ UNCHANGED <<published, current, etag, pc, deployment, got, snapshot, backup>>
      /\ \A q \in Runs : q # r => done'[q] = done[q]
    BY DEF RollsOn, SyncInv, TypeOK, Bundled, RunState, Decided, bundle
<1>2. Alone(r)
  <2>1. pc' = [pc EXCEPT ![r] = "rollback"]
    BY <1>1 DEF SyncInv, TypeOK
  <2> QED
    BY <1>1, <2>1, HolderIsAlone
<1>3. Eases
    BY <1>1 DEF RollsOn, Eases
<1>4. Destination'
  <2>1. ~NoCopying'
    BY <1>1 DEF NoCopying
  <2> QED
    BY <1>1, <2>1 DEF RollsOn, SyncInv, Destination
<1>5. HasBundle(r)'
    BY <1>1, <1>3, BundleStays DEF Eases
<1>6. Progress(r)'
  <2>1. "copying" \notin halfway' => \A p \in done[r] : Content(p) = backup[r][p] /\ p \in Outputs
    BY <1>1 DEF RollsOn, SyncInv, TypeOK, RunState, Progress
  <2>2. "copying" \notin halfway' => \A p \in done'[r] : Content(p)' = backup'[r][p]
    BY <1>1, <2>1 DEF RollsOn, Writes
  <2> QED
    BY <1>1, <2>2 DEF Progress, Deploying, Deployed
<1>7. BackedUp(r)'
  <2>1. Sound(backup[r])
    BY <1>1 DEF SyncInv, RunState, BackedUp
  <2> QED
    BY <1>1, <1>3, <2>1, BackupStays DEF BackedUp
<1>8. RunState(r)'
    BY <1>1, <1>5, <1>6, <1>7 DEF RunState, Asks, Decided, Snapshots, Deploying
<1> QED
    BY <1>2, <1>4, <1>8, RunMoves

LEMMA BackupTypes ==
    ASSUME TypeOK, NEW r \in Runs, NEW o \in Outputs
    PROVE  backup[r][o] \in Version \cup {Torn}
BY DEF TypeOK

(* The backup of a run that is rolled back has what a completed run left.  *)
LEMMA BackupIsKept ==
    ASSUME SyncInv, NEW r \in Runs, pc[r] = "rollback"
    PROVE  Kept(backup[r])
BY DEF SyncInv, RunState, Decided, BackedUp, Sound

(* A rollback writes the backup of an output, or removes the output.       *)
LEMMA RestoreShows ==
    ASSUME SyncInv, NEW r \in Runs, NEW o \in Outputs, Restore(r, o)
    PROVE  /\ out' \in [Outputs -> Row] /\ snaps' \in Seq(Snapshot) /\ Len(snaps') = Len(snaps)
           /\ Content(o)' = backup[r][o] /\ Writes(o) /\ Linked' \subseteq Linked
           /\ current # 0 => snaps'[current].there
<1>1. /\ IF backup[r][o] # 0 THEN Write(o, backup[r][o])
                             ELSE out' = [out EXCEPT ![o] = Absent] /\ UNCHANGED snaps
      /\ UNCHANGED current
    BY DEF Restore
<1>2. CASE backup[r][o] # 0
  <2>1. backup[r][o] \in (Version \ {0}) \cup {Torn}
    BY <1>2, BackupTypes DEF SyncInv
  <2> QED
    BY <1>1, <1>2, <2>1, WriteShows DEF SyncInv, Destination, Writes
<1>3. CASE backup[r][o] = 0
  <2>1. out' = [out EXCEPT ![o] = Absent] /\ UNCHANGED <<snaps, current>>
    BY <1>1, <1>3
  <2>2. out' \in [Outputs -> Row] /\ out'[o] = Absent /\ \A p \in Outputs : p # o => out'[p] = out[p]
    BY <2>1, VersionAssumption DEF SyncInv, TypeOK, Row, Absent, Version
  <2>3. Content(o)' = 0
    BY <2>2 DEF Content, Absent
  <2>4. \A p \in Outputs : p # o => Content(p)' = Content(p)
    BY <2>1, <2>2, OutputStays
  <2>5. Linked' \subseteq Linked
    BY <2>2 DEF Linked, Absent
  <2> QED
    BY <1>3, <2>1, <2>2, <2>3, <2>4, <2>5, SnapsAreRows DEF SyncInv, Destination, Writes
<1> QED
    BY <1>2, <1>3

LEMMA RestoreKeeps ==
    ASSUME SyncInv, NEW r \in Runs, NEW o \in Outputs, Restore(r, o)
    PROVE  SyncInv'
<1>1. /\ pc[r] = "rollback" /\ done' = [done EXCEPT ![r] = @ \cup {o}]
      /\ UNCHANGED <<published, supports, current, previous, etag, service, pc, bundle, snapshot, old_snapshot,
                     backup, halfway, spent>>
    BY DEF Restore
<1>2. /\ out' \in [Outputs -> Row] /\ snaps' \in Seq(Snapshot) /\ Len(snaps') = Len(snaps)
      /\ Content(o)' = backup[r][o] /\ Writes(o) /\ Linked' \subseteq Linked
      /\ current # 0 => snaps'[current].there
    BY RestoreShows
<1>3. TypeOK'
  <2>1. done' \in [Runs -> SUBSET Outputs]
    BY <1>1 DEF SyncInv, TypeOK
  <2> QED
    BY <1>1, <1>2, <2>1 DEF SyncInv, TypeOK, service, bundle, Row, Snapshot
<1>4. Kept(Contents)'
  <2>1. Kept(backup[r]) /\ Kept(Contents)
    BY <1>1, BackupIsKept DEF SyncInv, Destination
  <2> QED
    BY <1>1, <1>2, <2>1 DEF Kept, Contents, Writes
<1>5. RollsOn(r, o)
    BY <1>1, <1>2, <1>4 DEF RollsOn
<1> QED
    BY <1>3, <1>5, RollsOnKeeps

LEMMA RestoreFailsKeeps ==
    ASSUME SyncInv, NEW r \in Runs, NEW o \in Outputs, RestoreFails(r, o)
    PROVE  SyncInv'
<1>1. /\ Spend("fault") /\ pc[r] = "rollback" /\ o \notin done[r] /\ halfway' = halfway \cup {"copying"}
      /\ UNCHANGED <<published, supports, current, previous, etag, service>>
    BY DEF RestoreFails
<1>2. spent' \in [BoundedEvents -> Nat] /\ spent'["lose"] = spent["lose"]
  <2>1. "fault" \in BoundedEvents /\ TypeOK
    BY DEF BoundedEvents, SyncInv
  <2> QED
    BY <1>1, <2>1, SpentIs
<1>3. TearOutput(r)
    BY <1>1 DEF RestoreFails, TearOutput
<1>4. /\ out' \in [Outputs -> Row] /\ snaps' \in Seq(Snapshot) /\ Len(snaps') = Len(snaps)
      /\ Kept(Contents)' /\ Linked' = Linked /\ (current # 0 => snaps'[current].there)
    BY <1>1, <1>2, <1>3, TearShows
<1>5. halfway' \in SUBSET {"linking", "copying"}
    BY <1>1 DEF SyncInv, TypeOK
<1>6. CASE backup[r][o] # 0
  <2>1. /\ Write(o, Torn) \/ UNCHANGED <<out, snaps>>
        /\ done' = [done EXCEPT ![r] = @ \cup {o}] /\ UNCHANGED <<pc, bundle, snapshot, old_snapshot, backup>>
    BY <1>6 DEF RestoreFails
  <2>2. TypeOK'
    <3>1. done' \in [Runs -> SUBSET Outputs]
      BY <2>1 DEF SyncInv, TypeOK
    <3> QED
      BY <1>1, <1>2, <1>4, <1>5, <2>1, <3>1 DEF SyncInv, TypeOK, service, bundle, Row, Snapshot
  <2>3. Writes(o)
    <3>1. CASE Write(o, Torn)
      BY <1>1, <3>1, WriteShows DEF SyncInv, Destination, Writes
    <3>2. CASE UNCHANGED <<out, snaps>>
      BY <1>1, <3>2, ContentsStay DEF Writes
    <3> QED
      BY <2>1, <3>1, <3>2
  <2>4. RollsOn(r, o)
    BY <1>1, <1>2, <1>4, <2>1, <2>3 DEF RollsOn
  <2> QED
    BY <2>2, <2>4, RollsOnKeeps
<1>7. CASE backup[r][o] = 0
  <2>1. End(r)
    BY <1>7 DEF RestoreFails
  <2>2. TypeOK'
    BY <1>1, <1>2, <1>4, <1>5, <2>1, EndTypes DEF SyncInv, TypeOK, service
  <2>3. Sound(Contents)'
    BY <1>1, <1>2, <1>4, CutIsOnRecord DEF Bundled
  <2>4. Destination'
    BY <1>1, <1>4, <2>3 DEF SyncInv, Destination, Sound
  <2> QED
    BY <1>1, <2>1, <2>2, <2>4, EndKeeps
<1> QED
    BY <1>6, <1>7

LEMMA RestoredKeeps ==
    ASSUME SyncInv, NEW r \in Runs, Restored(r)
    PROVE  SyncInv'
<1>1. pc[r] = "rollback" /\ done[r] = Outputs /\ End(r)
      /\ UNCHANGED <<published, supports, disk, service, halfway, spent>>
    BY DEF Restored
<1>2. TypeOK'
    BY <1>1, EndTypes DEF SyncInv, TypeOK, disk, service, Row, Snapshot
<1>3. Contents' = Contents /\ Linked' = Linked /\ UNCHANGED <<out, snaps, current, etag>>
    BY <1>1, ContentsStay DEF disk
<1>4. Kept(Contents)'
    BY <1>1, <1>3 DEF SyncInv, Destination, Kept
<1>5. Sound(Contents)'
  <2>1. CASE "copying" \in halfway
    BY <1>1, <1>3, <1>4, <2>1, CutIsOnRecord DEF Bundled
  <2>2. CASE "copying" \notin halfway
    <3>1. PICK content : content = backup[r] /\ content = [o \in Outputs |-> content[o]]
      BY DEF SyncInv, TypeOK
    <3>2. \A o \in Outputs : Content(o) = content[o]
      BY <1>1, <2>2, <3>1 DEF SyncInv, RunState, Progress
    <3>3. Contents = content
      BY <3>1, <3>2 DEF Contents
    <3>4. Contents' = content
      BY <1>3, <3>3
    <3>5. Sound(content)
      BY <1>1, <3>1 DEF SyncInv, RunState, Decided, BackedUp
    <3>6. Eases
      BY <1>1, <1>3 DEF Eases
    <3>7. Sound(content)'
      BY <3>5, <3>6, SoundStays
    <3> QED
      BY <3>4, <3>7 DEF Sound, LinksAgree, Whole, Kept, Fresh
  <2> QED
    BY <2>1, <2>2
<1>6. Destination'
    BY <1>1, <1>3, <1>5 DEF SyncInv, Destination, Sound
<1> QED
    BY <1>1, <1>2, <1>6, EndKeeps

----------------------------------------------------------------------------
(* The environment *)

LEMMA PublishKeeps ==
    ASSUME SyncInv, Publish
    PROVE  SyncInv'
<1>1. published' = published + 1 /\ UNCHANGED <<disk, pc, locals, deployment, got, sent, snapshot, backup, done,
                                                halfway, spent>>
    BY DEF Publish, locals, bundle, progress
<1>2. published \in Nat /\ etag \in Nat /\ etag <= published
    BY VersionAssumption DEF SyncInv, Destination, TypeOK, Version
<1>3. etag' # published' /\ etag' <= published' /\ UNCHANGED <<out, snaps, current, etag>>
    BY <1>1, <1>2 DEF disk
<1>4. Contents' = Contents /\ Linked' = Linked /\ \A o \in Outputs : Content(o)' = Content(o)
    BY <1>3, ContentsStay
<1>5. Destination'
  <2>1. /\ LinksAgree(Contents) => LinksAgree(Contents)'
        /\ Whole(Contents) => Whole(Contents)'
        /\ Kept(Contents) => Kept(Contents)'
        /\ Fresh(Contents)'
    BY <1>1, <1>3, <1>4 DEF LinksAgree, Whole, Kept, Fresh
  <2> QED
    BY <1>1, <1>3, <1>4, <2>1 DEF SyncInv, Destination, NoCopying, NoLinking
<1>6. TypeOK'
    BY TypePublish DEF SyncInv
<1>7. ASSUME NEW r \in Runs PROVE RunState(r)'
  <2>1. RunState(r) /\ done[r] \subseteq Outputs
    BY DEF SyncInv, TypeOK
  <2>2. Asks(r)' /\ HasBundle(r)'
    BY <1>1, <1>2, <1>3, <1>4, <2>1 DEF RunState, Asks, HasBundle, Bundled
  <2>3. Progress(r)' /\ Decided(r)' /\ Snapshots(r)'
    BY <1>1, <1>3, <1>4, <2>1 DEF RunState, Progress, Decided, Snapshots
  <2>4. BackedUp(r)'
    <3>1. Sound(backup[r]) => Sound(backup[r])'
      BY <1>1, <1>3, <1>4 DEF Sound, LinksAgree, Whole, Kept, Fresh
    <3> QED
      BY <1>1, <2>1, <3>1 DEF RunState, BackedUp
  <2> QED
    BY <2>2, <2>3, <2>4 DEF RunState
<1>8. OneRun'
    BY <1>1 DEF SyncInv, OneRun
<1> QED
    BY <1>5, <1>6, <1>7, <1>8 DEF SyncInv

LEMMA LoseOutputShows ==
    ASSUME SyncInv, NEW o \in Outputs, LoseOutput(o)
    PROVE  /\ Content(o)' = 0 /\ Writes(o) /\ Linked' \subseteq Linked
           /\ spent["lose"] \in Nat /\ spent'["lose"] = spent["lose"] + 1
<1>1. Spend("lose") /\ out' = [out EXCEPT ![o] = Absent] /\ UNCHANGED <<snaps, current>>
    BY DEF LoseOutput
<1>2. spent["lose"] \in Nat /\ spent'["lose"] = spent["lose"] + 1
    BY <1>1, SpentIs DEF SyncInv, BoundedEvents
<1>3. out'[o] = Absent /\ \A p \in Outputs : p # o => out'[p] = out[p]
    BY <1>1 DEF SyncInv, TypeOK
<1>4. Content(o)' = 0
    BY <1>3 DEF Content, Absent
<1>5. \A p \in Outputs : p # o => Content(p)' = Content(p)
    BY <1>1, <1>3, OutputStays
<1>6. Linked' \subseteq Linked
    BY <1>3 DEF Linked, Absent
<1> QED
    BY <1>2, <1>4, <1>5, <1>6 DEF Writes

LEMMA LoseOutputKeeps ==
    ASSUME SyncInv, NEW o \in Outputs, LoseOutput(o)
    PROVE  SyncInv'
<1>1. /\ \A r \in Runs : pc[r] = "idle"
      /\ UNCHANGED <<published, snaps, current, etag, pc, done, halfway>>
    BY DEF LoseOutput, locals, progress
<1>2. /\ Content(o)' = 0 /\ Linked' \subseteq Linked /\ spent'["lose"] > 0
      /\ spent["lose"] \in Nat /\ spent'["lose"] = spent["lose"] + 1
      /\ \A p \in Outputs : p # o => Content(p)' = Content(p)
    BY LoseOutputShows DEF Writes
<1>3. Sound(Contents)
    BY <1>1, IdleIsSound
<1>4. LinksAgree(Contents)'
  <2>1. o \notin Linked'
    BY DEF LoseOutput, SyncInv, TypeOK, Absent, Linked
  <2>2. \A p \in Linked' : p \in Linked /\ Contents'[p] = Contents[p]
    BY <1>2, <2>1 DEF Contents, Linked
  <2> QED
    BY <1>1, <1>3, <2>2 DEF Sound, LinksAgree
<1>5. Fresh(Contents)'
  <2>1. DamagedInRepair => DamagedInRepair'
    BY <1>1, <1>2 DEF DamagedInRepair
  <2> QED
    BY <1>1, <1>2, <1>3, <2>1 DEF Sound, Fresh, Contents
<1>6. Whole(Contents)'
  <2> SUFFICES ASSUME halfway = {}
               PROVE  \E v \in Version : \A p \in Outputs : Content(p)' = v \/ Content(p)' = 0
    BY <1>1, <1>2 DEF Whole, Contents
  <2>1. PICK v \in Version : \A p \in Outputs : Content(p) = v \/ (spent["lose"] > 0 /\ Content(p) = 0)
    BY <1>3 DEF Sound, Whole, Contents
  <2> QED
    BY <1>2, <2>1
<1>7. Destination'
    BY <1>1, <1>2, <1>4, <1>5, <1>6 DEF SyncInv, Destination, Kept
<1>8. ASSUME NEW r \in Runs PROVE RunState(r)'
  <2>1. pc'[r] = "idle" /\ done'[r] = {}
    BY <1>1 DEF SyncInv, RunState, Progress, Deploying
  <2> QED
    BY <2>1
       DEF RunState, Asks, HasBundle, Bundled, Progress, Decided, Snapshots, BackedUp, Deploying, Deployed
<1>9. TypeOK' /\ OneRun'
    BY <1>1, TypeLoseOutput DEF SyncInv, OneRun
<1> QED
    BY <1>7, <1>8, <1>9 DEF SyncInv

(* A step that changes nothing that the invariant speaks of.               *)
LEMMA AsideKeeps ==
    ASSUME SyncInv, UNCHANGED <<published, disk, pc, locals, halfway, spent>>, TypeOK'
    PROVE  SyncInv'
<1>1. UNCHANGED <<published, out, snaps, current, etag, pc, deployment, got, sent, snapshot, backup, done,
                  halfway, spent>>
    BY DEF disk, locals, bundle, progress
<1>2. Contents' = Contents /\ Linked' = Linked /\ \A o \in Outputs : Content(o)' = Content(o)
    BY <1>1, ContentsStay
<1>3. Eases
    BY <1>1, <1>2 DEF Eases
<1>4. Destination'
  <2>1. /\ NoCopying' => LinksAgree(Contents) /\ Fresh(Contents)
        /\ NoCopying' /\ NoLinking' => Whole(Contents)
        /\ current # 0 => snaps'[current].there
    BY <1>1 DEF SyncInv, Destination, NoCopying, NoLinking
  <2> QED
    BY <1>1, <1>2, <1>3, <2>1, DestinationStays
<1>5. ASSUME NEW r \in Runs PROVE RunState(r)'
  <2>1. RunState(r) /\ done[r] \subseteq Outputs
    BY DEF SyncInv, TypeOK
  <2>2. Asks(r)' /\ HasBundle(r)' /\ Progress(r)' /\ Decided(r)' /\ Snapshots(r)'
    BY <1>1, <1>2, <2>1 DEF RunState, Asks, HasBundle, Bundled, Progress, Decided, Snapshots
  <2>3. BackedUp(r)'
    <3>1. Sound(backup[r]) => Sound(backup[r])'
      BY <1>1, <1>3, BackupStays
    <3> QED
      BY <1>1, <2>1, <3>1 DEF RunState, BackedUp
  <2> QED
    BY <2>2, <2>3 DEF RunState
<1>6. OneRun'
    BY <1>1 DEF SyncInv, OneRun
<1> QED
    BY <1>4, <1>5, <1>6 DEF SyncInv

----------------------------------------------------------------------------
(* Every step *)

LEMMA InitSync == Init => SyncInv
<1> SUFFICES ASSUME Init PROVE SyncInv
    OBVIOUS
<1>1. TypeOK
  <2>1. 0 \in Version /\ 1 \in Version \ {0}
    BY VersionAssumption DEF Version
  <2>2. out \in [Outputs -> Row]
    BY <2>1 DEF Init, Absent, Row
  <2>3. snaps \in Seq(Snapshot) /\ Len(snaps) = 0
    BY DEF Init
  <2>4. backup \in [Runs -> [Outputs -> Version \cup {Torn}]]
    BY <2>1 DEF Init
  <2>5. pc \in [Runs -> PCs] /\ deployment \in [Runs -> {"none", "atomic", "copy"}]
    BY DEF Init, PCs
  <2>6. supports \in {"atomic", "copy"} /\ spent \in [BoundedEvents -> Nat]
    BY DeploymentAssumption DEF Init
  <2>7. current \in 0..Len(snaps) /\ previous \in 0..Len(snaps)
        /\ snapshot \in [Runs -> 0..Len(snaps)] /\ old_snapshot \in [Runs -> 0..Len(snaps)]
    BY <2>3 DEF Init
  <2>8. sent \in [Runs -> Version] /\ got \in [Runs -> Version] /\ done \in [Runs -> SUBSET Outputs]
    BY <2>1 DEF Init
  <2> QED
    BY <2>1, <2>2, <2>3, <2>4, <2>5, <2>6, <2>7, <2>8 DEF Init, TypeOK, Row, Snapshot
<1>2. \A o \in Outputs : Content(o) = 0 /\ out[o].kind = "none"
    BY DEF Init, Absent, Content
<1>3. Linked = {} /\ \A o \in Outputs : Contents[o] = 0
    BY <1>2 DEF Linked, Contents
<1>4. 0 \in Version /\ 1 \in Version \ {0}
    BY VersionAssumption DEF Version
<1>5. Kept(Contents) /\ Fresh(Contents)
    BY <1>3 DEF Init, Kept, Fresh
<1>6. LinksAgree(Contents) /\ Whole(Contents)
    BY <1>3, <1>4 DEF LinksAgree, Whole
<1>7. Destination
    BY <1>3, <1>5, <1>6 DEF Init, Destination
<1>8. ASSUME NEW r \in Runs PROVE RunState(r)
    BY DEF Init, RunState, Asks, HasBundle, Bundled, Progress, Decided, Snapshots, BackedUp, Deploying, Deployed
<1>9. OneRun
    BY DEF Init, OneRun
<1> QED
    BY <1>1, <1>7, <1>8, <1>9 DEF SyncInv

LEMMA NextSync == SyncInv /\ [Next]_vars => SyncInv'
<1> SUFFICES ASSUME SyncInv, [Next]_vars PROVE SyncInv'
    OBVIOUS
<1>1. CASE Publish
    BY <1>1, PublishKeeps
<1>2. CASE DaemonEnds
    BY <1>2, TypeDaemonEnds, AsideKeeps DEF DaemonEnds, SyncInv
<1>3. ASSUME NEW o \in Outputs, LoseOutput(o) PROVE SyncInv'
    BY <1>3, LoseOutputKeeps
<1>4. ASSUME NEW r \in Runs, Begin(r) PROVE SyncInv'
    BY <1>4, BeginKeeps
<1>5. ASSUME NEW r \in Runs, Proceed(r) PROVE SyncInv'
  <2>1. CASE NotModified(r) \/ Leave(r) \/ Receive(r) \/ Unpack(r)
    BY <2>1, NotModifiedKeeps, LeaveKeeps, ReceiveKeeps, UnpackKeeps
  <2>2. CASE MoveSnapshot(r) \/ Switch(r) \/ Backup(r)
    BY <2>2, MoveSnapshotKeeps, SwitchKeeps, BackupKeeps
  <2>3. ASSUME NEW o \in Outputs, LinkOutput(r, o) \/ CopyOutput(r, o) \/ Restore(r, o) PROVE SyncInv'
    BY <2>3, LinkOutputKeeps, CopyOutputKeeps, RestoreKeeps
  <2>4. CASE OutputsDone(r) \/ Restored(r)
    BY <2>4, OutputsDoneKeeps, RestoredKeeps
  <2>5. CASE RemoveOlder(r) \/ RelinkPrevious(r) \/ SaveEtag(r)
    BY <2>5, ReloadingKeeps, SaveEtagKeeps
  <2> QED
    BY <1>5, <2>1, <2>2, <2>3, <2>4, <2>5 DEF Proceed
<1>6. ASSUME NEW r \in Runs, Reload(r) PROVE SyncInv'
    BY <1>6, ReloadingKeeps
<1>7. ASSUME NEW r \in Runs, Interrupt(r) PROVE SyncInv'
  <2>1. CASE Fails(r) \/ Terminate(r)
    BY <2>1, AbortKeeps DEF Fails, Terminate
  <2>2. CASE Kill(r)
    BY <2>2, KillKeeps
  <2>3. ASSUME NEW o \in Outputs, RestoreFails(r, o) PROVE SyncInv'
    BY <2>3, RestoreFailsKeeps
  <2> QED
    BY <1>7, <2>1, <2>2, <2>3 DEF Interrupt
<1>8. CASE UNCHANGED vars
  <2>1. UNCHANGED <<published, disk, pc, locals, halfway, spent>>
    BY <1>8 DEF vars
  <2>2. TypeOK'
    BY <1>8 DEF vars, disk, service, locals, bundle, progress, SyncInv, TypeOK
  <2> QED
    BY <2>1, <2>2, AsideKeeps
<1> QED
    BY <1>1, <1>2, <1>3, <1>4, <1>5, <1>6, <1>7, <1>8 DEF Next

LEMMA SyncInvariant == Spec => []SyncInv
BY InitSync, NextSync, PTL DEF Spec

(* sync.sh with its lock, its EXIT trap and its order of file operations:  *)
(* whichever deployment each run decides on, symlinked outputs show one    *)
(* complete version unless a run is writing through them or was cut short  *)
(* while it did, and between runs the outputs are one set unless a run     *)
(* ended between two of them, whatever else failed or was signalled.       *)
THEOREM ReadersFindWholeSets == Spec => []DeployedSetIsWhole
<1>1. SyncInv => DeployedSetIsWhole
  <2> SUFFICES ASSUME SyncInv PROVE TypeOK /\ LinkedSetIsWhole /\ SetIsWhole
    BY DEF DeployedSetIsWhole
  <2>1. TypeOK
    BY DEF SyncInv
  <2>2. LinkedSetIsWhole
    <3> SUFFICES ASSUME \A o \in Outputs : out[o].kind = "link", "copying" \notin halfway,
                        \A r \in Runs : pc[r] \notin {"copy", "rollback"}
                 PROVE  \E v \in Version \ {0} : Shown(v)
      BY DEF LinkedSetIsWhole
    <3>1. LinksAgree(Contents) /\ Linked = Outputs
      BY DEF SyncInv, Destination, NoCopying, Linked
    <3> QED
      BY <3>1 DEF LinksAgree, Shown, Contents
  <2>3. SetIsWhole
    <3> SUFFICES ASSUME halfway = {}, \A r \in Runs : pc[r] = "idle"
                 PROVE  \E v \in Version : \A o \in Outputs :
                            Content(o) = v \/ (spent["lose"] > 0 /\ Content(o) = 0)
      BY DEF SetIsWhole
    <3> QED
      BY IdleIsSound DEF Sound, Whole, Contents
  <2> QED
    BY <2>1, <2>2, <2>3
<1> QED
    BY <1>1, SyncInvariant, PTL

LEMMA NotModifiedStep ==
    SyncInv /\ [Next]_vars =>
        [\A r \in Runs : pc[r] = "request" /\ pc'[r] = "unmodified" => Shown(published) \/ DamagedInRepair]_vars
<1> SUFFICES ASSUME SyncInv, Next, NEW r \in Runs, pc[r] = "request", pc'[r] = "unmodified"
             PROVE  Shown(published) \/ DamagedInRepair
    BY DEF vars
<1>1. pc \in [Runs -> PCs]
    BY DEF SyncInv, TypeOK
<1>2. NotModified(r)
  <2>1. ASSUME NEW q \in Runs, q # r PROVE pc[q] = "idle"
    BY <2>1 DEF SyncInv, OneRun
  <2>2. ~Publish /\ ~DaemonEnds /\ \A o \in Outputs : ~LoseOutput(o)
    BY DEF Publish, DaemonEnds, LoseOutput
  <2>3. \A q \in Runs : ~Begin(q)
    BY DEF Begin
  <2>4. \A q \in Runs : ~Interrupt(q)
    BY <1>1, <2>1 DEF Interrupt, Fails, Terminate, Kill, RestoreFails, Abort, End
  <2>5. PICK q \in Runs : Proceed(q) \/ Reload(q)
    BY <2>2, <2>3, <2>4 DEF Next
  <2>6. pc[q] # "idle"
    BY <2>5 DEF Proceed, NotModified, Leave, Receive, Unpack, MoveSnapshot, Switch, Backup, LinkOutput, CopyOutput,
                OutputsDone, Restore, Restored, Reload, RemoveOlder, RelinkPrevious, SaveEtag, Goto
  <2>7. q = r
    BY <2>1, <2>6
  <2> QED
    BY <1>1, <2>5, <2>7
       DEF Proceed, NotModified, Leave, Receive, Unpack, MoveSnapshot, Switch, Backup, LinkOutput, CopyOutput,
           OutputsDone, Restore, Restored, Reload, RemoveOlder, RelinkPrevious, SaveEtag, Goto, End
<1>3. published # 0 /\ sent[r] = published
    BY <1>2 DEF NotModified, SyncInv, TypeOK
<1>4. etag = published /\ \A o \in Outputs : Content(o) # 0
    BY <1>3 DEF SyncInv, RunState, Asks
<1>5. Fresh(Contents)
    BY RestIsSound
<1> QED
    BY <1>4, <1>5 DEF Fresh, Contents, Shown

(* The ETag is saved last, and sent only when every output exists: a 304   *)
(* from downloadBundle finds every output at the server's version, with    *)
(* the one exception of DamagedInRepair.                                   *)
THEOREM NotModifiedIsTruthful == Spec => NotModifiedIsTrue
<1>1. SyncInv /\ [Next]_vars =>
          [\A r \in Runs : pc[r] = "request" /\ pc'[r] = "unmodified" => Shown(published) \/ DamagedInRepair]_vars
    BY NotModifiedStep
<1> QED
    BY <1>1, SyncInvariant, PTL DEF Spec, NotModifiedIsTrue

----------------------------------------------------------------------------
(* Nothing goes back *)

AtMost(content, v) == \A o \in Outputs : content[o] <= v \/ content[o] = Torn

(* A run that may still put its backup back.                               *)
Backing(r) == pc[r] \in {"copy", "reload", "rollback"} /\ deployment[r] = "copy"

(* What is loaded and shown is no newer than the server's version, and not *)
(* newer than a bundle that may replace it; nor is a backup.               *)
ForwardInv ==
    /\ loaded \in 0..published /\ AtMost(Contents, published)
    /\ \A r \in Runs : Bundled(r) => loaded <= got[r] /\ AtMost(Contents, got[r])
    /\ \A r \in Runs : Backing(r) => AtMost(backup[r], got[r])

(* What one step may do: to an output, ...                                 *)
ShowsForward(o) ==
    \/ Content(o)' \in {Content(o), Torn}
    \/ Content(o)' = 0 /\ spent'["lose"] # spent["lose"]
    \/ \E r \in Runs : Bundled(r) /\ Content(o)' = got[r]
    \/ \E r \in Runs : pc[r] = "rollback" /\ Content(o)' = backup[r][o]

(* ... to the service, ...                                                 *)
LoadsForward == loaded' # loaded => \E r \in Runs : Bundled(r) /\ loaded' = got[r] /\ Shown(got[r])

(* ... and to what the runs hold.                                          *)
KeepsBundles == \A q \in Runs : Bundled(q)' => (Bundled(q) /\ got'[q] = got[q]) \/ got'[q] = published'
KeepsBackups ==
    \A q \in Runs : Backing(q)' =>
        \/ Backing(q) /\ backup'[q] = backup[q] /\ got'[q] = got[q]
        \/ Bundled(q) /\ backup'[q] = Contents /\ got'[q] = got[q]

ForwardMove ==
    /\ published' \in {published, published + 1}
    /\ LoadsForward /\ KeepsBundles /\ KeepsBackups
    /\ \A o \in Outputs : ShowsForward(o)

(* When the service is reloaded, every output is of the bundle.            *)
LEMMA ReloadReads ==
    ASSUME SyncInv, NEW r \in Runs, pc[r] = "reload"
    PROVE  Bundled(r) /\ Shown(got[r]) /\ Content(CHOOSE o \in Outputs : TRUE) = got[r]
<1>1. \A o \in Outputs : Content(o) = got[r]
    BY DEF SyncInv, RunState, Progress, Deploying, Deployed
<1> QED
    BY <1>1, SyncAssumption DEF Bundled, Shown

(* A run that is cut has loaded its bundle or not.                         *)
LEMMA CutLoadsForward ==
    ASSUME SyncInv, NEW r \in Runs, ReloadCut(r)
    PROVE  LoadsForward
BY ReloadReads DEF ReloadCut, LoadsForward, service

(* The run that ends is the only one.                                      *)
LEMMA EndKeepsNothing ==
    ASSUME SyncInv, NEW r \in Runs, pc[r] # "idle", End(r)
    PROVE  KeepsBundles /\ KeepsBackups
<1>1. \A q \in Runs : pc'[q] = "idle"
    BY DEF SyncInv, OneRun, TypeOK, End
<1> QED
    BY <1>1 DEF KeepsBundles, KeepsBackups, Bundled, Backing

(* The other runs wait for the lock, and this one keeps what it has.       *)
LEMMA RunKeeps ==
    ASSUME SyncInv, NEW r \in Runs, Bundled(r), NEW to, pc' = [pc EXCEPT ![r] = to],
           UNCHANGED <<got, deployment, backup>>, Backing(r)' => Backing(r)
    PROVE  KeepsBundles /\ KeepsBackups
<1>1. \A q \in Runs : q # r => pc'[q] = "idle"
    BY DEF SyncInv, OneRun, TypeOK, Bundled
<1>2. \A q \in Runs : Bundled(q)' \/ Backing(q)' => q = r
    BY <1>1 DEF Bundled, Backing
<1> QED
    BY <1>2 DEF KeepsBundles, KeepsBackups

(* A step that only changes where the runs are.                            *)
LEMMA QuietIsForward ==
    ASSUME SyncInv, UNCHANGED <<out, snaps, current, loaded>>, published' \in {published, published + 1},
           KeepsBundles, KeepsBackups
    PROVE  ForwardMove
BY ContentsStay DEF ForwardMove, ShowsForward, LoadsForward

LEMMA EnvironmentIsForward ==
    ASSUME SyncInv, Publish \/ DaemonEnds \/ (\E o \in Outputs : LoseOutput(o)) \/ UNCHANGED vars
    PROVE  ForwardMove
<1>1. UNCHANGED <<loaded, snaps, current, got, backup, pc, deployment>>
      /\ published' \in {published, published + 1}
    BY DEF Publish, DaemonEnds, LoseOutput, vars, disk, service, locals, bundle, progress
<1>2. KeepsBundles /\ KeepsBackups
    BY <1>1 DEF KeepsBundles, KeepsBackups, Bundled, Backing
<1>3. CASE Publish \/ DaemonEnds \/ UNCHANGED vars
  <2>1. UNCHANGED out
    BY <1>3 DEF Publish, DaemonEnds, vars, disk
  <2> QED
    BY <1>1, <1>2, <2>1, QuietIsForward
<1>4. ASSUME NEW o \in Outputs, LoseOutput(o) PROVE ForwardMove
  <2>1. Content(o)' = 0 /\ Writes(o) /\ spent'["lose"] # spent["lose"]
    BY <1>4, LoseOutputShows
  <2>2. \A p \in Outputs : ShowsForward(p)
    BY <2>1 DEF Writes, ShowsForward
  <2> QED
    BY <1>1, <1>2, <2>2 DEF ForwardMove, LoadsForward
<1> QED
    BY <1>3, <1>4

(* Before a run has its bundle.                                            *)
LEMMA AskingIsForward ==
    ASSUME SyncInv, NEW r \in Runs, Begin(r) \/ NotModified(r) \/ Leave(r) \/ Receive(r)
    PROVE  ForwardMove
<1>1. UNCHANGED <<out, snaps, current, loaded>> /\ published' = published /\ published \in Nat
    BY VersionAssumption
       DEF Begin, NotModified, Leave, Receive, disk, service, SyncInv, TypeOK, Version
<1>2. KeepsBundles /\ KeepsBackups
  <2>1. CASE Begin(r) \/ NotModified(r)
    <3>1. \A q \in Runs : (Bundled(q)' => Bundled(q) /\ q # r) /\ (Backing(q)' => Backing(q) /\ q # r)
      <4>1. PICK to \in {"request", "unmodified"} : pc' = [pc EXCEPT ![r] = to]
        BY <2>1 DEF Begin, NotModified, Goto
      <4>2. \A q \in Runs : q # r => deployment'[q] = deployment[q]
        BY <2>1 DEF Begin, Decide, NotModified, locals, bundle, SyncInv, TypeOK
      <4> QED
        BY <4>1, <4>2 DEF Bundled, Backing, SyncInv, TypeOK
    <3>2. UNCHANGED <<got, backup>>
      BY <2>1 DEF Begin, NotModified, locals, bundle, progress
    <3> QED
      BY <3>1, <3>2 DEF KeepsBundles, KeepsBackups
  <2>2. CASE Leave(r)
    BY <2>2, EndKeepsNothing DEF Leave
  <2>3. CASE Receive(r)
    <3>1. /\ pc[r] # "idle" /\ pc' = [pc EXCEPT ![r] = "unpack"] /\ got' = [got EXCEPT ![r] = published]
      BY <2>3 DEF Receive, Goto
    <3>2. pc'[r] = "unpack" /\ got'[r] = published /\ \A q \in Runs : q # r => pc'[q] = "idle"
      BY <3>1 DEF SyncInv, OneRun, TypeOK
    <3>3. \A q \in Runs : (Bundled(q)' => q = r) /\ ~Backing(q)'
      BY <3>2 DEF Bundled, Backing
    <3> QED
      BY <1>1, <3>2, <3>3 DEF KeepsBundles, KeepsBackups
  <2> QED
    BY <2>1, <2>2, <2>3
<1> QED
    BY <1>1, <1>2, QuietIsForward

(* A run goes on and no output changes but to its bundle.                  *)
LEMMA DeployingIsForward ==
    ASSUME SyncInv, NEW r \in Runs, NEW o \in Outputs,
           Unpack(r) \/ MoveSnapshot(r) \/ Switch(r) \/ LinkOutput(r, o) \/ Backup(r) \/ CopyOutput(r, o)
           \/ OutputsDone(r)
    PROVE  ForwardMove
<1>1. /\ Bundled(r) /\ UNCHANGED <<published, loaded, got, deployment>> /\ published \in Nat
      /\ \E to : pc' = [pc EXCEPT ![r] = to]
  <2>1. pc = [pc EXCEPT ![r] = pc[r]]
    BY DEF SyncInv, TypeOK
  <2> QED
    BY <2>1, VersionAssumption
       DEF Unpack, MoveSnapshot, Switch, LinkOutput, Backup, CopyOutput, OutputsDone, Goto, Bundled,
           service, locals, bundle, SyncInv, TypeOK, Version
<1>2. KeepsBundles /\ KeepsBackups
  <2>1. CASE Backup(r)
    <3>1. /\ pc[r] = "backup" /\ pc' = [pc EXCEPT ![r] = "copy"]
          /\ backup' = [backup EXCEPT ![r] = Contents]
      BY <2>1 DEF Backup, Goto, Contents
    <3>2. backup'[r] = Contents /\ \A q \in Runs : q # r => pc'[q] = "idle"
      BY <3>1 DEF SyncInv, OneRun, TypeOK
    <3>3. \A q \in Runs : Bundled(q)' \/ Backing(q)' => q = r
      BY <3>2 DEF Bundled, Backing
    <3> QED
      BY <1>1, <3>2, <3>3 DEF KeepsBundles, KeepsBackups
  <2>2. CASE ~Backup(r)
    <3>1. UNCHANGED backup
      BY <2>2 DEF Unpack, MoveSnapshot, Switch, LinkOutput, CopyOutput, OutputsDone, locals, progress
    <3>2. Backing(r)' => Backing(r)
      BY <2>2 DEF Unpack, MoveSnapshot, Switch, LinkOutput, CopyOutput, OutputsDone, Goto, Backing, bundle, locals,
                  SyncInv, TypeOK, RunState, Decided
    <3> QED
      BY <1>1, <3>1, <3>2, RunKeeps
  <2> QED
    BY <2>1, <2>2
<1>3. ASSUME NEW p \in Outputs PROVE ShowsForward(p)
  <2>1. CASE Unpack(r) \/ Backup(r) \/ OutputsDone(r)
    <3>1. UNCHANGED <<out, snaps, current>>
      BY <2>1 DEF Unpack, Backup, OutputsDone, disk
    <3> QED
      BY <3>1, ContentsStay DEF ShowsForward
  <2>2. CASE MoveSnapshot(r)
    BY <2>2, MoveSnapshotStays DEF Contents, ShowsForward
  <2>3. CASE Switch(r) \/ LinkOutput(r, o)
    BY <1>1, <2>3, SwitchReceives, LinkReceives DEF Receives, ShowsForward
  <2>4. CASE CopyOutput(r, o)
    <3>1. got[r] \in Version \ {0}
      BY <1>1, <2>4, BundleStays DEF CopyOutput
    <3>2. Content(o)' = got[r] /\ Writes(o)
      BY <2>4, <3>1, WriteShows DEF CopyOutput, SyncInv, Destination, Writes
    <3> QED
      BY <1>1, <3>2 DEF Writes, ShowsForward
  <2> QED
    BY <2>1, <2>2, <2>3, <2>4
<1> QED
    BY <1>1, <1>2, <1>3 DEF ForwardMove, LoadsForward

(* The outputs are deployed; the service is reloaded and the run completed.*)
LEMMA CompletingIsForward ==
    ASSUME SyncInv, NEW r \in Runs, Reload(r) \/ RemoveOlder(r) \/ RelinkPrevious(r) \/ SaveEtag(r)
    PROVE  ForwardMove
<1>1. Bundled(r) /\ UNCHANGED published /\ published \in Nat
    BY VersionAssumption
       DEF Reload, RemoveOlder, RelinkPrevious, SaveEtag, Goto, Bundled, SyncInv, TypeOK, Version
<1>2. CASE SaveEtag(r)
  <2>1. UNCHANGED <<out, snaps, current, loaded>> /\ End(r) /\ pc[r] # "idle"
    BY <1>2 DEF SaveEtag, service
  <2> QED
    BY <1>1, <2>1, EndKeepsNothing, QuietIsForward
<1>3. CASE ~SaveEtag(r)
  <2>1. PICK to : GoesOn(r, to)
    BY <1>3, ReloadGoesOn, RemoveOlderGoesOn, RelinkPreviousGoesOn
  <2>2. LoadsForward
    BY <1>3, ReloadReads DEF Reload, RemoveOlder, RelinkPrevious, Goto, LoadsForward, service
  <2>3. KeepsBundles /\ KeepsBackups
    <3>1. UNCHANGED <<got, deployment, backup>>
      BY <1>3 DEF Reload, RemoveOlder, RelinkPrevious, locals, bundle, progress
    <3>2. ~Backing(r)' /\ pc' = [pc EXCEPT ![r] = to]
      BY <2>1 DEF GoesOn, Deployed, Backing, SyncInv, TypeOK
    <3> QED
      BY <1>1, <3>1, <3>2, RunKeeps
  <2>4. \A o \in Outputs : ShowsForward(o)
    BY <1>1, <2>1, GoesOnShows DEF Shown, ShowsForward, GoesOn
  <2> QED
    BY <1>1, <2>2, <2>3, <2>4 DEF ForwardMove
<1> QED
    BY <1>2, <1>3

(* A failure, a signal or a kill, and the rollback.                        *)
LEMMA CuttingIsForward ==
    ASSUME SyncInv, NEW r \in Runs, pc[r] # "idle", TearOutput(r), ReloadCut(r),
           UNCHANGED <<published, current, etag>>, spent'["lose"] = spent["lose"],
           KeepsBundles, KeepsBackups
    PROVE  ForwardMove
<1>1. \A o \in Outputs : Content(o)' \in {Content(o), Torn}
    BY TearShows
<1>2. published \in Nat
    BY VersionAssumption DEF SyncInv, TypeOK, Version
<1> QED
    BY <1>1, <1>2, CutLoadsForward DEF ForwardMove, ShowsForward

LEMMA InterruptIsForward ==
    ASSUME SyncInv, NEW r \in Runs, Fails(r) \/ Terminate(r) \/ Kill(r)
    PROVE  ForwardMove
<1>1. /\ pc[r] # "idle" /\ TearOutput(r) /\ ReloadCut(r) /\ UNCHANGED <<published, current, etag>>
      /\ \E e \in {"fault", "term", "kill"} : Spend(e)
    BY DEF Fails, Terminate, Kill, Abort
<1>2. spent'["lose"] = spent["lose"]
    BY <1>1, SpentIs DEF SyncInv, BoundedEvents
<1>3. KeepsBundles /\ KeepsBackups
  <2>1. CASE End(r)
    BY <1>1, <2>1, EndKeepsNothing
  <2>2. CASE ~End(r)
    <3>1. /\ RollbackArmed(r) /\ pc' = [pc EXCEPT ![r] = "rollback"] /\ UNCHANGED <<got, deployment, backup>>
      BY <2>2 DEF Fails, Terminate, Kill, Abort, bundle
    <3>2. Bundled(r) /\ Backing(r)
      BY <3>1 DEF RollbackArmed, Bundled, Backing
    <3> QED
      BY <3>1, <3>2, RunKeeps
  <2> QED
    BY <2>1, <2>2
<1> QED
    BY <1>1, <1>2, <1>3, CuttingIsForward

LEMMA RollingBackIsForward ==
    ASSUME SyncInv, NEW r \in Runs, NEW o \in Outputs, Restore(r, o) \/ RestoreFails(r, o) \/ Restored(r)
    PROVE  ForwardMove
<1>1. /\ pc[r] = "rollback" /\ Bundled(r) /\ Backing(r)
      /\ UNCHANGED <<published, current, etag, loaded>> /\ published \in Nat
    BY VersionAssumption
       DEF Restore, RestoreFails, Restored, disk, service, Bundled, Backing, SyncInv, TypeOK, RunState, Decided, Version
<1>2. KeepsBundles /\ KeepsBackups
  <2>1. CASE End(r)
    BY <1>1, <2>1, EndKeepsNothing
  <2>2. CASE ~End(r)
    <3>1. UNCHANGED <<pc, got, deployment, backup>>
      BY <2>2 DEF Restore, RestoreFails, Restored, bundle
    <3>2. pc' = [pc EXCEPT ![r] = pc[r]]
      BY <3>1 DEF SyncInv, TypeOK
    <3> QED
      BY <1>1, <3>1, <3>2, RunKeeps
  <2> QED
    BY <2>1, <2>2
<1>3. CASE Restore(r, o)
  <2>1. Content(o)' = backup[r][o] /\ Writes(o)
    BY <1>3, RestoreShows
  <2>2. \A p \in Outputs : ShowsForward(p)
    BY <1>1, <2>1 DEF Writes, ShowsForward
  <2> QED
    BY <1>1, <1>2, <2>2 DEF ForwardMove, LoadsForward
<1>4. CASE RestoreFails(r, o)
  <2>1. spent'["lose"] = spent["lose"]
    BY <1>4, SpentIs DEF RestoreFails, SyncInv, BoundedEvents
  <2>2. TearOutput(r) /\ ReloadCut(r)
    BY <1>1, <1>4 DEF RestoreFails, TearOutput, ReloadCut
  <2> QED
    BY <1>1, <1>2, <2>1, <2>2, CuttingIsForward
<1>5. CASE Restored(r)
  <2>1. UNCHANGED <<out, snaps, current, loaded>>
    BY <1>5 DEF Restored, disk, service
  <2> QED
    BY <1>1, <1>2, <2>1, QuietIsForward
<1> QED
    BY <1>3, <1>4, <1>5

LEMMA EveryStepIsForward ==
    ASSUME SyncInv, [Next]_vars
    PROVE  ForwardMove
<1>1. CASE Publish \/ DaemonEnds \/ (\E o \in Outputs : LoseOutput(o)) \/ UNCHANGED vars
    BY <1>1, EnvironmentIsForward
<1>2. PICK o \in Outputs : TRUE
    BY SyncAssumption
<1>3. ASSUME NEW r \in Runs, Begin(r) \/ Proceed(r) \/ Reload(r) \/ Interrupt(r) PROVE ForwardMove
  <2>1. CASE Begin(r)
    BY <2>1, AskingIsForward
  <2>2. CASE Proceed(r)
    <3>1. CASE NotModified(r) \/ Leave(r) \/ Receive(r)
      BY <3>1, AskingIsForward
    <3>2. CASE Unpack(r) \/ MoveSnapshot(r) \/ Switch(r) \/ Backup(r) \/ OutputsDone(r)
      BY <1>2, <3>2, DeployingIsForward
    <3>3. ASSUME NEW p \in Outputs, LinkOutput(r, p) \/ CopyOutput(r, p) PROVE ForwardMove
      BY <3>3, DeployingIsForward
    <3>4. ASSUME NEW p \in Outputs, Restore(r, p) PROVE ForwardMove
      BY <3>4, RollingBackIsForward
    <3>5. CASE Restored(r)
      BY <1>2, <3>5, RollingBackIsForward
    <3>6. CASE RemoveOlder(r) \/ RelinkPrevious(r) \/ SaveEtag(r)
      BY <3>6, CompletingIsForward
    <3> QED
      BY <2>2, <3>1, <3>2, <3>3, <3>4, <3>5, <3>6 DEF Proceed
  <2>3. CASE Reload(r)
    BY <2>3, CompletingIsForward
  <2>4. CASE Interrupt(r)
    BY <2>4, InterruptIsForward, RollingBackIsForward DEF Interrupt
  <2> QED
    BY <1>3, <2>1, <2>2, <2>3, <2>4
<1> QED
    BY <1>1, <1>3 DEF Next

(* The numbers behind a move.                                              *)
LEMMA ForwardTypes ==
    ASSUME SyncInv
    PROVE  /\ published \in Nat /\ Torn \in Nat
           /\ \A r \in Runs : got[r] \in Nat /\ (Bundled(r) => got[r] <= published)
           /\ \A o \in Outputs : Content(o) \in Nat /\ Content(o) <= Torn /\ Contents[o] = Content(o)
           /\ \A r \in Runs, o \in Outputs : backup[r][o] \in Nat
           /\ \A r \in Runs : pc[r] = "rollback" => Backing(r) /\ Bundled(r)
           /\ \A r, q \in Runs : Bundled(r) /\ Bundled(q) => r = q
<1>1. published \in Nat /\ Torn \in Nat /\ \A r \in Runs : got[r] \in Nat
    BY VersionAssumption DEF SyncInv, TypeOK, Version, Torn
<1>2. \A v \in Version \cup {Torn} : v \in Nat /\ v <= Torn
    BY VersionAssumption DEF Version, Torn
<1>3. \A o \in Outputs : Content(o) \in Nat /\ Content(o) <= Torn /\ Contents[o] = Content(o)
    BY <1>2, ContentTypes DEF SyncInv, Contents
<1>4. \A r \in Runs, o \in Outputs : backup[r][o] \in Nat
    BY <1>2, BackupTypes DEF SyncInv
<1>5. \A r \in Runs : Bundled(r) => got[r] <= published
    BY <1>1 DEF SyncInv, RunState, HasBundle
<1>6. /\ \A r \in Runs : pc[r] = "rollback" => Backing(r) /\ Bundled(r)
      /\ \A r, q \in Runs : Bundled(r) /\ Bundled(q) => r = q
    BY DEF SyncInv, OneRun, RunState, Decided, Backing, Bundled
<1> QED
    BY <1>1, <1>3, <1>4, <1>5, <1>6

(* What an output shows after a step, the bundles and backups being old.   *)
LEMMA ShownAtMost ==
    ASSUME SyncInv, ForwardInv, ForwardMove, NEW o \in Outputs, Content(o)' # Torn
    PROVE  Content(o)' <= published /\ \A q \in Runs : Bundled(q) => Content(o)' <= got[q]
<1>1. CASE Content(o)' = Content(o)
    BY <1>1, ForwardTypes DEF ForwardInv, AtMost
<1>2. CASE Content(o)' = 0
    BY <1>2, ForwardTypes
<1>3. ASSUME NEW r \in Runs, Bundled(r), Content(o)' = got[r]
      PROVE  Content(o)' <= published /\ \A q \in Runs : Bundled(q) => Content(o)' <= got[q]
    BY <1>3, ForwardTypes
<1>4. ASSUME NEW r \in Runs, pc[r] = "rollback", Content(o)' = backup[r][o]
      PROVE  Content(o)' <= published /\ \A q \in Runs : Bundled(q) => Content(o)' <= got[q]
  <2>1. Content(o)' <= got[r] /\ Bundled(r)
    BY <1>4, ForwardTypes DEF ForwardInv, AtMost
  <2> QED
    BY <1>4, <2>1, ForwardTypes
<1> QED
    BY <1>1, <1>2, <1>3, <1>4 DEF ForwardMove, ShowsForward

LEMMA ForwardStepKeeps ==
    ASSUME SyncInv, ForwardInv, ForwardMove
    PROVE  ForwardInv'
<1>1. published' \in {published, published + 1} /\ published \in Nat
    BY ForwardTypes DEF ForwardMove
<1>2. loaded' \in 0..published' /\ (\A q \in Runs : Bundled(q) => loaded' <= got[q])
    BY <1>1, ForwardTypes DEF ForwardMove, LoadsForward, ForwardInv
<1>3. \A o \in Outputs : Contents'[o] = Content(o)' /\ Content(o)' \in Nat
    BY ForwardTypes DEF Contents, ForwardMove, ShowsForward
<1>4. \A o \in Outputs : Content(o)' <= published' \/ Content(o)' = Torn
    BY <1>1, <1>3, ShownAtMost
<1>5. AtMost(Contents, published)'
    BY <1>3, <1>4 DEF AtMost, Torn
<1>6. ASSUME NEW q \in Runs, Bundled(q)' PROVE (loaded <= got[q] /\ AtMost(Contents, got[q]))'
  <2>1. CASE Bundled(q) /\ got'[q] = got[q]
    <3>1. \A o \in Outputs : Content(o)' <= got[q] \/ Content(o)' = Torn
      BY <2>1, ShownAtMost
    <3> QED
      BY <1>2, <1>3, <2>1, <3>1 DEF AtMost, Torn
  <2>2. CASE got'[q] = published'
    BY <1>2, <1>3, <1>4, <2>2 DEF AtMost, Torn
  <2> QED
    BY <1>6, <2>1, <2>2 DEF ForwardMove, KeepsBundles
<1>7. ASSUME NEW q \in Runs, Backing(q)' PROVE AtMost(backup[q], got[q])'
    BY <1>7 DEF ForwardMove, KeepsBackups, ForwardInv, AtMost, Torn
<1> QED
    BY <1>2, <1>5, <1>6, <1>7 DEF ForwardInv

(* flock, the order of the file operations and the EXIT trap of sync.sh:   *)
(* whichever deployment the runs decide on, however they overlap, fail or  *)
(* are killed, what the service loads is one whole version, newer than the *)
(* last, and no output shows an older version than before unless a         *)
(* rollback puts its backup back or somebody removes it.                   *)
THEOREM DeploymentMovesForward == Spec => NothingGoesBack
<1> DEFINE Forward ==
        /\ loaded' # loaded => loaded < loaded' /\ Shown(loaded')
        /\ spent'["lose"] = spent["lose"] =>
               \A o \in Outputs :
                   \/ Content(o) <= Content(o)' \/ Content(o) = Torn
                   \/ \E r \in Runs : pc[r] = "rollback" /\ Content(o)' = backup[r][o]
<1>1. ASSUME SyncInv, ForwardInv, ForwardMove PROVE Forward
  <2>1. ASSUME loaded' # loaded PROVE loaded < loaded' /\ Shown(loaded')
    <3>1. PICK r \in Runs : Bundled(r) /\ loaded' = got[r] /\ Shown(got[r])
      BY <1>1, <2>1 DEF ForwardMove, LoadsForward
    <3>2. loaded \in Nat /\ loaded <= got[r] /\ got[r] \in Nat
      BY <1>1, <3>1, ForwardTypes DEF ForwardInv
    <3>3. Shown(loaded')
      BY <3>1
    <3> QED
      BY <2>1, <3>1, <3>2, <3>3
  <2>2. ASSUME spent'["lose"] = spent["lose"], NEW o \in Outputs
        PROVE  \/ Content(o) <= Content(o)' \/ Content(o) = Torn
               \/ \E r \in Runs : pc[r] = "rollback" /\ Content(o)' = backup[r][o]
    <3>1. Content(o) \in Nat /\ Content(o) <= Torn
      BY <1>1, ForwardTypes
    <3>2. CASE Content(o)' \in {Content(o), Torn}
      BY <3>1, <3>2
    <3>3. ASSUME NEW r \in Runs, Bundled(r), Content(o)' = got[r]
          PROVE  Content(o) <= Content(o)' \/ Content(o) = Torn
      BY <1>1, <3>3, ForwardTypes DEF ForwardInv, AtMost
    <3> QED
      BY <1>1, <2>2, <3>2, <3>3 DEF ForwardMove, ShowsForward
  <2> QED
    BY <2>1, <2>2
<1>2. Init => ForwardInv
  <2> SUFFICES ASSUME Init PROVE ForwardInv
    OBVIOUS
  <2>1. \A o \in Outputs : Contents[o] = 0
    BY DEF Init, Absent, Content, Contents
  <2> QED
    BY <2>1 DEF Init, ForwardInv, AtMost, Bundled, Backing
<1>3. SyncInv /\ ForwardInv /\ [Next]_vars => ForwardInv'
    BY EveryStepIsForward, ForwardStepKeeps
<1>4. SyncInv /\ ForwardInv /\ [Next]_vars => [Forward]_vars
  <2> HIDE DEF Forward
  <2> QED
    BY <1>1, EveryStepIsForward
<1>5. Spec => [](SyncInv /\ ForwardInv)
    BY <1>2, <1>3, SyncInvariant, PTL DEF Spec
<1> HIDE DEF Forward
<1>6. Spec => [][Forward]_vars
    BY <1>4, <1>5, PTL DEF Spec
<1> QED
    BY <1>6 DEF Forward, NothingGoesBack

=============================================================================
