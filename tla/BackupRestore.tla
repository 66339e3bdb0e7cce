----------------------------- MODULE BackupRestore -----------------------------
(***************************************************************************)
(* NiFiBackup and NiFiRestore: a backup downloads a process group's flow,  *)
(* writes it to a ConfigMap or Secret it owns and records store and        *)
(* digest; a restore reads it through the backup's status, or a store by   *)
(* name, and imports it as a new group or replaces the group's contents.   *)
(* Neither has a finalizer: Kubernetes collects what a backup owned.       *)
(*                                                                         *)
(* Each of the two controllers has one worker, which works from a copy of  *)
(* the resource: a status write fails if the resource changed since that   *)
(* copy was read, and the copy may be one the cache has not updated yet.   *)
(* A reconcile that does not succeed is always called again. It is one     *)
(* step up to its first change in NiFi or Kubernetes: what others do       *)
(* between its reads and that change they could do before or after both.   *)
(***************************************************************************)
EXTENDS Integers, FiniteSets

CONSTANTS
  Backups, Restores,  \* the resources' names
  Stores,             \* ConfigMaps and Secrets, by kind and name
  Given,              \* those a user made, with a snapshot under flow.json
  Targets, Sources,   \* what backups and restores may ask for to begin with
  Nobody,             \* owner of a store that has none
  MaxContent,         \* bound: versions of the flow on the canvas
  MaxUids,            \* bound: backups ever created
  MaxCopies,          \* bound: groups imported
  MaxEvents           \* bound: edits, deletions, crashes, failing calls, lost writes and
                      \* stale reads, together

ASSUME NamesAssumption ==
  /\ Nobody \notin Backups /\ Given \subseteq Stores
  /\ IsFiniteSet(Backups) /\ IsFiniteSet(Restores)
ASSUME SpecsAssumption ==
  /\ Targets \subseteq [Backups -> Stores]
  /\ Sources \subseteq [Restores -> [backup : Backups] \cup [store : Stores]]
ASSUME BoundsAssumption ==
  /\ Cardinality(Backups) <= MaxUids /\ MaxContent \in Nat \ {0}
  /\ MaxUids \in Nat /\ MaxCopies \in Nat /\ MaxEvents \in Nat

\* What a flow or a snapshot is: a version of the canvas, what the user's store held, or
\* what a replacement that failed left.
None == 0
Users == -1
Damaged == -2
Contents == (-2)..MaxContent

Blank == [phase |-> "Pending", store |-> CHOOSE n \in Stores : TRUE, digest |-> None]
NoStore == [content |-> None, owner |-> Nobody, uid |-> 0]
Idle == [at |-> "idle"]

VARIABLES
  flow,      \* NiFi: contents of the process group that is backed up and restored into
  copies,    \* NiFi: how many groups were imported
  request,   \* NiFi: the replace request being polled: [state, content]
  strays,    \* NiFi: contents of running replace requests that nobody polls
  ready,     \* the NiFiCluster is ready
  stores,    \* what every store holds, and the backup (name and uid) that controls it
  target,    \* spec.storage of every backup
  uid,       \* metadata.uid of every backup, 0 if there is none
  uids,      \* uids given so far
  backup,    \* status of every backup
  source,    \* spec.source of every restore: a backup or a store
  mode,      \* spec.mode of every restore
  restore,   \* every restore: whether it exists, its phase and its group (0: the target)
  capturing, \* the worker of the backup controller
  restoring, \* the worker of the restore controller
  did,       \* history: what every restore that succeeded had read
  vain,      \* history: imports whose answer or status write was lost
  stale,     \* history: a reconcile worked from a status that was behind
  events

nifi == <<flow, copies, request, strays>>
backups == <<target, uid, uids, backup>>
restores == <<source, mode, restore>>
vars == <<nifi, ready, stores, backups, restores, capturing, restoring, did, vain, stale, events>>

\* A status that was never written counts as pending.
Phases == {"Pending", "Succeeded", "Failed"}
BackupStatuses == [phase : Phases, store : Stores, digest : Contents]
RestoreStatuses == [there : BOOLEAN, phase : Phases, id : 0..MaxCopies]
ReplaceRequests == [state : {"none", "running", "complete", "failed"}, content : Contents]
Holdings == [content : Contents, owner : Backups \cup {Nobody}, uid : 0..MaxUids]

TypeOK ==
  /\ flow \in Contents /\ copies \in 0..MaxCopies
  /\ request \in ReplaceRequests
  /\ strays \subseteq Contents /\ ready \in BOOLEAN
  /\ stores \in [Stores -> Holdings]
  /\ target \in [Backups -> Stores] /\ uid \in [Backups -> 0..MaxUids] /\ uids \in 0..MaxUids
  /\ backup \in [Backups -> BackupStatuses]
  /\ mode \in [Restores -> {"Import", "Replace"}]
  /\ restore \in [Restores -> RestoreStatuses]
  /\ vain \in 0..MaxCopies /\ stale \in BOOLEAN /\ events \in 0..MaxEvents

Init ==
  /\ flow = 1 /\ copies = 0 /\ request = [state |-> "none", content |-> None] /\ strays = {}
  /\ ready = TRUE
  /\ stores = [n \in Stores |-> IF n \in Given THEN [NoStore EXCEPT !.content = Users] ELSE NoStore]
  /\ target \in Targets
  /\ uid = CHOOSE f \in [Backups -> 1..Cardinality(Backups)] : \A b, c \in Backups : f[b] = f[c] => b = c
  /\ uids = Cardinality(Backups)
  /\ backup = [b \in Backups |-> Blank]
  /\ source \in Sources
  /\ mode \in [Restores -> {"Import", "Replace"}]
  /\ restore = [r \in Restores |-> [there |-> TRUE, phase |-> "Pending", id |-> 0]]
  /\ capturing = Idle /\ restoring = Idle
  /\ did = [r \in Restores |-> [backup |-> Nobody, uid |-> 0, content |-> None]]
  /\ vain = 0 /\ stale = FALSE /\ events = 0

Happens == events < MaxEvents /\ events' = events + 1

-----------------------------------------------------------------------------
(* Backup *)

Exists(b) == uid[b] # 0

\* The status write at the end of a reconcile that worked from copy `j`: refused if the
\* backup changed since or is gone, or it fails.
SaveBackup(j, s) ==
  \/ j.current /\ backup' = [backup EXCEPT ![j.of] = s] /\ UNCHANGED events
  \/ j.current /\ Happens /\ UNCHANGED backup
  \/ ~j.current /\ UNCHANGED <<backup, events>>

MarkBackupWaiting(b) == [backup[b] EXCEPT !.phase = "Pending"]
MarkBackupFailed(b) == [backup[b] EXCEPT !.phase = "Failed"]
MarkBackupSucceeded(n, content) == [phase |-> "Succeeded", store |-> n, digest |-> content]

\* A reconcile goes on unless the backup succeeded, as far as the worker can see.
Due(b) == Exists(b) /\ backup[b].phase # "Succeeded"

AwaitCluster(b) ==
  /\ capturing = Idle /\ Due(b) /\ ~ready
  /\ SaveBackup([of |-> b, current |-> TRUE], MarkBackupWaiting(b))
  /\ UNCHANGED <<nifi, ready, stores, target, uid, uids, restores, capturing, restoring, did, vain, stale>>

\* Mutant: the store is written whoever controls it.
MayControlAny(b, n) == TRUE
\* SetControllerReference: a store that has no controller, or this one, by name.
MayControl(b, n) == stores[n].owner \in {Nobody, b}

\* The store is another backup's; or there is no endpoint, or finding the root group,
\* downloading the group or writing the store fails.
CaptureFails(b) ==
  /\ capturing = Idle /\ Due(b) /\ ready
  /\ \/ ~MayControl(b, target[b]) /\ SaveBackup([of |-> b, current |-> TRUE], MarkBackupFailed(b))
     \/ Happens /\ backup' = [backup EXCEPT ![b] = MarkBackupFailed(b)]
  /\ UNCHANGED <<nifi, ready, stores, target, uid, uids, restores, capturing, restoring, did, vain, stale>>

\* Download the group and write the store.
Capture(b) ==
  /\ capturing = Idle /\ Exists(b) /\ ready /\ MayControl(b, target[b])
  /\ \/ Due(b) /\ UNCHANGED <<stale, events>>
     \/ ~Due(b) /\ Happens /\ stale' = TRUE
  /\ stores' = [stores EXCEPT ![target[b]] = [content |-> flow, owner |-> b, uid |-> uid[b]]]
  /\ capturing' = [at |-> "stored", of |-> b, to |-> target[b], content |-> flow, current |-> Due(b)]
  /\ UNCHANGED <<nifi, ready, backups, restores, restoring, did, vain>>

BackupSucceeds ==
  /\ capturing.at = "stored"
  /\ SaveBackup(capturing, MarkBackupSucceeded(capturing.to, capturing.content))
  /\ capturing' = Idle
  /\ UNCHANGED <<nifi, ready, stores, target, uid, uids, restores, restoring, did, vain, stale>>

-----------------------------------------------------------------------------
(* Restore: the source *)

SaveRestore(j, s) ==
  \/ j.current /\ restore' = [restore EXCEPT ![j.of] = s] /\ UNCHANGED events
  \/ j.current /\ Happens /\ UNCHANGED restore
  \/ ~j.current /\ UNCHANGED <<restore, events>>

MarkRestoreWaiting(r) == [restore[r] EXCEPT !.phase = "Pending"]
MarkRestoreFailed(r) == [restore[r] EXCEPT !.phase = "Failed"]
MarkRestoreSucceeded(r, id) == [restore[r] EXCEPT !.phase = "Succeeded", !.id = id]

FromBackup(r) == "backup" \in DOMAIN source[r]

\* Mutant: the store is the one the backup asks for now.
BackupStoreWanted(b) == target[b]
\* A backup is read where its status says it is.
BackupStore(b) == backup[b].store

SourceStore(r) == IF FromBackup(r) THEN BackupStore(source[r].backup) ELSE source[r].store

\* resolveRestoreSource finds a snapshot: the backup succeeded, the store is there.
SourceThere(r) ==
  /\ FromBackup(r) => Exists(source[r].backup) /\ backup[source[r].backup].phase = "Succeeded"
  /\ stores[SourceStore(r)].content # None

Wanted(r) == restore[r].there /\ restore[r].phase # "Succeeded"

RestoreWaits(r) ==
  /\ restoring = Idle /\ Wanted(r) /\ ~(ready /\ SourceThere(r))
  /\ SaveRestore([of |-> r, current |-> TRUE], MarkRestoreWaiting(r))
  /\ UNCHANGED <<nifi, ready, stores, backups, source, mode, capturing, restoring, did, vain, stale>>

\* Reading the source, finding the root group, importing or asking for a replacement fails.
RestoreFails(r) ==
  /\ restoring = Idle /\ Wanted(r) /\ ready /\ Happens
  /\ restore' = [restore EXCEPT ![r] = MarkRestoreFailed(r)]
  /\ UNCHANGED <<nifi, ready, stores, backups, source, mode, capturing, restoring, did, vain, stale>>

-----------------------------------------------------------------------------
(* Restore: applying it *)

\* A reconcile that has its snapshot, after a status that is current or behind.
ResolveRestoreSource(r, m) ==
  /\ restoring = Idle /\ restore[r].there /\ ready /\ SourceThere(r) /\ mode[r] = m
  /\ \/ Wanted(r) /\ UNCHANGED <<stale, events>>
     \/ ~Wanted(r) /\ Happens /\ stale' = TRUE

Snapshot(r) == stores[SourceStore(r)].content

Working(r, at, id) ==
  LET b == IF FromBackup(r) THEN source[r].backup ELSE Nobody IN
  restoring' = [at |-> at, of |-> r, content |-> Snapshot(r), backup |-> b,
                uid |-> IF FromBackup(r) THEN uid[b] ELSE 0, id |-> id, current |-> Wanted(r)]

ImportProcessGroup(r) ==
  /\ ResolveRestoreSource(r, "Import") /\ copies < MaxCopies
  /\ copies' = copies + 1 /\ Working(r, "applied", copies + 1)
  /\ UNCHANGED <<flow, request, strays, ready, stores, backups, restores, capturing, did, vain>>

\* NiFi imports the flow and the answer is lost.
ImportUnanswered(r) ==
  /\ restoring = Idle /\ Wanted(r) /\ ready /\ SourceThere(r) /\ mode[r] = "Import"
  /\ copies < MaxCopies /\ Happens
  /\ copies' = copies + 1 /\ vain' = vain + 1
  /\ restore' = [restore EXCEPT ![r] = MarkRestoreFailed(r)]
  /\ UNCHANGED <<flow, request, strays, ready, stores, backups, source, mode, capturing, restoring, did, stale>>

CreateReplaceRequest(r) ==
  /\ ResolveRestoreSource(r, "Replace")
  /\ request' = [state |-> "running", content |-> Snapshot(r)] /\ Working(r, "polling", 0)
  /\ UNCHANGED <<flow, copies, strays, ready, stores, backups, restores, capturing, did, vain>>

\* The deferred DELETE: NiFi drops the request, cancelling it if it runs, or the call fails
\* and a running request goes on.
DeleteRequest(fails) ==
  /\ request' = [request EXCEPT !.state = "none"]
  /\ strays' = IF fails /\ request.state = "running" THEN strays \cup {request.content} ELSE strays

ReplaceCompletes ==
  /\ restoring.at = "polling" /\ request.state = "complete"
  /\ DeleteRequest(FALSE) /\ restoring' = [restoring EXCEPT !.at = "applied"]
  /\ UNCHANGED <<flow, copies, ready, stores, backups, restores, capturing, did, vain, stale, events>>

\* NiFi reports a failure.
ReplaceFails ==
  /\ restoring.at = "polling" /\ request.state = "failed"
  /\ DeleteRequest(FALSE) /\ SaveRestore(restoring, MarkRestoreFailed(restoring.of))
  /\ restoring' = Idle
  /\ UNCHANGED <<flow, copies, ready, stores, backups, source, mode, capturing, did, vain, stale>>

\* The deadline passes or a poll fails, with the request in any state.
PollFails ==
  /\ restoring.at = "polling" /\ Happens /\ restoring' = Idle
  /\ IF restoring.current
     THEN restore' = [restore EXCEPT ![restoring.of] = MarkRestoreFailed(restoring.of)]
     ELSE UNCHANGED restore
  /\ \E fails \in BOOLEAN : DeleteRequest(fails)
  /\ UNCHANGED <<flow, copies, ready, stores, backups, source, mode, capturing, did, vain, stale>>

\* Groups imported by a reconcile that has not recorded it yet.
InFlight == IF restoring # Idle /\ restoring.at = "applied" /\ restoring.id # 0 THEN 1 ELSE 0

\* Mutant: the group is not recorded as restored.
RestoreSucceedsPending ==
  /\ restoring.at = "applied"
  /\ SaveRestore(restoring, MarkRestoreWaiting(restoring.of))
  /\ restoring' = Idle
  /\ UNCHANGED <<nifi, ready, stores, backups, source, mode, capturing, did, vain, stale>>

RestoreSucceeds ==
  /\ restoring.at = "applied"
  /\ SaveRestore(restoring, MarkRestoreSucceeded(restoring.of, restoring.id))
  /\ restoring' = Idle
  /\ IF restoring.current /\ events' = events
     THEN /\ did' = [did EXCEPT ![restoring.of] =
                       [backup |-> restoring.backup, uid |-> restoring.uid,
                        content |-> restoring.content]]
          /\ UNCHANGED vain
     ELSE UNCHANGED did /\ vain' = vain + InFlight
  /\ UNCHANGED <<nifi, ready, stores, backups, source, mode, capturing, stale>>

-----------------------------------------------------------------------------
(* Users, Kubernetes and NiFi *)

\* A copy of a backup that is being worked from is behind once the backup changes.
Behind(job, x) == IF job # Idle /\ job.of = x THEN [job EXCEPT !.current = FALSE] ELSE job

EditBackup(b, n) ==
  /\ Exists(b) /\ n # target[b] /\ Happens
  /\ target' = [target EXCEPT ![b] = n] /\ capturing' = Behind(capturing, b)
  /\ UNCHANGED <<nifi, ready, stores, uid, uids, backup, restores, restoring, did, vain, stale>>

DeleteBackup(b) ==
  /\ Exists(b) /\ Happens
  /\ uid' = [uid EXCEPT ![b] = 0] /\ backup' = [backup EXCEPT ![b] = Blank]
  /\ capturing' = Behind(capturing, b)
  /\ UNCHANGED <<nifi, ready, stores, target, uids, restores, restoring, did, vain, stale>>

RecreateBackup(b, n) ==
  /\ ~Exists(b) /\ uids < MaxUids
  /\ uids' = uids + 1 /\ uid' = [uid EXCEPT ![b] = uids + 1] /\ target' = [target EXCEPT ![b] = n]
  /\ UNCHANGED <<nifi, ready, stores, backup, restores, capturing, restoring, did, vain, stale, events>>

EditRestore(r, s, m) ==
  /\ restore[r].there /\ Happens /\ <<s, m>> # <<source[r], mode[r]>>
  /\ source' = [source EXCEPT ![r] = s] /\ mode' = [mode EXCEPT ![r] = m]
  /\ restoring' = Behind(restoring, r)
  /\ UNCHANGED <<nifi, ready, stores, backups, restore, capturing, did, vain, stale>>

DeleteRestore(r) ==
  /\ restore[r].there /\ Happens
  /\ restore' = [restore EXCEPT ![r].there = FALSE] /\ restoring' = Behind(restoring, r)
  /\ UNCHANGED <<nifi, ready, stores, backups, source, mode, capturing, did, vain, stale>>

\* Kubernetes deletes a store whose controller is gone.
Collect(n) ==
  /\ stores[n].owner # Nobody /\ uid[stores[n].owner] # stores[n].uid
  /\ stores' = [stores EXCEPT ![n] = NoStore]
  /\ UNCHANGED <<nifi, ready, backups, restores, capturing, restoring, did, vain, stale, events>>

ClusterChanges ==
  /\ IF ready THEN Happens ELSE UNCHANGED events
  /\ ready' = ~ready
  /\ UNCHANGED <<nifi, stores, backups, restores, capturing, restoring, did, vain, stale>>

EditCanvas ==
  /\ flow < MaxContent /\ flow' = IF flow < 1 THEN MaxContent ELSE flow + 1
  /\ UNCHANGED <<copies, request, strays, ready, stores, backups, restores, capturing, restoring, did, vain, stale, events>>

\* NiFi ends a replace request, the polled one or one that was left behind.
RequestEnds ==
  /\ \/ /\ request.state = "running" /\ UNCHANGED strays
        /\ \/ request' = [request EXCEPT !.state = "complete"] /\ flow' = request.content /\ UNCHANGED events
           \/ Happens /\ request' = [request EXCEPT !.state = "failed"] /\ flow' \in {flow, Damaged}
     \/ \E c \in strays : strays' = strays \ {c} /\ flow' = c /\ UNCHANGED <<request, events>>
  /\ UNCHANGED <<copies, ready, stores, backups, restores, capturing, restoring, did, vain, stale>>

\* The operator stops: the workers lose what they hold, and no deferred call is made.
Crash ==
  /\ {capturing, restoring} # {Idle} /\ Happens
  /\ capturing' = Idle /\ restoring' = Idle /\ DeleteRequest(TRUE)
  /\ vain' = vain + InFlight
  /\ UNCHANGED <<flow, copies, ready, stores, backups, restores, did, stale>>

-----------------------------------------------------------------------------

StartBackup(b) == AwaitCluster(b) \/ CaptureFails(b) \/ Capture(b)
StartRestore(r) ==
  \/ RestoreWaits(r) \/ RestoreFails(r)
  \/ ImportProcessGroup(r) \/ ImportUnanswered(r) \/ CreateReplaceRequest(r)
FinishRestore == ReplaceCompletes \/ ReplaceFails \/ PollFails \/ RestoreSucceeds

Next ==
  \/ BackupSucceeds \/ FinishRestore \/ ClusterChanges \/ EditCanvas \/ RequestEnds \/ Crash
  \/ \E b \in Backups : \/ StartBackup(b) \/ DeleteBackup(b)
                        \/ \E n \in Stores : EditBackup(b, n) \/ RecreateBackup(b, n)
  \/ \E r \in Restores : \/ StartRestore(r) \/ DeleteRestore(r)
                         \/ \E s \in [backup : Backups] \cup [store : Stores],
                               m \in {"Import", "Replace"} : EditRestore(r, s, m)
  \/ \E n \in Stores : Collect(n)

Spec == Init /\ [][Next]_vars

\* The workqueues call each resource that did not succeed again and again, a worker that
\* started goes on, Kubernetes collects garbage and NiFi ends its requests.
FairSpec ==
  /\ Spec
  /\ WF_vars(BackupSucceeds) /\ WF_vars(FinishRestore) /\ WF_vars(RequestEnds)
  /\ \A b \in Backups : SF_vars(StartBackup(b))
  /\ \A r \in Restores : SF_vars(StartRestore(r))
  /\ \A n \in Stores : WF_vars(Collect(n))

-----------------------------------------------------------------------------
(* Properties *)

\* A backup that succeeded is immutable: the store its status names is its own and holds
\* what its digest says, whoever else wants that store, whatever was edited, deleted and
\* created again, and whichever write was lost. A reconcile that does not see yet that the
\* backup succeeded overwrites the store; then this does not hold.
CapturedIsKept ==
  ~stale => \A b \in Backups : backup[b].phase = "Succeeded" =>
    stores[backup[b].store] = [content |-> backup[b].digest, owner |-> b, uid |-> uid[b]]

\* What a restore that succeeded took from a backup is what that backup says it captured,
\* for as long as the backup exists; and every copy in NiFi but its own is one whose
\* answer, or whose status write, was lost.
RestoredIsCaptured ==
  /\ ~stale => \A r \in Restores :
       did[r].backup # Nobody /\ uid[did[r].backup] = did[r].uid =>
         did[r].content = backup[did[r].backup].digest
  /\ copies <= vain + InFlight +
       Cardinality({r \in Restores : restore[r].phase = "Succeeded" /\ restore[r].id # 0})

\* When the cluster stays ready, every backup whose store is not another's succeeds, and so
\* does every restore whose source is there.
ComesToRest ==
  <>[]ready =>
    /\ \A b \in Backups : <>[](Exists(b) /\ MayControl(b, target[b]) => backup[b].phase = "Succeeded")
    /\ \A r \in Restores : <>[](restore[r].there /\ SourceThere(r) /\ copies < MaxCopies
                                  => restore[r].phase = "Succeeded")

=============================================================================
