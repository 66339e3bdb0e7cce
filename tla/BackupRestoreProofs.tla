------------------------- MODULE BackupRestoreProofs -------------------------
(***************************************************************************)
(* Proofs about BackupRestore for every set of backups, restores and       *)
(* stores, and every number of edits, deletions, crashes and lost writes.  *)
(***************************************************************************)
EXTENDS BackupRestore, FunctionTheorems, FiniteSetTheorems, TLAPS

\* What the two workers hold, what the specs of restores say and what restores have read.
Captures == [at : {"stored"}, of : Backups, to : Stores, content : Contents, current : BOOLEAN]
Applications ==
  [at : {"polling", "applied"}, of : Restores, content : Contents,
   backup : Backups \cup {Nobody}, uid : 0..MaxUids, id : 0..MaxCopies, current : BOOLEAN]
Reads == [backup : Backups \cup {Nobody}, uid : 0..MaxUids, content : Contents]
References == [backup : Backups] \cup [store : Stores]

Shapes ==
  /\ source \in [Restores -> References]
  /\ capturing \in Captures \cup {Idle}
  /\ restoring \in Applications \cup {Idle}
  /\ did \in [Restores -> Reads]

\* An import in vain is one of the imports, and a replacement makes no group.
VainCounted ==
  /\ vain + InFlight <= copies
  /\ restoring.at = "polling" => restoring.id = 0

TypeInv == TypeOK /\ Shapes /\ VainCounted

-----------------------------------------------------------------------------
(* Types *)

\* Some numbering of the backups gives each its own uid.
LEMMA UidsExist ==
  \E f \in [Backups -> 1..Cardinality(Backups)] : \A b, c \in Backups : f[b] = f[c] => b = c
<1>1. ExistsBijection(Backups, 1..Cardinality(Backups))
  BY NamesAssumption, FS_CardinalityType, Fun_ExistsBijSymmetric
<1>2. PICK f : f \in Bijection(Backups, 1..Cardinality(Backups))
  BY <1>1 DEF ExistsBijection
<1> QED
  BY <1>2 DEF Bijection, Injection, IsInjective

\* The initial state is well formed.
LEMMA InitTyped == Init => TypeInv
<1> SUFFICES ASSUME Init PROVE TypeInv
  OBVIOUS
<1>1. Cardinality(Backups) \in 0..MaxUids
  BY NamesAssumption, BoundsAssumption, FS_CardinalityType
<1>2. uid \in [Backups -> 1..Cardinality(Backups)]
  BY UidsExist DEF Init
<1>3. uid \in [Backups -> 0..MaxUids]
  BY <1>1, <1>2, BoundsAssumption
<1>4. {None, Users, 1} \subseteq Contents
  BY BoundsAssumption DEF Contents, None, Users
<1>5. stores \in [Stores -> Holdings]
  BY <1>4, BoundsAssumption DEF Init, NoStore, Holdings
<1>6. target \in [Backups -> Stores] /\ source \in [Restores -> References]
  BY SpecsAssumption DEF Init, References
<1>7. \A b \in Backups : Blank \in BackupStatuses
  BY <1>4, <1>6 DEF Blank, Phases, BackupStatuses
<1>8. TypeOK
  <2>1. backup \in [Backups -> BackupStatuses]
    BY <1>7 DEF Init
  <2>2. restore \in [Restores -> RestoreStatuses]
    BY BoundsAssumption DEF Init, Phases, RestoreStatuses
  <2>3. request \in ReplaceRequests
    BY <1>4 DEF Init, ReplaceRequests
  <2>4. /\ copies \in 0..MaxCopies /\ vain \in 0..MaxCopies /\ events \in 0..MaxEvents
        /\ uids \in 0..MaxUids
    BY <1>1, BoundsAssumption DEF Init
  <2>5. flow \in Contents /\ strays \subseteq Contents /\ ready \in BOOLEAN /\ stale \in BOOLEAN
    BY <1>4 DEF Init
  <2> QED
    BY <1>3, <1>5, <1>6, <2>1, <2>2, <2>3, <2>4, <2>5 DEF Init, TypeOK
<1>9. Shapes
  BY <1>4, <1>6, BoundsAssumption DEF Init, Shapes, Reads
<1>10. VainCounted
  BY DEF Init, VainCounted, InFlight, Idle
<1> QED
  BY <1>8, <1>9, <1>10 DEF TypeInv

\* An event counts against its bound.
LEMMA EventCounted ==
  ASSUME TypeOK, Happens
  PROVE  events' \in 0..MaxEvents
BY BoundsAssumption DEF TypeOK, Happens

\* What a status write at the end of a reconcile leaves.
LEMMA SaveBackupTyped ==
  ASSUME TypeOK, NEW b \in Backups, NEW j, j.of = b, NEW s, SaveBackup(j, s),
         s \in BackupStatuses
  PROVE  /\ backup' \in [Backups -> BackupStatuses]
         /\ events' \in 0..MaxEvents
BY EventCounted DEF TypeOK, SaveBackup

\* The same for a restore.
LEMMA SaveRestoreTyped ==
  ASSUME TypeOK, NEW r \in Restores, NEW j, j.of = r, NEW s, SaveRestore(j, s),
         s \in RestoreStatuses
  PROVE  /\ restore' \in [Restores -> RestoreStatuses]
         /\ events' \in 0..MaxEvents
BY EventCounted DEF TypeOK, SaveRestore

\* The marks of a reconcile are statuses.
LEMMA BackupMarksTyped ==
  ASSUME TypeOK, NEW b \in Backups
  PROVE  {MarkBackupWaiting(b), MarkBackupFailed(b)} \subseteq BackupStatuses
<1>1. backup[b] \in BackupStatuses
  BY DEF TypeOK
<1> QED
  BY <1>1 DEF BackupStatuses, Phases, MarkBackupWaiting, MarkBackupFailed

\* So are the marks of a restore, and a restore that is gone.
LEMMA RestoreMarksTyped ==
  ASSUME TypeOK, NEW r \in Restores
  PROVE  /\ {MarkRestoreWaiting(r), MarkRestoreFailed(r)} \subseteq RestoreStatuses
         /\ \A id \in 0..MaxCopies : MarkRestoreSucceeded(r, id) \in RestoreStatuses
         /\ [restore[r] EXCEPT !.there = FALSE] \in RestoreStatuses
<1>1. restore[r] \in RestoreStatuses
  BY DEF TypeOK
<1> QED
  BY <1>1 DEF RestoreStatuses, Phases, MarkRestoreWaiting, MarkRestoreFailed, MarkRestoreSucceeded

\* The backup controller keeps the types.
LEMMA BackupTyped ==
  ASSUME TypeInv, BackupSucceeds \/ \E b \in Backups : StartBackup(b)
  PROVE  TypeInv'
<1> USE DEF TypeInv
<1>1. ASSUME NEW b \in Backups, AwaitCluster(b) \/ CaptureFails(b)
      PROVE  TypeInv'
  <2>1. /\ backup' \in [Backups -> BackupStatuses]
        /\ events' \in 0..MaxEvents
    <3>1. \/ \E s \in {MarkBackupWaiting(b), MarkBackupFailed(b)} :
               SaveBackup([of |-> b, current |-> TRUE], s)
          \/ Happens /\ backup' = [backup EXCEPT ![b] = MarkBackupFailed(b)]
      BY <1>1 DEF AwaitCluster, CaptureFails
    <3> QED
      BY <3>1, BackupMarksTyped, EventCounted DEF TypeOK, SaveBackup
  <2>2. UNCHANGED <<nifi, ready, stores, target, uid, uids, restores, capturing, restoring, did,
                    vain, stale>>
    BY <1>1 DEF AwaitCluster, CaptureFails
  <2> QED
    BY <2>1, <2>2 DEF TypeOK, Shapes, VainCounted, InFlight, nifi, restores
<1>2. ASSUME NEW b \in Backups, Capture(b)
      PROVE  TypeInv'
  <2>1. Due(b) \in BOOLEAN
    BY Zenon DEF Due
  <2>2. capturing' \in Captures
    BY <1>2, <2>1 DEF Capture, Captures, TypeOK
  <2>3. stores' \in [Stores -> Holdings]
    BY <1>2 DEF Capture, TypeOK, Holdings
  <2>4. stale' \in BOOLEAN /\ events' \in 0..MaxEvents
    BY <1>2, EventCounted DEF Capture, TypeOK
  <2> QED
    BY <1>2, <2>2, <2>3, <2>4 DEF Capture, TypeOK, Shapes, VainCounted, InFlight, nifi, restores, backups
<1>3. CASE BackupSucceeds
  <2>1. capturing \in Captures
    BY <1>3 DEF BackupSucceeds, Shapes, Idle
  <2>2. MarkBackupSucceeded(capturing.to, capturing.content)
          \in BackupStatuses
    BY <2>1 DEF MarkBackupSucceeded, Captures, Phases, BackupStatuses
  <2>3. /\ backup' \in [Backups -> BackupStatuses]
        /\ events' \in 0..MaxEvents
    BY <1>3, <2>1, <2>2, SaveBackupTyped DEF BackupSucceeds, Captures
  <2> QED
    BY <1>3, <2>3 DEF BackupSucceeds, TypeOK, Shapes, VainCounted, InFlight, nifi, restores
<1> QED
  BY <1>1, <1>2, <1>3 DEF StartBackup

\* The restore controller, from a status to the application of a snapshot.
LEMMA StartRestoreTyped ==
  ASSUME TypeInv, NEW r \in Restores, StartRestore(r)
  PROVE  TypeInv'
<1> USE DEF TypeInv
<1>1. CASE RestoreWaits(r) \/ RestoreFails(r)
  <2>1. \/ SaveRestore([of |-> r, current |-> TRUE], MarkRestoreWaiting(r))
        \/ Happens /\ restore' = [restore EXCEPT ![r] = MarkRestoreFailed(r)]
    BY <1>1 DEF RestoreWaits, RestoreFails
  <2>2. 0 \in 0..MaxCopies
    BY BoundsAssumption
  <2>3. /\ restore' \in [Restores -> RestoreStatuses]
        /\ events' \in 0..MaxEvents
    BY <2>1, <2>2, RestoreMarksTyped, EventCounted DEF TypeOK, SaveRestore
  <2>4. UNCHANGED <<nifi, ready, stores, backups, source, mode, capturing, restoring, did, vain, stale>>
    BY <1>1 DEF RestoreWaits, RestoreFails
  <2> QED
    BY <2>3, <2>4 DEF TypeOK, Shapes, VainCounted, InFlight, nifi, backups
<1>2. ASSUME NEW m, ResolveRestoreSource(r, m)
      PROVE  /\ stale' \in BOOLEAN /\ events' \in 0..MaxEvents /\ restoring = Idle
             /\ \A at \in {"polling", "applied"}, id \in 0..MaxCopies :
                  Working(r, at, id) =>
                    /\ restoring' \in Applications
                    /\ restoring'.at = at /\ restoring'.id = id
  <2>1. stale' \in BOOLEAN /\ events' \in 0..MaxEvents /\ restoring = Idle
    BY <1>2, EventCounted DEF ResolveRestoreSource, TypeOK
  <2>2. SourceStore(r) \in Stores
    BY DEF SourceStore, FromBackup, BackupStore, Shapes, References, TypeOK, BackupStatuses
  <2>3. Snapshot(r) \in Contents
    BY <2>2 DEF Snapshot, TypeOK, Holdings
  <2>4. FromBackup(r) => source[r].backup \in Backups
    BY DEF FromBackup, Shapes, References
  <2>5. Wanted(r) \in BOOLEAN
    BY Zenon DEF Wanted
  <2>6. 0 \in 0..MaxUids /\ uid \in [Backups -> 0..MaxUids]
    BY BoundsAssumption DEF TypeOK
  <2>7. ASSUME NEW at \in {"polling", "applied"}, NEW id \in 0..MaxCopies, Working(r, at, id)
        PROVE  restoring' \in Applications /\ restoring'.at = at /\ restoring'.id = id
    BY <2>3, <2>4, <2>5, <2>6, <2>7 DEF Working, Applications
  <2> QED
    BY <2>1, <2>7
<1>3. CASE ImportProcessGroup(r)
  <2>1. copies + 1 \in 0..MaxCopies /\ copies' = copies + 1 /\ copies + 1 # 0
    BY <1>3, BoundsAssumption DEF ImportProcessGroup, TypeOK
  <2>2. restoring' \in Applications /\ restoring'.at = "applied" /\ restoring'.id = copies + 1
    BY <1>2, <1>3, <2>1 DEF ImportProcessGroup
  <2>3. restoring = Idle /\ stale' \in BOOLEAN /\ events' \in 0..MaxEvents
    BY <1>2, <1>3 DEF ImportProcessGroup
  <2>4. InFlight = 0 /\ InFlight' = 1
    BY <2>1, <2>2, <2>3 DEF InFlight, Idle
  <2>5. UNCHANGED <<flow, request, strays, ready, stores, backups, restores, capturing, did, vain>>
    BY <1>3 DEF ImportProcessGroup
  <2>6. VainCounted'
    BY <2>1, <2>2, <2>4, <2>5 DEF VainCounted, TypeOK
  <2> QED
    BY <2>1, <2>2, <2>3, <2>5, <2>6 DEF TypeOK, Shapes, backups, restores
<1>4. CASE ImportUnanswered(r)
  <2>1. 0 \in 0..MaxCopies /\ copies + 1 \in 0..MaxCopies /\ copies' = copies + 1
    BY <1>4, BoundsAssumption DEF ImportUnanswered, TypeOK
  <2>2. restore' \in [Restores -> RestoreStatuses]
    BY <1>4, <2>1, RestoreMarksTyped DEF ImportUnanswered, TypeOK
  <2>3. events' \in 0..MaxEvents /\ vain' = vain + 1
    BY <1>4, EventCounted DEF ImportUnanswered
  <2>4. InFlight = 0 /\ InFlight' = 0
    BY <1>4 DEF ImportUnanswered, InFlight
  <2>5. vain' \in 0..MaxCopies /\ VainCounted'
    BY <1>4, <2>1, <2>3, <2>4, BoundsAssumption DEF ImportUnanswered, TypeOK, VainCounted
  <2> QED
    BY <1>4, <2>1, <2>2, <2>3, <2>5 DEF ImportUnanswered, TypeOK, Shapes, backups
<1>5. CASE CreateReplaceRequest(r)
  <2>1. 0 \in 0..MaxCopies
    BY BoundsAssumption
  <2>2. restoring' \in Applications /\ restoring'.at = "polling" /\ restoring'.id = 0
    BY <1>2, <1>5, <2>1 DEF CreateReplaceRequest
  <2>3. restoring = Idle /\ stale' \in BOOLEAN /\ events' \in 0..MaxEvents
    BY <1>2, <1>5 DEF CreateReplaceRequest
  <2>4. InFlight = 0 /\ InFlight' = 0
    BY <2>2, <2>3 DEF InFlight
  <2>5. restoring'.content = Snapshot(r)
    BY <1>5 DEF CreateReplaceRequest, Working
  <2>6. request' \in ReplaceRequests
    BY <1>5, <2>2, <2>5 DEF CreateReplaceRequest, Applications, ReplaceRequests
  <2> QED
    BY <1>5, <2>2, <2>3, <2>4, <2>6 DEF CreateReplaceRequest, TypeOK, Shapes, VainCounted,
       backups, restores
<1> QED
  BY <1>1, <1>3, <1>4, <1>5 DEF StartRestore

\* The restore controller, to the end of a reconcile.
LEMMA FinishRestoreTyped ==
  ASSUME TypeInv, FinishRestore
  PROVE  TypeInv'
<1> USE DEF TypeInv
<1>1. restoring \in Applications
  <2>1. restoring.at \in {"polling", "applied"}
    BY DEF FinishRestore, ReplaceCompletes, ReplaceFails, PollFails, RestoreSucceeds
  <2>2. Idle.at = "idle"
    BY DEF Idle
  <2> QED
    BY <2>1, <2>2 DEF Shapes
<1>2. restoring.of \in Restores /\ restoring.id \in 0..MaxCopies
  BY <1>1 DEF Applications
<1>3. \A fails \in BOOLEAN : DeleteRequest(fails) =>
        /\ request' \in ReplaceRequests
        /\ strays' \subseteq Contents
  BY DEF DeleteRequest, TypeOK, ReplaceRequests
<1>4. CASE ReplaceCompletes
  <2>1. restoring' \in Applications /\ restoring'.id = restoring.id /\ restoring'.at = "applied"
    BY <1>1, <1>4 DEF ReplaceCompletes, Applications
  <2>2. InFlight = 0 /\ InFlight' = 0
    BY <1>4, <2>1 DEF ReplaceCompletes, InFlight, VainCounted
  <2>3. UNCHANGED <<flow, copies, ready, stores, backups, restores, capturing, did, vain, stale, events>>
    BY <1>4 DEF ReplaceCompletes
  <2>4. DeleteRequest(FALSE)
    BY <1>4 DEF ReplaceCompletes
  <2> QED
    BY <1>3, <2>1, <2>2, <2>3, <2>4 DEF TypeOK, Shapes, VainCounted, backups, restores
<1>5. CASE ReplaceFails \/ PollFails
  <2>1. restore' \in [Restores -> RestoreStatuses]
    BY <1>2, <1>5, RestoreMarksTyped DEF ReplaceFails, PollFails, SaveRestore, TypeOK
  <2>2. events' \in 0..MaxEvents
    BY <1>5, EventCounted DEF ReplaceFails, PollFails, SaveRestore, TypeOK
  <2>3. InFlight = 0 /\ InFlight' = 0 /\ restoring' = Idle /\ restoring'.at = "idle"
    <3>1. restoring.at = "polling" /\ restoring' = Idle
      BY <1>5 DEF ReplaceFails, PollFails
    <3>2. Idle.at = "idle"
      BY DEF Idle
    <3> QED
      BY <3>1, <3>2 DEF InFlight
  <2>4. \E fails \in BOOLEAN : DeleteRequest(fails)
    BY <1>5 DEF ReplaceFails, PollFails
  <2>5. UNCHANGED <<flow, copies, ready, stores, backups, source, mode, capturing, did, vain, stale>>
    BY <1>5 DEF ReplaceFails, PollFails
  <2> QED
    BY <1>3, <2>1, <2>2, <2>3, <2>4, <2>5 DEF TypeOK, Shapes, VainCounted, backups
<1>6. CASE RestoreSucceeds
  <2>1. restore' \in [Restores -> RestoreStatuses]
    <3>1. MarkRestoreSucceeded(restoring.of, restoring.id) \in RestoreStatuses
      BY <1>2, RestoreMarksTyped
    <3> QED
      BY <1>2, <1>6, <3>1 DEF RestoreSucceeds, SaveRestore, TypeOK
  <2>2. events' \in 0..MaxEvents
    BY <1>6, EventCounted DEF RestoreSucceeds, SaveRestore, TypeOK
  <2>3. InFlight' = 0 /\ restoring' = Idle /\ restoring'.at = "idle"
    BY <1>6 DEF RestoreSucceeds, InFlight, Idle
  <2>4. InFlight \in {0, 1}
    BY DEF InFlight
  <2>5. vain' \in {vain, vain + InFlight}
    BY <1>6 DEF RestoreSucceeds
  <2>6. vain' \in 0..MaxCopies /\ vain' <= copies
    BY <2>4, <2>5, BoundsAssumption DEF VainCounted, TypeOK
  <2>7. did' \in [Restores -> Reads]
    BY <1>1, <1>2, <1>6 DEF RestoreSucceeds, Shapes, Applications, Reads
  <2>8. UNCHANGED <<nifi, ready, stores, backups, source, mode, capturing, stale>>
    BY <1>6 DEF RestoreSucceeds
  <2>9. VainCounted'
    <3>1. PICK v \in Int : vain' = v /\ v <= copies
      BY <2>6, BoundsAssumption
    <3>2. copies \in Int /\ copies' = copies
      BY <2>8, BoundsAssumption DEF nifi, TypeOK
    <3> QED
      BY <2>3, <3>1, <3>2 DEF VainCounted
  <2> QED
    BY <2>1, <2>2, <2>3, <2>6, <2>7, <2>8, <2>9 DEF TypeOK, Shapes, nifi, backups
<1> QED
  BY <1>4, <1>5, <1>6 DEF FinishRestore

\* A worker that is told that its copy is behind goes on with it.
LEMMA BehindTyped ==
  /\ \A x : capturing \in Captures \cup {Idle} => Behind(capturing, x) \in Captures \cup {Idle}
  /\ \A x : restoring \in Applications \cup {Idle} =>
       /\ Behind(restoring, x) \in Applications \cup {Idle}
       /\ (Behind(restoring, x) = Idle) = (restoring = Idle)
       /\ Behind(restoring, x).at = restoring.at
       /\ restoring # Idle => Behind(restoring, x).id = restoring.id
BY DEF Behind, Captures, Applications, Idle

\* Users, Kubernetes, NiFi and a restart of the operator keep the types.
LEMMA OthersTyped ==
  ASSUME TypeInv,
         \/ ClusterChanges \/ EditCanvas \/ RequestEnds \/ Crash
         \/ \E b \in Backups : \/ DeleteBackup(b)
                               \/ \E n \in Stores : EditBackup(b, n) \/ RecreateBackup(b, n)
         \/ \E r \in Restores : \/ DeleteRestore(r)
                                \/ \E s \in References, m \in {"Import", "Replace"} : EditRestore(r, s, m)
         \/ \E n \in Stores : Collect(n)
  PROVE  TypeInv'
<1> USE DEF TypeInv
<1>1. CASE ClusterChanges
  BY <1>1, EventCounted DEF ClusterChanges, TypeOK, Shapes, VainCounted, InFlight, nifi, backups, restores
<1>2. CASE EditCanvas
  <2>1. flow' \in Contents
    BY <1>2, BoundsAssumption DEF EditCanvas, TypeOK, Contents
  <2> QED
    BY <1>2, <2>1 DEF EditCanvas, TypeOK, Shapes, VainCounted, InFlight, backups, restores
<1>3. CASE RequestEnds
  <2>1. flow' \in Contents /\ strays' \subseteq Contents
    BY <1>3, BoundsAssumption DEF RequestEnds, TypeOK, Contents, Damaged, ReplaceRequests
  <2>2. request' \in ReplaceRequests
    BY <1>3 DEF RequestEnds, TypeOK, ReplaceRequests
  <2>3. events' \in 0..MaxEvents
    BY <1>3, EventCounted DEF RequestEnds, TypeOK
  <2> QED
    BY <1>3, <2>1, <2>2, <2>3 DEF RequestEnds, TypeOK, Shapes, VainCounted, InFlight, backups, restores
<1>4. CASE Crash
  <2>1. InFlight' = 0 /\ restoring'.at = "idle"
    BY <1>4 DEF Crash, InFlight, Idle
  <2>2. InFlight \in {0, 1}
    BY DEF InFlight
  <2>3. vain' \in 0..MaxCopies /\ vain' <= copies
    BY <1>4, <2>2, BoundsAssumption DEF Crash, VainCounted, TypeOK
  <2>4. VainCounted'
    BY <1>4, <2>1, <2>3, BoundsAssumption DEF Crash, VainCounted, TypeOK
  <2>5. /\ request' \in ReplaceRequests
        /\ strays' \subseteq Contents
    BY <1>4 DEF Crash, DeleteRequest, TypeOK, ReplaceRequests
  <2> QED
    BY <1>4, <2>3, <2>4, <2>5, EventCounted DEF Crash, TypeOK, Shapes, backups, restores
<1>5. ASSUME NEW b \in Backups, NEW n \in Stores, DeleteBackup(b) \/ EditBackup(b, n) \/ RecreateBackup(b, n)
      PROVE  TypeInv'
  <2>1. Blank \in BackupStatuses
    BY BoundsAssumption DEF Blank, Phases, None, Contents, BackupStatuses
  <2>2. /\ backup' \in [Backups -> BackupStatuses]
        /\ target' \in [Backups -> Stores]
    BY <1>5, <2>1 DEF DeleteBackup, EditBackup, RecreateBackup, TypeOK
  <2>3. uid' \in [Backups -> 0..MaxUids] /\ uids' \in 0..MaxUids
    BY <1>5, BoundsAssumption DEF DeleteBackup, EditBackup, RecreateBackup, TypeOK
  <2>4. capturing' \in Captures \cup {Idle}
    BY <1>5, BehindTyped DEF DeleteBackup, EditBackup, RecreateBackup, Shapes
  <2>5. events' \in 0..MaxEvents
    BY <1>5, EventCounted DEF DeleteBackup, EditBackup, RecreateBackup, TypeOK
  <2>6. UNCHANGED <<nifi, ready, stores, restores, restoring, did, vain, stale>>
    BY <1>5 DEF DeleteBackup, EditBackup, RecreateBackup
  <2> QED
    BY <2>2, <2>3, <2>4, <2>5, <2>6 DEF TypeOK, Shapes, VainCounted, InFlight, nifi, restores
<1>6. ASSUME NEW r \in Restores, NEW s \in References, NEW m \in {"Import", "Replace"},
             DeleteRestore(r) \/ EditRestore(r, s, m)
      PROVE  TypeInv'
  <2>1. source' \in [Restores -> References] /\ mode' \in [Restores -> {"Import", "Replace"}]
    BY <1>6 DEF DeleteRestore, EditRestore, TypeOK, Shapes
  <2>2. restore' \in [Restores -> RestoreStatuses]
    BY <1>6, RestoreMarksTyped DEF DeleteRestore, EditRestore, TypeOK
  <2>3. restoring' = Behind(restoring, r)
    BY <1>6 DEF DeleteRestore, EditRestore
  <2>4. UNCHANGED <<nifi, ready, stores, backups, capturing, did, vain, stale>>
    BY <1>6 DEF DeleteRestore, EditRestore
  <2>5. restoring' \in Applications \cup {Idle} /\ InFlight' = InFlight
    BY <2>3, BehindTyped DEF Shapes, InFlight
  <2>6. VainCounted'
    BY <2>3, <2>4, <2>5, BehindTyped DEF VainCounted, Shapes, nifi, Idle
  <2> QED
    BY <1>6, <2>1, <2>2, <2>4, <2>5, <2>6, EventCounted DEF DeleteRestore, EditRestore, TypeOK, Shapes,
       nifi, backups
<1>7. ASSUME NEW n \in Stores, Collect(n)
      PROVE  TypeInv'
  <2>1. NoStore \in Holdings
    BY BoundsAssumption DEF NoStore, None, Contents, Holdings
  <2> QED
    BY <1>7, <2>1 DEF Collect, TypeOK, Shapes, VainCounted, InFlight, nifi, backups, restores
<1>8. CASE \E b \in Backups : DeleteBackup(b)
  <2>1. PICK b \in Backups : DeleteBackup(b)
    BY <1>8
  <2>2. target[b] \in Stores
    BY DEF TypeOK
  <2> QED
    BY <1>5, <2>1, <2>2
<1>9. CASE \E r \in Restores : DeleteRestore(r)
  <2>1. PICK r \in Restores : DeleteRestore(r)
    BY <1>9
  <2>2. source[r] \in References
    BY DEF Shapes
  <2> QED
    BY <1>6, <2>1, <2>2
<1> QED
  BY <1>1, <1>2, <1>3, <1>4, <1>5, <1>6, <1>7, <1>8, <1>9

\* Every step keeps the types.
LEMMA StepTyped == TypeInv /\ [Next]_vars => TypeInv'
<1> SUFFICES ASSUME TypeInv, [Next]_vars PROVE TypeInv'
  OBVIOUS
<1>1. CASE UNCHANGED vars
  BY <1>1 DEF vars, nifi, backups, restores, TypeInv, TypeOK, Shapes, VainCounted, InFlight
<1> QED
  BY <1>1, BackupTyped, StartRestoreTyped, FinishRestoreTyped, OthersTyped DEF Next, References

-----------------------------------------------------------------------------
(* A backup that succeeded stays what it was *)

SucceededExists == \A b \in Backups : backup[b].phase = "Succeeded" => Exists(b)

\* What a backup worker with a current copy stored is still there when it writes the status.
CaptureHeld ==
  capturing # Idle /\ capturing.current =>
    /\ Exists(capturing.of) /\ backup[capturing.of].phase # "Succeeded"
    /\ stores[capturing.to] =
         [content |-> capturing.content, owner |-> capturing.of, uid |-> uid[capturing.of]]

KeptInv == SucceededExists /\ CaptureHeld /\ CapturedIsKept

\* What the steps that are not about backups leave alone.
Elsewhere ==
  UNCHANGED <<stores, target, uid, uids, backup, capturing>> /\ (stale => stale')

\* Restores, the canvas and the cluster leave backups alone.
LEMMA RestoresElsewhere ==
  ASSUME TypeInv,
         \/ FinishRestore \/ ClusterChanges \/ EditCanvas \/ RequestEnds \/ UNCHANGED vars
         \/ \E r \in Restores : \/ StartRestore(r) \/ DeleteRestore(r)
                                \/ \E s \in References, m \in {"Import", "Replace"} : EditRestore(r, s, m)
  PROVE  Elsewhere
<1> USE DEF Elsewhere, backups
<1>1. CASE FinishRestore
  <2>1. UNCHANGED <<stores, backups, capturing, stale>>
    BY <1>1 DEF FinishRestore, ReplaceCompletes, ReplaceFails, PollFails, RestoreSucceeds
  <2> QED
    BY <2>1
<1>2. CASE ClusterChanges \/ EditCanvas \/ RequestEnds \/ UNCHANGED vars
  BY <1>2 DEF ClusterChanges, EditCanvas, RequestEnds, vars
<1>3. ASSUME NEW r \in Restores, StartRestore(r)
      PROVE  Elsewhere
  <2>1. CASE RestoreWaits(r) \/ RestoreFails(r) \/ ImportUnanswered(r)
    BY <2>1 DEF RestoreWaits, RestoreFails, ImportUnanswered
  <2>2. CASE ImportProcessGroup(r) \/ CreateReplaceRequest(r)
    <3>1. stale => stale'
      BY <2>2, Zenon DEF ImportProcessGroup, CreateReplaceRequest, ResolveRestoreSource
    <3> QED
      BY <2>2, <3>1 DEF ImportProcessGroup, CreateReplaceRequest
  <2> QED
    BY <1>3, <2>1, <2>2 DEF StartRestore
<1>4. ASSUME NEW r \in Restores, NEW s, NEW m, DeleteRestore(r) \/ EditRestore(r, s, m)
      PROVE  Elsewhere
  BY <1>4 DEF DeleteRestore, EditRestore
<1> QED
  BY <1>1, <1>2, <1>3, <1>4

\* A worker whose copy is current was not told otherwise.
LEMMA BehindCurrent ==
  ASSUME TypeInv, NEW x
  PROVE  /\ Behind(capturing, x) # Idle /\ Behind(capturing, x).current =>
              Behind(capturing, x) = capturing /\ capturing.of # x
         /\ Behind(restoring, x) # Idle /\ Behind(restoring, x).current =>
              Behind(restoring, x) = restoring /\ restoring.of # x
BY DEF TypeInv, Shapes, Behind, Captures, Applications

\* A failing or waiting reconcile touches one backup, which had not succeeded and has not now.
LEMMA MarkedBackup ==
  ASSUME TypeInv, NEW b \in Backups, AwaitCluster(b) \/ CaptureFails(b)
  PROVE  /\ UNCHANGED <<stores, target, uid, uids, capturing, stale>> /\ capturing = Idle
         /\ backup[b].phase # "Succeeded" /\ backup'[b].phase # "Succeeded"
         /\ \A c \in Backups : c # b => backup'[c] = backup[c]
<1>1. /\ UNCHANGED <<stores, target, uid, uids, capturing, stale>> /\ capturing = Idle
      /\ backup[b].phase # "Succeeded"
  BY DEF AwaitCluster, CaptureFails, Due
<1>2. /\ MarkBackupWaiting(b).phase = "Pending" /\ MarkBackupFailed(b).phase = "Failed"
      /\ backup \in [Backups -> BackupStatuses]
  BY DEF TypeInv, TypeOK, BackupStatuses, MarkBackupWaiting, MarkBackupFailed
<1>3. \/ backup' = backup
      \/ \E s \in {MarkBackupWaiting(b), MarkBackupFailed(b)} : backup' = [backup EXCEPT ![b] = s]
  BY DEF AwaitCluster, CaptureFails, SaveBackup
<1> QED
  BY <1>1, <1>2, <1>3

\* The last write of a capture: nothing, or the success of the backup that was captured.
LEMMA SavedBackup ==
  ASSUME TypeInv, BackupSucceeds
  PROVE  /\ UNCHANGED <<stores, target, uid, uids, stale>> /\ capturing' = Idle
         /\ capturing \in Captures
         /\ \/ backup' = backup
            \/ /\ capturing.current
               /\ backup' = [backup EXCEPT ![capturing.of] =
                    [phase |-> "Succeeded", store |-> capturing.to, digest |-> capturing.content]]
<1>1. capturing \in Captures
  <2>1. Idle.at = "idle" /\ capturing.at = "stored"
    BY DEF BackupSucceeds, Idle
  <2> QED
    BY <2>1 DEF TypeInv, Shapes
<1> QED
  BY <1>1 DEF BackupSucceeds, SaveBackup, MarkBackupSucceeded

\* What users do to one backup.
LEMMA EditedBackup ==
  ASSUME TypeInv, NEW b \in Backups, NEW n \in Stores,
         DeleteBackup(b) \/ EditBackup(b, n) \/ RecreateBackup(b, n)
  PROVE  /\ UNCHANGED <<stores, stale>>
         /\ \A c \in Backups : c # b => backup'[c] = backup[c] /\ uid'[c] = uid[c]
         /\ \/ DeleteBackup(b) /\ uid'[b] = 0 /\ backup'[b].phase # "Succeeded" /\ uids' = uids
            \/ EditBackup(b, n) /\ uid'[b] = uid[b] /\ backup'[b] = backup[b] /\ uids' = uids
            \/ /\ RecreateBackup(b, n) /\ uid[b] = 0 /\ uid'[b] = uids + 1
               /\ backup'[b] = backup[b] /\ uids' = uids + 1
         /\ \/ capturing' = Behind(capturing, b)
            \/ capturing' = capturing /\ uid[b] = 0
<1>1. Blank.phase = "Pending" /\ uid \in [Backups -> 0..MaxUids] /\ backup \in [Backups -> BackupStatuses]
  BY DEF Blank, TypeInv, TypeOK
<1>2. CASE DeleteBackup(b)
  BY <1>1, <1>2 DEF DeleteBackup
<1>3. CASE EditBackup(b, n)
  BY <1>1, <1>3 DEF EditBackup
<1>4. CASE RecreateBackup(b, n)
  BY <1>1, <1>4 DEF RecreateBackup, Exists
<1> QED
  BY <1>2, <1>3, <1>4

\* A backup's success, its store and what is on its way there stay together.
LEMMA KeptStep ==
  ASSUME TypeInv, TypeInv', KeptInv, [Next]_vars
  PROVE  KeptInv'
<1> USE DEF KeptInv
<1>1. CASE Elsewhere
  BY <1>1 DEF Elsewhere, SucceededExists, CaptureHeld, CapturedIsKept, Exists
<1>2. CASE Crash
  <2>1. UNCHANGED <<stores, uid, backup, stale>> /\ capturing' = Idle
    BY <1>2 DEF Crash, backups
  <2> QED
    BY <2>1 DEF SucceededExists, CaptureHeld, CapturedIsKept, Exists
<1>3. ASSUME NEW b \in Backups, AwaitCluster(b) \/ CaptureFails(b)
      PROVE  KeptInv'
  <2>1. /\ UNCHANGED <<stores, uid, stale>> /\ capturing' = Idle
        /\ \A c \in Backups : backup'[c].phase = "Succeeded" => backup'[c] = backup[c]
    BY <1>3, MarkedBackup
  <2> QED
    BY <2>1 DEF SucceededExists, CaptureHeld, CapturedIsKept, Exists
<1>4. ASSUME NEW b \in Backups, Capture(b)
      PROVE  KeptInv'
  <2>1. UNCHANGED <<uid, backup>> /\ Exists(b) /\ MayControl(b, target[b]) /\ target[b] \in Stores
    BY <1>4 DEF Capture, backups, TypeInv, TypeOK
  <2>2. stores' = [stores EXCEPT ![target[b]] = [content |-> flow, owner |-> b, uid |-> uid[b]]]
    BY <1>4 DEF Capture
  <2>3. capturing' = [at |-> "stored", of |-> b, to |-> target[b], content |-> flow, current |-> Due(b)]
    BY <1>4 DEF Capture
  <2>4. stores'[target[b]] = [content |-> flow, owner |-> b, uid |-> uid[b]]
    BY <2>1, <2>2 DEF TypeInv, TypeOK
  <2>5. CaptureHeld'
    BY <2>1, <2>3, <2>4 DEF CaptureHeld, Due, Exists
  <2>6. ~stale' => Due(b) /\ ~stale
    BY <1>4, Zenon DEF Capture
  <2>7. ASSUME ~stale', NEW c \in Backups, backup[c].phase = "Succeeded"
        PROVE  stores'[backup[c].store] = stores[backup[c].store]
    <3>1. c # b
      BY <2>6, <2>7 DEF Due
    <3>2. stores[backup[c].store] = [content |-> backup[c].digest, owner |-> c, uid |-> uid[c]]
      BY <2>6, <2>7, Zenon DEF CapturedIsKept
    <3>3. target[b] # backup[c].store
      BY <2>1, <3>1, <3>2, NamesAssumption DEF MayControl
    <3> QED
      BY <2>2, <3>3 DEF TypeInv, TypeOK
  <2>8. CapturedIsKept'
    BY <2>1, <2>6, <2>7 DEF CapturedIsKept
  <2> QED
    BY <2>1, <2>5, <2>8 DEF SucceededExists, Exists
<1>5. CASE BackupSucceeds
  <2>1. UNCHANGED <<stores, uid, stale>> /\ capturing' = Idle /\ capturing \in Captures
    BY <1>5, SavedBackup
  <2>2. CASE backup' = backup
    BY <2>1, <2>2 DEF SucceededExists, CaptureHeld, CapturedIsKept, Exists
  <2>3. CASE /\ capturing.current
             /\ backup' = [backup EXCEPT ![capturing.of] =
                  [phase |-> "Succeeded", store |-> capturing.to, digest |-> capturing.content]]
    <3>1. capturing # Idle /\ capturing.of \in Backups
      BY <1>5, <2>1 DEF BackupSucceeds, Captures, Idle
    <3>2. /\ Exists(capturing.of)
          /\ stores[capturing.to] =
               [content |-> capturing.content, owner |-> capturing.of, uid |-> uid[capturing.of]]
      BY <2>3, <3>1 DEF CaptureHeld
    <3>3. /\ backup'[capturing.of] =
               [phase |-> "Succeeded", store |-> capturing.to, digest |-> capturing.content]
          /\ \A c \in Backups : c # capturing.of => backup'[c] = backup[c]
      BY <2>3, <3>1 DEF TypeInv, TypeOK
    <3>4. SucceededExists'
      BY <2>1, <3>2, <3>3 DEF SucceededExists, Exists
    <3>5. CapturedIsKept'
      BY <2>1, <3>2, <3>3 DEF CapturedIsKept
    <3> QED
      BY <2>1, <3>4, <3>5 DEF CaptureHeld
  <2> QED
    BY <1>5, <2>2, <2>3, SavedBackup
<1>6. ASSUME NEW b \in Backups, NEW n \in Stores, DeleteBackup(b) \/ EditBackup(b, n) \/ RecreateBackup(b, n)
      PROVE  KeptInv'
  <2>1. UNCHANGED <<stores, stale>>
    BY <1>6, EditedBackup
  <2>2. ASSUME NEW c \in Backups, backup'[c].phase = "Succeeded"
        PROVE  backup'[c] = backup[c] /\ uid'[c] = uid[c]
    BY <1>6, <2>2, EditedBackup DEF SucceededExists, Exists
  <2>3. SucceededExists'
    BY <2>2 DEF SucceededExists, Exists
  <2>4. CapturedIsKept'
    BY <2>1, <2>2 DEF CapturedIsKept
  <2>5. ASSUME capturing' # Idle, capturing'.current
        PROVE  /\ capturing' = capturing /\ capturing.of # b /\ capturing.of \in Backups
    <3>1. capturing' \in Captures
      BY <2>5 DEF TypeInv, Shapes
    <3>2. CASE capturing' = Behind(capturing, b)
      BY <2>5, <3>1, <3>2, BehindCurrent DEF Captures
    <3>3. CASE capturing' = capturing /\ uid[b] = 0
      BY <2>5, <3>1, <3>3 DEF CaptureHeld, Captures, Exists
    <3> QED
      BY <1>6, <3>2, <3>3, EditedBackup
  <2>6. CaptureHeld'
    <3>1. SUFFICES ASSUME capturing' # Idle, capturing'.current
                   PROVE  /\ Exists(capturing.of)' /\ backup'[capturing'.of].phase # "Succeeded"
                          /\ stores'[capturing'.to] =
                               [content |-> capturing'.content, owner |-> capturing'.of,
                                uid |-> uid'[capturing'.of]]
      BY DEF CaptureHeld
    <3>2. capturing' = capturing /\ capturing.of # b /\ capturing.of \in Backups
      BY <2>5, <3>1
    <3>3. uid'[capturing.of] = uid[capturing.of] /\ backup'[capturing.of] = backup[capturing.of]
      BY <1>6, <3>2, EditedBackup
    <3> QED
      BY <2>1, <3>1, <3>2, <3>3 DEF CaptureHeld, Exists
  <2> QED
    BY <2>3, <2>4, <2>6
<1>7. ASSUME NEW n \in Stores, Collect(n)
      PROVE  KeptInv'
  <2>1. UNCHANGED <<uid, backup, capturing, stale>> /\ uid[stores[n].owner] # stores[n].uid
    BY <1>7 DEF Collect, backups
  <2>2. \A m \in Stores : m # n => stores'[m] = stores[m]
    BY <1>7 DEF Collect, TypeInv, TypeOK
  <2>3. \A v : \A m \in Stores, c \in Backups :
          stores[m] = [content |-> v, owner |-> c, uid |-> uid[c]] => stores'[m] = stores[m]
    BY <2>1, <2>2
  <2>4. CapturedIsKept'
    <3>1. \A c \in Backups : backup[c].store \in Stores
      BY DEF TypeInv, TypeOK, BackupStatuses
    <3> QED
      BY <2>1, <2>3, <3>1 DEF CapturedIsKept
  <2>5. CaptureHeld'
    <3>1. capturing # Idle => capturing.of \in Backups /\ capturing.to \in Stores
      BY DEF TypeInv, Shapes, Captures
    <3> QED
      BY <2>1, <2>3, <3>1 DEF CaptureHeld, Exists
  <2> QED
    BY <2>1, <2>4, <2>5 DEF SucceededExists, Exists
<1>8. CASE \E b \in Backups : DeleteBackup(b)
  <2>1. PICK b \in Backups : DeleteBackup(b)
    BY <1>8
  <2>2. target[b] \in Stores
    BY DEF TypeInv, TypeOK
  <2> QED
    BY <1>6, <2>1, <2>2
<1> QED
  BY <1>1, <1>2, <1>3, <1>4, <1>5, <1>6, <1>7, <1>8, RestoresElsewhere DEF Next, StartBackup, References

-----------------------------------------------------------------------------
(* What a restore read is what its backup says *)

UidsGiven == \A b \in Backups : uid[b] <= uids

\* What was read from a backup that still exists is what that backup captured.
ReadHeld(x) ==
  x.backup # Nobody =>
    /\ x.uid \in 1..uids
    /\ ~stale => (uid[x.backup] = x.uid =>
         backup[x.backup].phase = "Succeeded" /\ backup[x.backup].digest = x.content)

ReadsInv ==
  /\ UidsGiven
  /\ \A r \in Restores : ReadHeld(did[r])
  /\ restoring # Idle => ReadHeld(restoring)

\* No uid is given twice, and a success is never overwritten.
PastKept ==
  /\ uids' \in Nat /\ uids' >= uids /\ (stale => stale')
  /\ \A b \in Backups :
       /\ uid'[b] <= uids'
       /\ uid'[b] \in 1..uids => uid'[b] = uid[b]
       /\ uid'[b] = uid[b] /\ backup[b].phase = "Succeeded" => backup'[b] = backup[b]

\* Every step keeps the past.
LEMMA StepKeepsPast ==
  ASSUME TypeInv, KeptInv, UidsGiven, [Next]_vars
  PROVE  PastKept
<1>0. uids \in Nat /\ uid \in [Backups -> Nat]
  BY BoundsAssumption DEF TypeInv, TypeOK
<1>1. ASSUME UNCHANGED <<uid, uids>>, stale => stale',
             \A b \in Backups : backup[b].phase = "Succeeded" => backup'[b] = backup[b]
      PROVE  PastKept
  <2>1. stale => stale'
    BY <1>1
  <2> QED
    BY <1>0, <1>1, <2>1 DEF PastKept, UidsGiven
<1>2. CASE Elsewhere
  BY <1>1, <1>2 DEF Elsewhere
<1>3. CASE Crash \/ \E n \in Stores : Collect(n)
  BY <1>1, <1>3 DEF Crash, Collect, backups
<1>4. ASSUME NEW b \in Backups, AwaitCluster(b) \/ CaptureFails(b)
      PROVE  PastKept
  BY <1>1, <1>4, MarkedBackup
<1>5. ASSUME NEW b \in Backups, Capture(b)
      PROVE  PastKept
  <2>1. stale => stale'
    BY <1>5, Zenon DEF Capture
  <2> QED
    BY <1>1, <1>5, <2>1 DEF Capture, backups
<1>6. CASE BackupSucceeds
  <2>1. UNCHANGED <<uid, uids, stale>> /\ capturing \in Captures
    BY <1>6, SavedBackup
  <2>2. capturing # Idle
    BY <1>6 DEF BackupSucceeds, Idle
  <2>3. capturing.current => backup[capturing.of].phase # "Succeeded"
    BY <2>2 DEF KeptInv, CaptureHeld
  <2>4. \A b \in Backups : backup[b].phase = "Succeeded" => backup'[b] = backup[b]
    BY <1>6, <2>3, SavedBackup DEF TypeInv, TypeOK
  <2> QED
    BY <1>1, <2>1, <2>4
<1>7. ASSUME NEW b \in Backups, NEW n \in Stores, DeleteBackup(b) \/ EditBackup(b, n) \/ RecreateBackup(b, n)
      PROVE  PastKept
  <2>1. stale => stale'
    BY <1>7, EditedBackup
  <2>2. uids' \in Nat /\ uids' >= uids
    BY <1>0, <1>7, EditedBackup
  <2>3. ASSUME NEW c \in Backups
        PROVE  /\ uid'[c] <= uids'
               /\ uid'[c] \in 1..uids => uid'[c] = uid[c]
               /\ uid'[c] = uid[c] /\ backup[c].phase = "Succeeded" => backup'[c] = backup[c]
    <3>1. backup[c].phase = "Succeeded" => uid[c] # 0
      BY DEF KeptInv, SucceededExists, Exists
    <3>2. uid[c] <= uids /\ uid[c] \in Nat
      BY <1>0 DEF UidsGiven
    <3>3. \/ backup'[c] = backup[c] /\ uid'[c] = uid[c] /\ (uids' = uids \/ uids' = uids + 1)
          \/ uid'[c] = 0 /\ uids' = uids
          \/ uid'[c] = uids + 1 /\ uid[c] = 0 /\ uids' = uids + 1
      BY <1>7, EditedBackup
    <3> QED
      BY <1>0, <3>1, <3>2, <3>3
  <2> QED
    BY <2>1, <2>2, <2>3 DEF PastKept
<1>8. CASE \E b \in Backups : DeleteBackup(b)
  <2>1. PICK b \in Backups : DeleteBackup(b)
    BY <1>8
  <2>2. target[b] \in Stores
    BY DEF TypeInv, TypeOK
  <2> QED
    BY <1>7, <2>1, <2>2
<1> QED
  BY <1>2, <1>3, <1>4, <1>5, <1>6, <1>7, <1>8, RestoresElsewhere DEF Next, StartBackup, References

\* What the worker of the restore controller reads holds.
LEMMA NewReadHeld ==
  ASSUME TypeInv, KeptInv, UidsGiven, NEW r \in Restores, SourceThere(r),
         NEW at, NEW id, Working(r, at, id), UNCHANGED <<uid, uids, backup>>, stale => stale'
  PROVE  ReadHeld(restoring)'
<1>1. /\ restoring'.backup = (IF FromBackup(r) THEN source[r].backup ELSE Nobody)
      /\ FromBackup(r) => restoring'.uid = uid[source[r].backup]
      /\ restoring'.content = Snapshot(r)
  BY DEF Working
<1>2. CASE ~FromBackup(r)
  BY <1>1, <1>2 DEF ReadHeld
<1>3. CASE FromBackup(r)
  <2> DEFINE b == source[r].backup
  <2>1. b \in Backups
    BY <1>3 DEF TypeInv, Shapes, References, FromBackup
  <2>2. uid[b] # 0 /\ backup[b].phase = "Succeeded" /\ Snapshot(r) = stores[backup[b].store].content
    BY <1>3 DEF SourceThere, Exists, Snapshot, SourceStore, BackupStore
  <2>3. uid[b] \in 1..uids
    BY <2>1, <2>2, BoundsAssumption DEF UidsGiven, TypeInv, TypeOK
  <2>4. ASSUME ~stale'
        PROVE  backup[b].digest = Snapshot(r)
    <3>1. stores[backup[b].store] = [content |-> backup[b].digest, owner |-> b, uid |-> uid[b]]
      BY <2>1, <2>2, <2>4, Zenon DEF KeptInv, CapturedIsKept
    <3> QED
      BY <2>2, <3>1
  <2>5. restoring'.backup = b /\ restoring'.uid = uid[b] /\ restoring'.content = Snapshot(r)
    BY <1>1, <1>3
  <2> HIDE DEF b
  <2> QED
    BY <2>1, <2>2, <2>3, <2>4, <2>5 DEF ReadHeld
<1> QED
  BY <1>2, <1>3

\* What the worker of the restore controller holds in the next state, and what restores
\* have read.
LEMMA NextReads ==
  ASSUME TypeInv, [Next]_vars
  PROVE  /\ \/ restoring' \in {Idle, restoring}
            \/ \E r \in Restores : restoring' = Behind(restoring, r)
            \/ restoring # Idle /\ restoring' = [restoring EXCEPT !.at = "applied"]
            \/ /\ restoring = Idle /\ Elsewhere
               /\ \E r \in Restores, at \in {"polling", "applied"}, id \in 0..MaxCopies :
                    SourceThere(r) /\ Working(r, at, id)
         /\ \/ did' = did
            \/ /\ restoring # Idle /\ restoring.of \in Restores
               /\ did' = [did EXCEPT ![restoring.of] =
                    [backup |-> restoring.backup, uid |-> restoring.uid,
                     content |-> restoring.content]]
<1>1. CASE UNCHANGED <<restoring, did>>
  BY <1>1
<1>2. CASE UNCHANGED vars
  BY <1>1, <1>2 DEF vars
<1>3. CASE \/ BackupSucceeds \/ ClusterChanges \/ EditCanvas \/ RequestEnds
           \/ \E b \in Backups : \/ StartBackup(b) \/ DeleteBackup(b)
                                 \/ \E n \in Stores : EditBackup(b, n) \/ RecreateBackup(b, n)
           \/ \E n \in Stores : Collect(n)
  <2>1. UNCHANGED <<restoring, did>>
    BY <1>3 DEF BackupSucceeds, ClusterChanges, EditCanvas, RequestEnds, StartBackup, AwaitCluster,
       CaptureFails, Capture, DeleteBackup, EditBackup, RecreateBackup, Collect
  <2> QED
    BY <1>1, <2>1
<1>4. CASE Crash
  BY <1>4 DEF Crash
<1>5. CASE \E r \in Restores : \/ DeleteRestore(r)
                               \/ \E s \in References, m \in {"Import", "Replace"} : EditRestore(r, s, m)
  BY <1>5 DEF DeleteRestore, EditRestore
<1>6. ASSUME NEW r \in Restores, StartRestore(r)
      PROVE  /\ did' = did
             /\ \/ restoring' = restoring
                \/ /\ restoring = Idle /\ Elsewhere
                   /\ \E at \in {"polling", "applied"}, id \in 0..MaxCopies :
                        SourceThere(r) /\ Working(r, at, id)
  <2>1. CASE RestoreWaits(r) \/ RestoreFails(r) \/ ImportUnanswered(r)
    BY <2>1 DEF RestoreWaits, RestoreFails, ImportUnanswered
  <2>2. Elsewhere
    BY <1>6, RestoresElsewhere
  <2>3. CASE ImportProcessGroup(r)
    <3>1. copies + 1 \in 0..MaxCopies
      BY <2>3, BoundsAssumption DEF ImportProcessGroup, TypeInv, TypeOK
    <3> QED
      BY <2>2, <2>3, <3>1 DEF ImportProcessGroup, ResolveRestoreSource
  <2>4. CASE CreateReplaceRequest(r)
    <3>1. 0 \in 0..MaxCopies
      BY BoundsAssumption
    <3> QED
      BY <2>2, <2>4, <3>1 DEF CreateReplaceRequest, ResolveRestoreSource
  <2> QED
    BY <1>6, <2>1, <2>3, <2>4 DEF StartRestore
<1>7. CASE FinishRestore
  <2>1. restoring # Idle
    <3>1. restoring.at \in {"polling", "applied"}
      BY <1>7 DEF FinishRestore, ReplaceCompletes, ReplaceFails, PollFails, RestoreSucceeds
    <3>2. Idle.at = "idle"
      BY DEF Idle
    <3> QED
      BY <3>1, <3>2
  <2>2. restoring.of \in Restores
    BY <2>1 DEF TypeInv, Shapes, Applications
  <2>3. CASE ReplaceCompletes \/ ReplaceFails \/ PollFails
    BY <2>1, <2>3 DEF ReplaceCompletes, ReplaceFails, PollFails
  <2>4. CASE RestoreSucceeds
    BY <2>1, <2>2, <2>4 DEF RestoreSucceeds
  <2> QED
    BY <1>7, <2>3, <2>4 DEF FinishRestore
<1> QED
  BY <1>2, <1>3, <1>4, <1>5, <1>6, <1>7 DEF Next, References

\* What was read stays what the backup captured, for as long as that backup exists.
LEMMA ReadsStep ==
  ASSUME TypeInv, KeptInv, ReadsInv, [Next]_vars
  PROVE  ReadsInv'
<1>1. PastKept /\ UidsGiven /\ uids \in Nat
  BY StepKeepsPast, BoundsAssumption DEF ReadsInv, TypeInv, TypeOK
<1>2. UidsGiven'
  BY <1>1 DEF PastKept, UidsGiven
\* What holds of a read goes on to hold, wherever it is recorded.
<1>3. ASSUME NEW c \in Backups, NEW u \in 1..uids, NEW v,
             ~stale => (uid[c] = u => backup[c].phase = "Succeeded" /\ backup[c].digest = v)
      PROVE  /\ u \in 1..uids'
             /\ ~stale' => (uid'[c] = u => backup'[c].phase = "Succeeded" /\ backup'[c].digest = v)
  <2>1. u \in 1..uids'
    <3>1. uids' \in Nat /\ uids' >= uids
      BY <1>1 DEF PastKept
    <3> QED
      BY <1>1, <3>1
  <2>2. ASSUME ~stale', uid'[c] = u
        PROVE  backup'[c].phase = "Succeeded" /\ backup'[c].digest = v
    <3>1. ~stale
      BY <1>1, <2>2, Zenon DEF PastKept
    <3>2. uid[c] = u
      BY <1>1, <2>2 DEF PastKept
    <3>3. backup[c].phase = "Succeeded" /\ backup[c].digest = v
      BY <1>3, <3>1, <3>2, Zenon
    <3> QED
      BY <1>1, <2>2, <3>2, <3>3 DEF PastKept
  <2> QED
    BY <2>1, <2>2
<1>4. ASSUME NEW r \in Restores
      PROVE  ReadHeld(did[r])'
  <2>1. did[r].backup \in Backups \cup {Nobody}
    BY DEF TypeInv, Shapes, Reads
  <2>2. restoring # Idle => restoring.backup \in Backups \cup {Nobody}
    BY DEF TypeInv, Shapes, Applications
  <2>3. CASE /\ did'[r].backup = did[r].backup /\ did'[r].uid = did[r].uid
             /\ did'[r].content = did[r].content
    BY <1>3, <2>1, <2>3 DEF ReadsInv, ReadHeld
  <2>4. CASE /\ restoring # Idle
             /\ did'[r].backup = restoring.backup /\ did'[r].uid = restoring.uid
             /\ did'[r].content = restoring.content
    BY <1>3, <2>2, <2>4 DEF ReadsInv, ReadHeld
  <2>5. \/ did'[r] = did[r]
        \/ /\ restoring # Idle
           /\ did'[r] = [backup |-> restoring.backup, uid |-> restoring.uid,
                         content |-> restoring.content]
    BY NextReads DEF TypeInv, Shapes
  <2> QED
    BY <2>3, <2>4, <2>5
<1>5. ASSUME restoring' # Idle
      PROVE  ReadHeld(restoring)'
  <2>1. CASE /\ restoring # Idle
             /\ restoring'.backup = restoring.backup /\ restoring'.uid = restoring.uid
             /\ restoring'.content = restoring.content
    <3>1. restoring.backup \in Backups \cup {Nobody}
      BY <2>1 DEF TypeInv, Shapes, Applications
    <3> QED
      BY <1>3, <2>1, <3>1 DEF ReadsInv, ReadHeld
  <2>2. CASE restoring' = restoring
    BY <1>5, <2>1, <2>2
  <2>3. ASSUME NEW r \in Restores, restoring' = Behind(restoring, r)
        PROVE  ReadHeld(restoring)'
    <3>1. restoring # Idle
      BY <1>5, <2>3 DEF Behind
    <3>2. restoring \in Applications
      BY <3>1 DEF TypeInv, Shapes
    <3> QED
      BY <2>1, <2>3, <3>1, <3>2 DEF Behind, Applications
  <2>4. CASE restoring # Idle /\ restoring' = [restoring EXCEPT !.at = "applied"]
    <3>1. restoring \in Applications
      BY <2>4 DEF TypeInv, Shapes
    <3> QED
      BY <2>1, <2>4, <3>1 DEF Applications
  <2>5. ASSUME Elsewhere, NEW r \in Restores, NEW at, NEW id, SourceThere(r), Working(r, at, id)
        PROVE  ReadHeld(restoring)'
    <3>1. UNCHANGED <<uid, uids, backup>>
      BY <2>5 DEF Elsewhere
    <3>2. stale => stale'
      BY <2>5, Zenon DEF Elsewhere
    <3> QED
      BY <1>1, <2>5, <3>1, <3>2, NewReadHeld
  <2> QED
    BY <1>5, <2>2, <2>3, <2>4, <2>5, NextReads
<1> QED
  BY <1>2, <1>4, <1>5 DEF ReadsInv

-----------------------------------------------------------------------------
(* Every import is accounted for *)

Recorded == {r \in Restores : restore[r].phase = "Succeeded" /\ restore[r].id # 0}

\* A worker with a current copy works for a restore that has not succeeded, and every group
\* in NiFi is recorded, on its way to be recorded, or was imported in vain.
CountInv ==
  /\ restoring # Idle /\ restoring.current => restore[restoring.of].phase # "Succeeded"
  /\ copies <= vain + InFlight + Cardinality(Recorded)

\* The numbers that are counted, whatever the step.
LEMMA CountTypes ==
  ASSUME TypeInv
  PROVE  /\ copies \in Nat /\ vain \in Nat /\ InFlight \in {0, 1}
         /\ IsFiniteSet(Recorded) /\ Cardinality(Recorded) \in Nat
<1>1. Recorded \in SUBSET Restores
  BY DEF Recorded
<1>2. IsFiniteSet(Recorded)
  BY <1>1, NamesAssumption, FS_Subset
<1> QED
  BY <1>2, FS_CardinalityType, BoundsAssumption DEF TypeInv, TypeOK, InFlight

\* A step that touches the phase of no restore that succeeded records the same groups.
LEMMA SameRecorded ==
  ASSUME TypeInv,
         \A r \in Restores : \/ /\ restore'[r].phase = restore[r].phase
                                /\ restore'[r].id = restore[r].id
                             \/ restore[r].phase # "Succeeded" /\ restore'[r].phase # "Succeeded"
  PROVE  Recorded' = Recorded
BY DEF Recorded

\* The marks of a reconcile that does not succeed.
LEMMA MarkedRestore ==
  ASSUME TypeInv, NEW r \in Restores
  PROVE  /\ MarkRestoreWaiting(r).phase = "Pending" /\ MarkRestoreFailed(r).phase = "Failed"
         /\ restore \in [Restores -> RestoreStatuses]
BY DEF TypeInv, TypeOK, RestoreStatuses, MarkRestoreWaiting, MarkRestoreFailed

\* Imports and their records stay in step.
LEMMA CountStep ==
  ASSUME TypeInv, TypeInv', CountInv, [Next]_vars
  PROVE  CountInv'
<1>0. /\ copies \in Nat /\ vain \in Nat /\ InFlight \in {0, 1} /\ Cardinality(Recorded) \in Nat
      /\ IsFiniteSet(Recorded) /\ copies <= vain + InFlight + Cardinality(Recorded)
  BY CountTypes DEF CountInv
<1>1. CASE UNCHANGED <<copies, vain, restore, restoring>>
  BY <1>1 DEF CountInv, InFlight, Recorded
<1>2. CASE \/ UNCHANGED vars \/ BackupSucceeds \/ ClusterChanges \/ EditCanvas \/ RequestEnds
           \/ \E b \in Backups : \/ StartBackup(b) \/ DeleteBackup(b)
                                 \/ \E n \in Stores : EditBackup(b, n) \/ RecreateBackup(b, n)
           \/ \E n \in Stores : Collect(n)
  <2>1. UNCHANGED <<copies, vain, restore, restoring>>
    BY <1>2 DEF vars, nifi, restores, BackupSucceeds, ClusterChanges, EditCanvas, RequestEnds, StartBackup,
       AwaitCluster, CaptureFails, Capture, DeleteBackup, EditBackup, RecreateBackup, Collect
  <2> QED
    BY <1>1, <2>1
<1>3. CASE Crash
  <2>1. /\ copies' = copies /\ vain' = vain + InFlight /\ restore' = restore /\ restoring' = Idle
    BY <1>3 DEF Crash, restores
  <2>2. InFlight' = 0 /\ Recorded' = Recorded
    BY <2>1 DEF InFlight, Recorded
  <2>3. vain + InFlight + 0 + Cardinality(Recorded) >= copies
    BY <1>0
  <2> QED
    BY <1>0, <2>1, <2>2, <2>3 DEF CountInv
<1>4. ASSUME NEW r \in Restores, RestoreWaits(r) \/ RestoreFails(r)
      PROVE  CountInv'
  <2>1. restoring = Idle /\ UNCHANGED <<copies, vain, restoring>> /\ restore[r].phase # "Succeeded"
    BY <1>4 DEF RestoreWaits, RestoreFails, nifi, Wanted
  <2>2. \/ restore' = restore
        \/ \E s \in {MarkRestoreWaiting(r), MarkRestoreFailed(r)} : restore' = [restore EXCEPT ![r] = s]
    BY <1>4 DEF RestoreWaits, RestoreFails, SaveRestore
  <2>3. Recorded' = Recorded
    BY <2>1, <2>2, MarkedRestore, SameRecorded
  <2> QED
    BY <2>1, <2>3 DEF CountInv, InFlight
<1>5. ASSUME NEW r \in Restores, ImportUnanswered(r)
      PROVE  CountInv'
  <2>1. /\ restoring = Idle /\ restoring' = restoring /\ restore[r].phase # "Succeeded"
        /\ copies' = copies + 1 /\ vain' = vain + 1
        /\ restore' = [restore EXCEPT ![r] = MarkRestoreFailed(r)]
    BY <1>5 DEF ImportUnanswered, Wanted
  <2>2. Recorded' = Recorded
    BY <2>1, MarkedRestore, SameRecorded
  <2>3. InFlight = 0 /\ InFlight' = 0
    BY <2>1 DEF InFlight
  <2> QED
    BY <1>0, <2>1, <2>2, <2>3 DEF CountInv
<1>6. ASSUME NEW r \in Restores, NEW m, NEW at \in {"polling", "applied"}, NEW id \in 0..MaxCopies,
             ResolveRestoreSource(r, m), Working(r, at, id), UNCHANGED <<vain, restore>>
      PROVE  /\ InFlight = 0 /\ Recorded' = Recorded
             /\ InFlight' = IF at = "applied" /\ id # 0 THEN 1 ELSE 0
             /\ restoring'.current => restore'[restoring'.of].phase # "Succeeded"
  <2>1. restoring = Idle /\ Recorded' = Recorded
    BY <1>6 DEF ResolveRestoreSource, Recorded
  <2>2. restoring'.at = at /\ restoring'.id = id /\ restoring'.of = r /\ restoring'.current = Wanted(r)
    BY <1>6 DEF Working
  <2>3. restoring' # Idle
    BY <2>2 DEF Idle
  <2> QED
    BY <1>6, <2>1, <2>2, <2>3 DEF InFlight, Wanted
<1>7. ASSUME NEW r \in Restores, ImportProcessGroup(r)
      PROVE  CountInv'
  <2>1. copies' = copies + 1 /\ copies + 1 \in 0..MaxCopies /\ vain' = vain
    BY <1>7, BoundsAssumption DEF ImportProcessGroup, TypeInv, TypeOK
  <2>2. ResolveRestoreSource(r, "Import") /\ Working(r, "applied", copies + 1) /\ UNCHANGED <<vain, restore>>
    BY <1>7 DEF ImportProcessGroup, restores
  <2>3. InFlight = 0 /\ InFlight' = 1 /\ Recorded' = Recorded
    BY <1>0, <1>6, <2>1, <2>2
  <2>4. restoring'.current => restore'[restoring'.of].phase # "Succeeded"
    BY <1>6, <2>1, <2>2
  <2> QED
    BY <1>0, <2>1, <2>3, <2>4 DEF CountInv
<1>8. ASSUME NEW r \in Restores, CreateReplaceRequest(r)
      PROVE  CountInv'
  <2>1. copies' = copies /\ 0 \in 0..MaxCopies /\ vain' = vain
    BY <1>8, BoundsAssumption DEF CreateReplaceRequest
  <2>2. ResolveRestoreSource(r, "Replace") /\ Working(r, "polling", 0) /\ UNCHANGED <<vain, restore>>
    BY <1>8 DEF CreateReplaceRequest, restores
  <2>3. InFlight = 0 /\ InFlight' = 0 /\ Recorded' = Recorded
    BY <1>6, <2>1, <2>2
  <2>4. restoring'.current => restore'[restoring'.of].phase # "Succeeded"
    BY <1>6, <2>1, <2>2
  <2> QED
    BY <1>0, <2>1, <2>3, <2>4 DEF CountInv
<1>9. CASE FinishRestore
  <2>1. restoring # Idle /\ restoring \in Applications
    <3>1. restoring.at \in {"polling", "applied"}
      BY <1>9 DEF FinishRestore, ReplaceCompletes, ReplaceFails, PollFails, RestoreSucceeds
    <3>2. Idle.at = "idle"
      BY DEF Idle
    <3> QED
      BY <3>1, <3>2 DEF TypeInv, Shapes
  <2>2. restoring.of \in Restores
    BY <2>1 DEF Applications
  <2>3. restoring.current => restore[restoring.of].phase # "Succeeded"
    BY <2>1 DEF CountInv
  <2>4. CASE ReplaceCompletes
    <3>1. UNCHANGED <<copies, vain, restore>> /\ restoring' = [restoring EXCEPT !.at = "applied"]
      BY <2>4 DEF ReplaceCompletes, restores
    <3>2. restoring'.of = restoring.of /\ restoring'.current = restoring.current /\ restoring'.id = restoring.id
      BY <2>1, <3>1 DEF Applications
    <3>3. InFlight = 0 /\ InFlight' = 0
      BY <2>4, <3>2 DEF ReplaceCompletes, InFlight, TypeInv, VainCounted
    <3>4. Recorded' = Recorded
      BY <3>1 DEF Recorded
    <3> QED
      BY <1>0, <2>3, <3>1, <3>2, <3>3, <3>4 DEF CountInv
  <2>5. CASE ReplaceFails \/ PollFails
    <3>1. UNCHANGED <<copies, vain>> /\ restoring' = Idle /\ restoring.at = "polling"
      BY <2>5 DEF ReplaceFails, PollFails
    <3>2. \/ restore' = restore
          \/ /\ restoring.current
             /\ restore' = [restore EXCEPT ![restoring.of] = MarkRestoreFailed(restoring.of)]
      BY <2>5 DEF ReplaceFails, PollFails, SaveRestore
    <3>3. Recorded' = Recorded
      BY <2>2, <2>3, <3>2, MarkedRestore, SameRecorded
    <3>4. InFlight = 0 /\ InFlight' = 0
      BY <3>1 DEF InFlight
    <3> QED
      BY <1>0, <3>1, <3>3, <3>4 DEF CountInv
  <2>6. CASE RestoreSucceeds
    <3>1. UNCHANGED copies /\ restoring' = Idle /\ restoring.at = "applied"
      BY <2>6 DEF RestoreSucceeds, nifi
    <3>2. InFlight' = 0
      BY <3>1 DEF InFlight
    <3>3. CASE restoring.current /\ events' = events
      <4>1. vain' = vain /\ ~Happens
        BY <2>6, <3>3, BoundsAssumption DEF RestoreSucceeds, Happens, TypeInv, TypeOK
      <4>2. restore' = [restore EXCEPT ![restoring.of] = MarkRestoreSucceeded(restoring.of, restoring.id)]
        BY <2>6, <3>3, <4>1 DEF RestoreSucceeds, SaveRestore
      <4>3. /\ restore'[restoring.of].phase = "Succeeded" /\ restore'[restoring.of].id = restoring.id
            /\ \A r \in Restores : r # restoring.of => restore'[r] = restore[r]
        BY <2>2, <4>2 DEF TypeInv, TypeOK, RestoreStatuses, MarkRestoreSucceeded
      <4>4. CASE restoring.id = 0
        <5>1. Recorded' = Recorded
          BY <2>2, <2>3, <3>3, <4>3, <4>4 DEF Recorded
        <5>2. InFlight = 0
          BY <4>4 DEF InFlight
        <5> QED
          BY <1>0, <3>1, <3>2, <4>1, <5>1, <5>2 DEF CountInv
      <4>5. CASE restoring.id # 0
        <5>1. Recorded' = Recorded \cup {restoring.of} /\ restoring.of \notin Recorded
          BY <2>2, <2>3, <3>3, <4>3, <4>5 DEF Recorded
        <5>2. Cardinality(Recorded') = Cardinality(Recorded) + 1
          BY <1>0, <5>1, FS_AddElement
        <5> QED
          BY <1>0, <3>1, <3>2, <4>1, <5>2 DEF CountInv
      <4> QED
        BY <4>4, <4>5
    <3>4. CASE ~(restoring.current /\ events' = events)
      <4>1. vain' = vain + InFlight /\ restore' = restore
        <5>1. vain' = vain + InFlight
          BY <2>6, <3>4, Zenon DEF RestoreSucceeds
        <5>2. restore' = restore
          BY <2>6, <3>4, Zenon DEF RestoreSucceeds, SaveRestore
        <5> QED
          BY <5>1, <5>2
      <4>2. Recorded' = Recorded
        BY <4>1 DEF Recorded
      <4> QED
        BY <1>0, <3>1, <3>2, <4>1, <4>2 DEF CountInv
    <3> QED
      BY <3>3, <3>4
  <2> QED
    BY <1>9, <2>4, <2>5, <2>6 DEF FinishRestore
<1>10. ASSUME NEW r \in Restores, NEW s, NEW m, DeleteRestore(r) \/ EditRestore(r, s, m)
       PROVE  CountInv'
  <2>1. UNCHANGED <<copies, vain>> /\ restoring' = Behind(restoring, r)
    BY <1>10 DEF DeleteRestore, EditRestore, nifi
  <2>2. restore' = restore \/ restore' = [restore EXCEPT ![r].there = FALSE]
    BY <1>10 DEF DeleteRestore, EditRestore
  <2>3. \A x \in Restores : restore'[x].phase = restore[x].phase /\ restore'[x].id = restore[x].id
    BY <2>2 DEF TypeInv, TypeOK, RestoreStatuses
  <2>4. Recorded' = Recorded
    BY <2>3, SameRecorded
  <2>5. InFlight' = InFlight
    BY <2>1, BehindTyped DEF InFlight, TypeInv, Shapes
  <2>6. ASSUME restoring' # Idle, restoring'.current
        PROVE  restore'[restoring'.of].phase # "Succeeded"
    <3>1. restoring' = restoring
      BY <2>1, <2>6, BehindCurrent
    <3>2. restoring.of \in Restores
      BY <2>6, <3>1 DEF TypeInv, Shapes, Applications
    <3> QED
      BY <2>3, <2>6, <3>1, <3>2 DEF CountInv
  <2> QED
    BY <1>0, <2>1, <2>4, <2>5, <2>6 DEF CountInv
<1> QED
  BY <1>2, <1>3, <1>4, <1>5, <1>7, <1>8, <1>9, <1>10 DEF Next, StartRestore

-----------------------------------------------------------------------------
(* Theorems *)

BackupInv == TypeInv /\ KeptInv /\ ReadsInv /\ CountInv

\* What holds of backups, restores and stores in every state.
THEOREM BackupInvariant == Spec => []BackupInv
<1>1. Init => BackupInv
  <2> SUFFICES ASSUME Init PROVE BackupInv
    OBVIOUS
  <2>1. TypeInv
    BY InitTyped
  <2>2. KeptInv
    BY DEF Init, KeptInv, SucceededExists, CaptureHeld, CapturedIsKept, Blank
  <2>3. UidsGiven
    <3>1. Cardinality(Backups) \in Nat
      BY NamesAssumption, FS_CardinalityType
    <3>2. uid \in [Backups -> 1..Cardinality(Backups)] /\ uids = Cardinality(Backups)
      BY UidsExist DEF Init
    <3> QED
      BY <3>1, <3>2 DEF UidsGiven
  <2>4. ReadsInv
    BY <2>3 DEF Init, ReadsInv, ReadHeld
  <2>5. CountInv
    <3>1. restoring = Idle /\ copies = 0 /\ vain = 0
      BY DEF Init
    <3> QED
      BY <2>1, <3>1, CountTypes DEF CountInv
  <2> QED
    BY <2>1, <2>2, <2>4, <2>5 DEF BackupInv
<1>2. BackupInv /\ [Next]_vars => BackupInv'
  BY StepTyped, KeptStep, ReadsStep, CountStep DEF BackupInv
<1> QED
  BY <1>1, <1>2, PTL DEF Spec

\* Every variable of backups and restores keeps its type: statuses, stores, uids and the
\* counts of groups imported and lost.
THEOREM TypeCorrect == Spec => []TypeOK
BY BackupInvariant, PTL DEF BackupInv, TypeInv

\* A backup that succeeded (reconcileBackup) keeps its store and its digest, for any number
\* of backups that want the same store, and of edits, deletions, crashes and lost writes.
THEOREM CapturesAreKept == Spec => []CapturedIsKept
BY BackupInvariant, PTL DEF BackupInv, KeptInv

\* What a restore (reconcileRestore) took from a backup is what that backup captured, and
\* every group in NiFi beyond the recorded ones is one whose answer or write was lost.
THEOREM RestoresAreTrue == Spec => []RestoredIsCaptured
<1>1. BackupInv => RestoredIsCaptured
  <2> SUFFICES ASSUME BackupInv PROVE RestoredIsCaptured
    OBVIOUS
  <2>1. \A r \in Restores : ReadHeld(did[r])
    BY DEF BackupInv, ReadsInv
  <2>2. copies <= vain + InFlight + Cardinality(Recorded)
    BY DEF BackupInv, CountInv
  <2> QED
    BY <2>1, <2>2 DEF RestoredIsCaptured, Recorded, ReadHeld
<1> QED
  BY <1>1, BackupInvariant, PTL

=============================================================================
