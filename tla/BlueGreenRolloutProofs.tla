----------------------- MODULE BlueGreenRolloutProofs -----------------------
(***************************************************************************)
(* Proofs about BlueGreenRollout for every set of boundaries, every set of *)
(* digests, every fault set and every bound.                               *)
(***************************************************************************)
EXTENDS BlueGreenRollout, FiniteSetTheorems, TLAPS

\* Ids are handed out in order: nothing in the status names a group not made yet.
IdsMade ==
  /\ st.pg <= made
  /\ st.ro.blue <= made
  /\ st.ro.cand <= made

\* The candidate is a group of its own and holds the target or nothing.
CandidateOwn ==
  st.ro.cand # 0 =>
    /\ st.ro.cand # st.ro.blue
    /\ group[st.ro.cand] \in {Absent, st.ro.target}

\* A group is retired only after the rollout that replaced it has ended.
RetiresAfterRollout == st.retiring # 0 => ~Active

\* The inductive invariant.
RolloutInv ==
  /\ TypeOK
  /\ IdsMade
  /\ CandidateOwn
  /\ RetiresAfterRollout
  /\ RetireSafe
  /\ RollbackTargetExists

-----------------------------------------------------------------------------
(* Types of the statuses the handlers write *)

\* A record of the rollout may be replaced by any record.
LEMMA RecordTyped ==
  ASSUME NEW s \in Statuses, NEW k \in ConnIds, NEW r \in Records
  PROVE  [s EXCEPT !.ro.recs[k] = r] \in Statuses
BY DEF Statuses, Rollouts

\* The progress of a switch is a change of one record.
LEMMA ProgressTyped ==
  ASSUME NEW s \in Statuses, NEW k \in ConnIds
  PROVE  /\ s.ro.recs[k] \in Records
         /\ [s.ro.recs[k] EXCEPT !.draining = TRUE] \in Records
         /\ [s.ro.recs[k] EXCEPT !.switched = TRUE] \in Records
         /\ \A c \in 0..MaxConns : [s.ro.recs[k] EXCEPT !.green = c] \in Records
<1>1. s.ro.recs[k] \in Records
  BY DEF Statuses, Rollouts
<1> QED
  BY <1>1 DEF Records

\* NoRollout is a rollout.
LEMMA NoRolloutTyped == NoRollout \in Rollouts /\ NoRollout.phase = "None"
BY BoundsAssumption, DigestAssumption DEF NoRollout, Rollouts, Phases, NoRecord, Records, ConnIds

\* NoRollback is a rollback.
LEMMA NoRollbackTyped == NoRollback \in [gen : Nat, digest : Digests]
BY DigestAssumption DEF NoRollback

\* Status().Update leaves a status that was written or the one that was there.
LEMMA SaveTyped ==
  ASSUME TypeOK, NEW s \in Statuses, Save(s)
  PROVE  st' \in Statuses /\ lost' \in 0..MaxLost /\ st' \in {s, st}
BY BoundsAssumption DEF Save, TypeOK

\* A reconcile that ends early leaves the status alone.
LEMMA CrashTyped ==
  ASSUME TypeOK, Crash
  PROVE  st' = st /\ st' \in Statuses /\ lost' \in 0..MaxLost
BY BoundsAssumption DEF Crash, TypeOK

\* snapshotDeploymentFailed keeps the type of a status.
LEMMA FailedTyped ==
  ASSUME NEW s \in Statuses
  PROVE  Failed(s) \in Statuses
BY DEF Failed, Statuses

\* markSnapshotDeploymentInSync keeps the type of a status.
LEMMA InSyncTyped ==
  ASSUME NEW s \in Statuses, NEW digest \in Digests
  PROVE  InSync(s, digest) \in Statuses
BY NoRolloutTyped, NoRollbackTyped DEF InSync, Statuses

\* blueGreenStartRollback keeps the type of a status.
LEMMA StartedRollbackTyped ==
  ASSUME st \in Statuses
  PROVE  StartedRollback \in Statuses
BY DEF StartedRollback, Failed, Statuses, Rollouts, Phases

-----------------------------------------------------------------------------
(* TypeOK is inductive *)

\* What every step must keep, when the canvas and the wiring stay as they are.
LEMMA StatusStep ==
  ASSUME TypeOK, NEW s \in Statuses, Save(s), UNCHANGED <<nifi, spec, dropped>>,
         fails' \in 0..MaxFails
  PROVE  TypeOK'
BY SaveTyped DEF TypeOK, nifi, groups, wiring, spec

\* A failing call counts against its bound.
LEMMA FailCounted ==
  ASSUME TypeOK
  PROVE  /\ \A call : CallFails(call) => fails' \in 0..MaxFails
         /\ CallsSucceed => fails' \in 0..MaxFails
BY BoundsAssumption DEF TypeOK, CallFails, CallsSucceed

\* blueGreenDeleteProcessGroup
LEMMA DeleteTyped ==
  ASSUME TypeOK, NEW g \in 0..MaxGroups, NEW started \in SUBSET GroupIds,
         DeleteProcessGroup(g, started)
  PROVE  /\ group' \in [GroupIds -> Digests \union {Absent}]
         /\ running' \subseteq GroupIds
BY DEF DeleteProcessGroup, TypeOK

\* blueGreenAbort
LEMMA AbortTyped ==
  ASSUME TypeOK, Abort, fails' \in 0..MaxFails
  PROVE  TypeOK'
<1>1. st.ro.cand \in 0..MaxGroups /\ running \in SUBSET GroupIds
  BY DEF TypeOK, Statuses, Rollouts
<1>2. group' \in [GroupIds -> Digests \union {Absent}] /\ running' \subseteq GroupIds
  BY <1>1, DeleteTyped DEF Abort
<1>3. [st EXCEPT !.ro = NoRollout] \in Statuses
  BY NoRolloutTyped DEF TypeOK, Statuses
<1>4. Failed([st EXCEPT !.ro = NoRollout]) \in Statuses
  BY <1>3, FailedTyped
<1>5. st' \in Statuses /\ lost' \in 0..MaxLost
  BY <1>4, SaveTyped DEF Abort
<1> QED
  BY <1>2, <1>5 DEF TypeOK, Abort, wiring, spec

\* A handler that only moves the rollout to another phase keeps the types.
LEMMA PhaseTyped ==
  ASSUME st \in Statuses, NEW phase \in Phases
  PROVE  [st EXCEPT !.ro.phase = phase] \in Statuses
BY DEF Statuses, Rollouts

\* The steps of reconcileSnapshotFlowDeployment before the rollout proper.
LEMMA OuterTyped ==
  ASSUME TypeOK,
         RetireBlue \/ CancelRollout \/ LiveNotFound \/ RequeueBlocked \/ MarkInSync
  PROVE  TypeOK'
<1>1. st \in Statuses /\ want \in Digests
  BY DEF TypeOK
<1>2. CASE RetireBlue
  <2>1. st.retiring \in 0..MaxGroups /\ running \in SUBSET GroupIds
    BY DEF TypeOK, Statuses
  <2>2. group' \in [GroupIds -> Digests \union {Absent}] /\ running' \subseteq GroupIds
    BY <1>2, <2>1, DeleteTyped DEF RetireBlue
  <2>3. [st EXCEPT !.retiring = 0] \in Statuses
    BY <1>1, BoundsAssumption DEF Statuses
  <2>4. st' \in Statuses /\ lost' \in 0..MaxLost
    BY <1>2, <2>3, SaveTyped DEF RetireBlue
  <2> QED
    BY <1>2, <2>2, <2>4 DEF TypeOK, RetireBlue, CallsSucceed, wiring, spec
<1>3. CASE CancelRollout
  BY <1>1, <1>3, StartedRollbackTyped, StatusStep DEF CancelRollout, TypeOK
<1>4. CASE LiveNotFound
  BY <1>1, <1>4, FailedTyped, StatusStep, FailCounted DEF LiveNotFound
<1>5. CASE RequeueBlocked
  BY <1>5 DEF RequeueBlocked, vars, nifi, groups, wiring, spec, TypeOK
<1>6. CASE MarkInSync
  BY <1>1, <1>6, FailedTyped, InSyncTyped, StatusStep, FailCounted DEF MarkInSync
<1> QED
  BY <1>2, <1>3, <1>4, <1>5, <1>6

\* Starting a rollout, deploying its candidate and waiting for it.
LEMMA CandidateTyped ==
  ASSUME TypeOK,
         \/ StartRollout \/ DeployCandidate
         \/ CandidateReady \/ CandidateUnreachable \/ CandidateExpires
  PROVE  TypeOK'
<1>1. st \in Statuses /\ want \in Digests /\ made \in GroupIds
  BY DEF TypeOK
<1>2. CASE StartRollout
  <2> DEFINE ro == [NoRollout EXCEPT !.phase = "DeployingCandidate", !.target = want,
                                     !.blue = st.pg]
  <2>1. st.pg \in 0..MaxGroups
    BY <1>1, BoundsAssumption DEF Statuses, GroupIds
  <2>2. ro \in Rollouts
    BY <1>1, <2>1, NoRolloutTyped DEF Rollouts, Phases
  <2>3. [st EXCEPT !.ro = ro] \in Statuses
    BY <1>1, <2>2 DEF Statuses
  <2>4. Failed([st EXCEPT !.ro = ro]) \in Statuses
    BY <2>3, FailedTyped
  <2> QED
    BY <1>2, <2>4, StatusStep DEF StartRollout, TypeOK
<1>3. CASE DeployCandidate
  <2>1. CASE CallFails("import") /\ Save(Failed(st)) /\ UNCHANGED <<group, made>>
    <3>1. UNCHANGED <<nifi, spec, dropped>>
      BY <1>3, <2>1 DEF DeployCandidate, nifi, groups
    <3> QED
      BY <1>1, <2>1, <3>1, FailedTyped, StatusStep, FailCounted
  <2>2. CASE /\ CallsSucceed /\ made < MaxGroups
             /\ made' = made + 1
             /\ group' = [group EXCEPT ![made'] = want]
             /\ Save([st EXCEPT !.ro.cand = made', !.ro.phase = "AwaitingReadiness"])
    <3>1. made' \in GroupIds
      BY <1>1, <2>2, BoundsAssumption DEF GroupIds
    <3>2. group' \in [GroupIds -> Digests \union {Absent}]
      BY <1>1, <2>2, <3>1 DEF TypeOK
    <3>3. made' \in 0..MaxGroups
      BY <3>1, BoundsAssumption DEF GroupIds
    <3>4. [st EXCEPT !.ro.cand = made', !.ro.phase = "AwaitingReadiness"] \in Statuses
      BY <1>1, <3>3 DEF Statuses, Rollouts, Phases
    <3>5. st' \in Statuses /\ lost' \in 0..MaxLost
      BY <2>2, <3>4, SaveTyped
    <3> QED
      BY <1>3, <2>2, <3>1, <3>2, <3>5 DEF DeployCandidate, TypeOK, CallsSucceed, wiring, spec
  <2> QED
    BY <1>3, <2>1, <2>2 DEF DeployCandidate
<1>4. CASE CandidateReady
  <2>1. [st EXCEPT !.ro.phase = "SwitchingTraffic"] \in Statuses
    BY <1>1, PhaseTyped DEF Phases
  <2> QED
    BY <1>4, <2>1, StatusStep DEF CandidateReady, TypeOK
<1>5. CASE CandidateUnreachable
  BY <1>1, <1>5, FailedTyped, StatusStep, FailCounted DEF CandidateUnreachable
<1>6. CASE CandidateExpires
  BY <1>6, AbortTyped, FailCounted DEF CandidateExpires
<1> QED
  BY <1>2, <1>3, <1>4, <1>5, <1>6

\* The steps of blueGreenSwitchTraffic that touch no connection.
LEMMA TrafficTyped ==
  ASSUME TypeOK, Inventory \/ InventoryFails \/ PortsFail \/ AllSwitched
  PROVE  TypeOK'
<1>1. st \in Statuses
  BY DEF TypeOK
<1>2. CASE Inventory
  <2> DEFINE keys == Attached(st.ro.blue)
             recs == [k \in ConnIds |-> IF k \in keys THEN [NoRecord EXCEPT !.orig = k]
                                                      ELSE NoRecord]
  <2>1. keys \subseteq ConnIds
    BY DEF TypeOK, Attached
  <2>2. recs \in [ConnIds -> Records]
    <3>1. 0 \in 0..MaxConns /\ \A k \in ConnIds : k \in 0..MaxConns
      BY BoundsAssumption DEF ConnIds
    <3>2. NoRecord \in Records /\ \A k \in ConnIds : [NoRecord EXCEPT !.orig = k] \in Records
      BY <3>1 DEF NoRecord, Records
    <3> QED
      BY <3>2
  <2> HIDE DEF keys, recs
  <2>3. [st EXCEPT !.ro.inv = TRUE, !.ro.keys = keys, !.ro.recs = recs] \in Statuses
    BY <1>1, <2>1, <2>2 DEF Statuses, Rollouts
  <2>4. Save([st EXCEPT !.ro.inv = TRUE, !.ro.keys = keys, !.ro.recs = recs])
    BY <1>2 DEF Inventory, keys, recs
  <2> QED
    BY <1>2, <2>3, <2>4, StatusStep DEF Inventory, TypeOK
<1>3. CASE InventoryFails
  BY <1>3, AbortTyped, FailCounted DEF InventoryFails
<1>4. CASE PortsFail
  BY <1>4, AbortTyped, FailCounted DEF PortsFail
<1>5. CASE AllSwitched
  <2>1. [st EXCEPT !.ro.phase = "Promoting"] \in Statuses
    BY <1>1, PhaseTyped DEF Phases
  <2> QED
    BY <1>5, <2>1, StatusStep DEF AllSwitched, TypeOK
<1> QED
  BY <1>2, <1>3, <1>4, <1>5

\* Stopping the producing side of a connection.
LEMMA StopTyped ==
  ASSUME TypeOK, NEW k \in ConnIds, StopSource(k)
  PROVE  stopped' \subseteq Boundaries \X (0..MaxGroups)
<1>1. wire[k].b \in Boundaries /\ wire[k].g \in 0..MaxGroups /\ 0 \in 0..MaxGroups
  BY BoundsAssumption DEF TypeOK, GroupIds
<1>2. Source(wire[k].b, wire[k].g) \in Boundaries \X (0..MaxGroups)
  BY <1>1 DEF Source
<1> QED
  BY <1>2 DEF StopSource, TypeOK

\* CreateConnection hands out the next id.
LEMMA ConnectTyped ==
  ASSUME TypeOK, NEW b \in Boundaries, NEW g \in GroupIds, NEW rest \in SUBSET conns,
         Connect(b, g, rest)
  PROVE  /\ wired' \in 0..MaxConns
         /\ conns' \subseteq ConnIds
         /\ rest \subseteq conns'
         /\ wire' \in [ConnIds -> [b : Boundaries, g : GroupIds]]
<1>1. wired' \in ConnIds /\ wired' \in 0..MaxConns
  BY BoundsAssumption DEF TypeOK, Connect, ConnIds
<1> QED
  BY <1>1 DEF TypeOK, Connect

\* blueGreenSwitchConnection
LEMMA SwitchTyped ==
  ASSUME TypeOK, NEW k \in ConnIds, SwitchStep(k)
  PROVE  TypeOK'
<1>1. st \in Statuses /\ StartedRollback \in Statuses
  BY StartedRollbackTyped DEF TypeOK
<1>2. CASE UnmatchedPort(k)
  BY <1>1, <1>2, StatusStep DEF UnmatchedPort, TypeOK
<1>3. CASE StopFails(k)
  BY <1>1, <1>3, StatusStep, FailCounted DEF StopFails
<1>4. CASE QueueFails(k)
  <2>1. st' \in Statuses /\ lost' \in 0..MaxLost /\ fails' \in 0..MaxFails
    BY <1>1, <1>4, SaveTyped, FailCounted DEF QueueFails
  <2> QED
    BY <1>4, <2>1, StopTyped DEF QueueFails, TypeOK, groups, wiring, spec
<1>5. CASE AwaitDrain(k)
  <2>1. [st EXCEPT !.ro.recs[k].draining = TRUE] \in Statuses
    BY <1>1, ProgressTyped, RecordTyped
  <2>2. st' \in Statuses /\ lost' \in 0..MaxLost
    BY <1>5, <2>1, SaveTyped DEF AwaitDrain
  <2> QED
    BY <1>5, <2>2, StopTyped DEF AwaitDrain, TypeOK, groups, wiring, spec
<1>6. CASE DrainExpires(k)
  <2>1. st' \in Statuses /\ lost' \in 0..MaxLost
    BY <1>1, <1>6, SaveTyped DEF DrainExpires
  <2> QED
    BY <1>6, <2>1, StopTyped DEF DrainExpires, TypeOK, groups, wiring, spec
<1>7. CASE DeleteFails(k)
  <2>1. st' \in Statuses /\ lost' \in 0..MaxLost /\ fails' \in 0..MaxFails
    BY <1>1, <1>7, SaveTyped, FailCounted DEF DeleteFails
  <2> QED
    BY <1>7, <2>1, StopTyped DEF DeleteFails, EmptyQueue, TypeOK, groups, wiring, spec
<1>8. CASE Switch(k)
  <2>1. wire[k].b \in Boundaries /\ st.ro.cand \in GroupIds
    <3>1. st.ro.cand # 0
      BY <1>8 DEF Switch, Switching, Exists
    <3> QED
      BY <1>1, <3>1, BoundsAssumption DEF TypeOK, Statuses, Rollouts, GroupIds
  <2>2. /\ wired' \in 0..MaxConns
        /\ conns' \subseteq ConnIds
        /\ conns \ {Orig(k)} \subseteq conns'
        /\ wire' \in [ConnIds -> [b : Boundaries, g : GroupIds]]
    BY <1>8, <2>1, ConnectTyped DEF Switch
  <2>3. [st EXCEPT !.ro.recs[k].green = wired', !.ro.recs[k].switched = TRUE] \in Statuses
    <3>1. [st EXCEPT !.ro.recs[k].green = wired'] \in Statuses
      BY <1>1, <2>2, ProgressTyped, RecordTyped
    <3> DEFINE t == [st EXCEPT !.ro.recs[k].green = wired']
    <3> HIDE DEF t
    <3>2. t \in Statuses
      BY <3>1 DEF t
    <3>3. [t EXCEPT !.ro.recs[k].switched = TRUE] \in Statuses
      BY <3>2, ProgressTyped, RecordTyped
    <3> QED
      BY <3>3 DEF t
  <2>4. st' \in Statuses /\ lost' \in 0..MaxLost
    BY <1>8, <2>3, SaveTyped DEF Switch
  <2> QED
    BY <1>8, <2>2, <2>4, StopTyped DEF Switch, EmptyQueue, TypeOK, groups, spec
<1>9. CASE SwitchTorn(k)
  <2>1. st' \in Statuses /\ lost' \in 0..MaxLost /\ fails' \in 0..MaxFails
    BY <1>1, <1>9, SaveTyped, CrashTyped, FailCounted DEF SwitchTorn
  <2> QED
    BY <1>9, <2>1, StopTyped DEF SwitchTorn, EmptyQueue, TypeOK, groups, spec
<1> QED
  BY <1>2, <1>3, <1>4, <1>5, <1>6, <1>7, <1>8, <1>9 DEF SwitchStep

\* Restarting sources only takes them off the stopped ones.
LEMMA RestartTyped ==
  ASSUME NEW sources, NEW before, Restart(sources, before)
  PROVE  stopped' \subseteq before
BY DEF Restart

\* blueGreenPromote
LEMMA PromoteTyped ==
  ASSUME TypeOK, PromoteFails \/ RenameFails \/ Promote
  PROVE  TypeOK'
<1>1. st \in Statuses /\ want \in Digests /\ Failed(st) \in Statuses
  BY FailedTyped DEF TypeOK
<1>2. CASE PromoteFails
  BY <1>1, <1>2, StatusStep, FailCounted DEF PromoteFails
<1>3. ASSUME CandidateFound
      PROVE  /\ st.ro.cand \in GroupIds
             /\ st.ro.blue \in 0..MaxGroups
             /\ StoppedOutside(st.ro.cand) \subseteq Boundaries \X (0..MaxGroups)
  <2>1. st.ro.cand # 0
    BY <1>3 DEF CandidateFound, Exists
  <2>2. st.ro.cand \in 0..MaxGroups /\ st.ro.blue \in 0..MaxGroups
    BY <1>1 DEF Statuses, Rollouts
  <2>3. StoppedOutside(st.ro.cand) \subseteq stopped
    BY DEF StoppedOutside
  <2> QED
    BY <2>1, <2>2, <2>3, BoundsAssumption DEF GroupIds, TypeOK
<1>4. CASE RenameFails
  <2>1. [st EXCEPT !.pg = st.ro.cand] \in Statuses
    BY <1>1, <1>3, <1>4 DEF RenameFails, Statuses
  <2>2. st' \in Statuses /\ lost' \in 0..MaxLost /\ fails' \in 0..MaxFails
    BY <1>4, <2>1, FailedTyped, SaveTyped, FailCounted DEF RenameFails
  <2> QED
    BY <1>3, <1>4, <2>2 DEF RenameFails, TypeOK, wiring, spec
<1>5. CASE Promote
  <2>1. [st EXCEPT !.pg = st.ro.cand, !.retiring = st.ro.blue] \in Statuses
    BY <1>1, <1>3, <1>5 DEF Promote, Statuses
  <2>2. st' \in Statuses /\ lost' \in 0..MaxLost
    BY <1>1, <1>5, <2>1, InSyncTyped, SaveTyped DEF Promote
  <2>3. stopped' \subseteq StoppedOutside(st.ro.cand)
    BY <1>5, RestartTyped DEF Promote
  <2> QED
    BY <1>3, <1>5, <2>2, <2>3 DEF Promote, TypeOK, CallsSucceed, wiring, spec
<1> QED
  BY <1>2, <1>4, <1>5

\* blueGreenRollbackTraffic on one connection
LEMMA RestoreTyped ==
  ASSUME TypeOK, RollbackTargetExists, NEW k \in ConnIds, RestoreStep(k)
  PROVE  TypeOK'
<1>1. st \in Statuses /\ Failed(st) \in Statuses /\ wire[k].b \in Boundaries
  BY FailedTyped DEF TypeOK
<1>2. ASSUME Restoring(k)
      PROVE  st.ro.blue \in GroupIds
  <2>1. st.ro.blue # 0
    BY <1>2 DEF Restoring, InPhase, Active, RollbackTargetExists, Exists
  <2> QED
    BY <1>1, <2>1, BoundsAssumption DEF Statuses, Rollouts, GroupIds
<1>3. ASSUME wired' \in 0..MaxConns
      PROVE  [st EXCEPT !.ro.recs[k] = [NoRecord EXCEPT !.orig = wired']] \in Statuses
  <2>1. [NoRecord EXCEPT !.orig = wired'] \in Records
    <3>1. 0 \in 0..MaxConns
      BY BoundsAssumption
    <3> QED
      BY <1>3, <3>1 DEF NoRecord, Records
  <2> QED
    BY <1>1, <2>1, RecordTyped
<1>4. CASE RestoreConnection(k)
  <2>1. /\ wired' \in 0..MaxConns
        /\ conns' \subseteq ConnIds
        /\ conns \ {Green(k)} \subseteq conns'
        /\ wire' \in [ConnIds -> [b : Boundaries, g : GroupIds]]
    BY <1>1, <1>2, <1>4, ConnectTyped DEF RestoreConnection
  <2>2. st' \in Statuses /\ lost' \in 0..MaxLost
    BY <1>3, <1>4, <2>1, SaveTyped DEF RestoreConnection
  <2> QED
    BY <1>4, <2>1, <2>2
       DEF RestoreConnection, DropGreen, EmptyQueue, CallsSucceed, TypeOK, groups, spec
<1>5. CASE RestoreUnseen(k)
  <2>1. /\ wired' \in 0..MaxConns
        /\ conns' \subseteq ConnIds
        /\ conns \subseteq conns'
        /\ wire' \in [ConnIds -> [b : Boundaries, g : GroupIds]]
    BY <1>1, <1>2, <1>5, ConnectTyped DEF RestoreUnseen
  <2>2. st' \in Statuses /\ lost' \in 0..MaxLost /\ fails' \in 0..MaxFails
    BY <1>3, <1>5, <2>1, SaveTyped, FailCounted DEF RestoreUnseen
  <2> QED
    BY <1>5, <2>1, <2>2 DEF RestoreUnseen, TypeOK, groups, spec
<1>6. CASE RestoreStalls(k)
  <2>1. fails' \in 0..MaxFails
    BY <1>6, FailCounted DEF RestoreStalls
  <2> QED
    BY <1>6, <2>1 DEF RestoreStalls, DropGreen, EmptyQueue, TypeOK, groups, wiring, spec
<1>7. CASE RestoreTorn(k)
  <2>1. st' \in Statuses /\ lost' \in 0..MaxLost /\ fails' \in 0..MaxFails
    BY <1>1, <1>7, SaveTyped, CrashTyped, FailCounted DEF RestoreTorn
  <2> QED
    BY <1>7, <2>1 DEF RestoreTorn, DropGreen, EmptyQueue, TypeOK, groups, spec
<1> QED
  BY <1>4, <1>5, <1>6, <1>7 DEF RestoreStep

\* The end of blueGreenRollbackTraffic
LEMMA FinishTyped ==
  ASSUME TypeOK, RollbackTargetExists, FinishRollback
  PROVE  TypeOK'
<1>1. st \in Statuses /\ gen \in Nat
  BY DEF TypeOK
<1>2. st.ro.cand \in 0..MaxGroups /\ st.ro.target \in Digests /\ st.ro.blue \in 0..MaxGroups
  BY <1>1 DEF Statuses, Rollouts
<1>3. st.ro.blue \in GroupIds
  <2>1. st.ro.blue # 0
    BY DEF FinishRollback, InPhase, Active, RollbackTargetExists, Exists
  <2> QED
    BY <1>2, <2>1, BoundsAssumption DEF GroupIds
<1>4. PICK started \in {TRUE, ~MayFail("restart")} :
        /\ Restart({Source(wire[k].b, wire[k].g) : k \in st.ro.keys},
                   IF started THEN StoppedOutside(st.ro.blue) ELSE stopped)
        /\ DeleteProcessGroup(st.ro.cand,
                              IF started THEN running \union {st.ro.blue} ELSE running)
  BY DEF FinishRollback
<1>5. stopped' \subseteq stopped
  <2>1. stopped' \subseteq IF started THEN StoppedOutside(st.ro.blue) ELSE stopped
    BY <1>4, RestartTyped
  <2> QED
    BY <2>1 DEF StoppedOutside
<1>6. group' \in [GroupIds -> Digests \union {Absent}] /\ running' \subseteq GroupIds
  <2>1. (IF started THEN running \union {st.ro.blue} ELSE running) \in SUBSET GroupIds
    BY <1>3 DEF TypeOK
  <2> QED
    BY <1>2, <1>4, <2>1, DeleteTyped
<1>7. [st EXCEPT !.lastRb = [gen |-> gen, digest |-> st.ro.target], !.ro = NoRollout]
        \in Statuses
  BY <1>1, <1>2, NoRolloutTyped DEF Statuses
<1>8. st' \in Statuses /\ lost' \in 0..MaxLost
  BY <1>7, FailedTyped, SaveTyped DEF FinishRollback
<1> QED
  BY <1>5, <1>6, <1>8 DEF FinishRollback, TypeOK, CallsSucceed, wiring, spec

\* Users and flow files
LEMMA EnvironmentTyped ==
  ASSUME TypeOK, Environment \/ BoundReached
  PROVE  TypeOK'
<1>1. CASE \E digest \in Digests, bump \in {0, 1} : ChangeSource(digest, bump)
  BY <1>1, BoundsAssumption DEF ChangeSource, TypeOK, nifi, groups, wiring
<1>2. CASE FlipCancel
  BY <1>2, BoundsAssumption DEF FlipCancel, TypeOK, nifi, groups, wiring
<1>3. CASE \E c \in ConnIds : Produce(c) \/ Consume(c)
  BY <1>3 DEF Produce, Consume, TypeOK, groups, wiring, spec
<1>4. CASE BoundReached
  BY <1>4 DEF BoundReached, vars, TypeOK, nifi, groups, wiring, spec
<1> QED
  BY <1>1, <1>2, <1>3, <1>4 DEF Environment

-----------------------------------------------------------------------------
(* The rest of the inductive invariant *)

\* RolloutInv but for the types.
GroupsInv ==
  /\ IdsMade
  /\ CandidateOwn
  /\ RetiresAfterRollout
  /\ RetireSafe
  /\ RollbackTargetExists

\* s names the same groups as the status, and continues its rollout if it has one.
SameGroups(s) ==
  /\ s.pg = st.pg /\ s.art = st.art /\ s.retiring = st.retiring
  /\ s.ro.target = st.ro.target /\ s.ro.blue = st.ro.blue /\ s.ro.cand = st.ro.cand
  /\ s.ro.phase # "None" => Active

\* GroupsInv reads the canvas and the groups the status names, nothing else.
LEMMA QuietStep ==
  ASSUME GroupsInv, UNCHANGED <<group, made>>, SameGroups(st')
  PROVE  GroupsInv'
BY DEF GroupsInv, SameGroups, IdsMade, CandidateOwn, RetiresAfterRollout, RetireSafe,
       RollbackTargetExists, Active, Exists

\* A step that writes s and leaves the canvas alone.
LEMMA QuietSave ==
  ASSUME GroupsInv, UNCHANGED <<group, made>>, NEW s, SameGroups(s), Save(s)
  PROVE  GroupsInv'
<1>1. SameGroups(st')
  BY DEF Save, SameGroups, Active
<1> QED
  BY <1>1, QuietStep

\* The statuses of the handlers that neither start nor end a rollout.
LEMMA QuietStatuses ==
  ASSUME st \in Statuses
  PROVE  /\ SameGroups(st)
         /\ SameGroups(Failed(st))
         /\ Active => SameGroups(StartedRollback)
         /\ Active => \A phase : SameGroups([st EXCEPT !.ro.phase = phase])
         /\ \A keys, recs : SameGroups([st EXCEPT !.ro.inv = TRUE, !.ro.keys = keys,
                                                  !.ro.recs = recs])
         /\ \A recs : SameGroups([st EXCEPT !.ro.recs = recs])
BY DEF SameGroups, Failed, StartedRollback, Active, Statuses, Rollouts

\* blueGreenAbort deletes the candidate, which is never blue.
LEMMA AbortStep ==
  ASSUME TypeOK, GroupsInv, Active, Abort
  PROVE  GroupsInv'
<1>1. st \in Statuses /\ st.retiring = 0
  BY DEF TypeOK, GroupsInv, RetiresAfterRollout
<1>2. /\ made' = made
      /\ \A g \in GroupIds : g # st.ro.cand => group'[g] = group[g]
      /\ st.ro.cand \in GroupIds => group'[st.ro.cand] \in {group[st.ro.cand], Absent}
  BY DEF Abort, DeleteProcessGroup, TypeOK
<1>3. st.ro.blue \in GroupIds /\ st.ro.blue # st.ro.cand
  BY <1>1, BoundsAssumption
     DEF GroupsInv, RollbackTargetExists, Exists, CandidateOwn, Statuses, Rollouts, GroupIds
<1>4. CASE st' = st
  BY <1>1, <1>2, <1>3, <1>4, BoundsAssumption
     DEF GroupsInv, IdsMade, CandidateOwn, RetiresAfterRollout, RetireSafe,
         RollbackTargetExists, Active, Exists, Statuses, Rollouts, GroupIds
<1>5. CASE st' = Failed([st EXCEPT !.ro = NoRollout])
  <2>1. /\ st'.pg = st.pg /\ st'.retiring = 0
        /\ st'.ro.phase = "None" /\ st'.ro.blue = 0 /\ st'.ro.cand = 0
    BY <1>1, <1>5 DEF Failed, NoRollout, Statuses
  <2>2. made \in Nat
    BY BoundsAssumption DEF TypeOK, GroupIds
  <2> QED
    BY <1>2, <2>1, <2>2
       DEF GroupsInv, IdsMade, CandidateOwn, RetiresAfterRollout, RetireSafe,
           RollbackTargetExists, Active
<1> QED
  BY <1>4, <1>5 DEF Abort, Save

\* A status with the groups and no rollout.
LEMMA EndedStep ==
  ASSUME TypeOK, GroupsInv, UNCHANGED <<group, made>>,
         st'.ro = NoRollout, st'.pg = st.pg, st'.retiring = 0
  PROVE  GroupsInv'
<1>1. made \in Nat
  BY BoundsAssumption DEF TypeOK, GroupIds
<1> QED
  BY <1>1 DEF GroupsInv, IdsMade, CandidateOwn, RetiresAfterRollout, RetireSafe,
              RollbackTargetExists, Active, NoRollout

\* The steps before the rollout proper: retiring deletes a group that is not live.
LEMMA OuterStep ==
  ASSUME TypeOK, GroupsInv,
         RetireBlue \/ CancelRollout \/ LiveNotFound \/ RequeueBlocked \/ MarkInSync
  PROVE  GroupsInv'
<1>1. st \in Statuses
  BY DEF TypeOK
<1>2. CASE RetireBlue
  <2>1. ~Active /\ st.retiring # st.pg /\ st.pg \in GroupIds
    BY <1>1, <1>2 DEF RetireBlue, GroupsInv, RetiresAfterRollout, RetireSafe, Statuses
  <2>2. /\ made' = made
        /\ \A g \in GroupIds : g # st.retiring => group'[g] = group[g]
        /\ \A g \in GroupIds : group'[g] \in {group[g], Absent}
    BY <1>2 DEF RetireBlue, DeleteProcessGroup, TypeOK
  <2>3. /\ st'.pg = st.pg /\ st'.art = st.art /\ st'.ro = st.ro
        /\ st'.retiring \in {st.retiring, 0}
    BY <1>1, <1>2 DEF RetireBlue, Save, Statuses
  <2>4. st.ro.cand \in 0..MaxGroups
    BY <1>1 DEF Statuses, Rollouts
  <2> QED
    BY <2>1, <2>2, <2>3, <2>4, BoundsAssumption
       DEF GroupsInv, IdsMade, CandidateOwn, RetiresAfterRollout, RetireSafe,
           RollbackTargetExists, Active, GroupIds
<1>3. CASE CancelRollout
  BY <1>1, <1>3, QuietStatuses, QuietSave DEF CancelRollout, Cancelling, nifi, groups
<1>4. CASE LiveNotFound
  BY <1>1, <1>4, QuietStatuses, QuietSave DEF LiveNotFound, nifi, groups
<1>5. CASE RequeueBlocked
  BY <1>1, <1>5, QuietStatuses, QuietStep DEF RequeueBlocked, SameGroups, Active, vars, nifi, groups
<1>6. CASE MarkInSync
  <2>1. UNCHANGED <<group, made>> /\ st.retiring = 0
    BY <1>6 DEF MarkInSync, LiveFound, nifi, groups
  <2>2. CASE Save(Failed(st))
    BY <1>1, <2>1, <2>2, QuietStatuses, QuietSave
  <2>3. CASE Save(InSync(st, want))
    <3>1. CASE st' = st
      BY <1>1, <2>1, <3>1, QuietStatuses, QuietStep DEF SameGroups, Active
    <3>2. CASE st' = InSync(st, want)
      BY <1>1, <2>1, <3>2, EndedStep DEF InSync, Statuses
    <3> QED
      BY <2>3, <3>1, <3>2 DEF Save
  <2> QED
    BY <1>6, <2>2, <2>3 DEF MarkInSync
<1> QED
  BY <1>2, <1>3, <1>4, <1>5, <1>6

\* Every phase of the rollout proper is a phase of an active rollout.
LEMMA PhaseActive ==
  ASSUME NEW phase \in Phases \ {"None"}, InPhase(phase)
  PROVE  Active /\ st.retiring = 0 /\ st.ro.target = want
BY DEF InPhase, Rolls, LiveFound, Active

\* A rollout starts from the live group; its candidate gets an id of its own.
LEMMA CandidateStep ==
  ASSUME TypeOK, GroupsInv,
         \/ StartRollout \/ DeployCandidate
         \/ CandidateReady \/ CandidateUnreachable \/ CandidateExpires
  PROVE  GroupsInv'
<1>1. st \in Statuses /\ made \in GroupIds
  BY DEF TypeOK
<1>2. CASE StartRollout
  <2>1. UNCHANGED <<group, made>> /\ st.retiring = 0 /\ Exists(st.pg)
    BY <1>2 DEF StartRollout, Rolls, LiveFound, nifi, groups
  <2>2. CASE st' = st
    BY <1>1, <2>1, <2>2, QuietStatuses, QuietStep DEF SameGroups, Active
  <2>3. CASE st' # st
    <3> DEFINE ro == [NoRollout EXCEPT !.phase = "DeployingCandidate", !.target = want,
                                       !.blue = st.pg]
    <3>1. /\ st'.pg = st.pg /\ st'.retiring = 0
          /\ st'.ro.blue = st.pg /\ st'.ro.cand = 0
      <4>1. st' = Failed([st EXCEPT !.ro = ro])
        BY <1>2, <2>3 DEF StartRollout, Save
      <4>2. ro.blue = st.pg /\ ro.cand = 0
        BY DEF NoRollout
      <4> HIDE DEF ro
      <4> QED
        BY <1>1, <2>1, <4>1, <4>2 DEF Failed, Statuses
    <3>2. made \in Nat
      BY <1>1, BoundsAssumption DEF GroupIds
    <3> QED
      BY <2>1, <3>1, <3>2
         DEF GroupsInv, IdsMade, CandidateOwn, RetiresAfterRollout, RetireSafe,
             RollbackTargetExists, Active, Exists
  <2> QED
    BY <2>2, <2>3
<1>3. CASE DeployCandidate
  <2>1. Active /\ st.retiring = 0 /\ st.ro.target = want
    BY <1>3, PhaseActive DEF DeployCandidate, Phases
  <2>2. CASE Save(Failed(st)) /\ UNCHANGED <<group, made>>
    BY <1>1, <2>2, QuietStatuses, QuietSave
  <2>3. CASE /\ made < MaxGroups
             /\ made' = made + 1
             /\ group' = [group EXCEPT ![made'] = want]
             /\ Save([st EXCEPT !.ro.cand = made', !.ro.phase = "AwaitingReadiness"])
    <3>1. /\ made \in Nat /\ made' = made + 1 /\ made' \in GroupIds
          /\ group'[made'] = want
          /\ \A g \in GroupIds : g # made' => group'[g] = group[g]
      BY <1>1, <2>3, BoundsAssumption DEF TypeOK, GroupIds
    <3>2. /\ st'.pg = st.pg /\ st'.retiring = 0
          /\ st'.ro.blue = st.ro.blue /\ st'.ro.target = want
          /\ st'.ro.cand \in {st.ro.cand, made'}
      <4>1. CASE st' = st
        BY <2>1, <4>1
      <4>2. CASE st' = [st EXCEPT !.ro.cand = made', !.ro.phase = "AwaitingReadiness"]
        BY <1>1, <2>1, <4>2 DEF Statuses, Rollouts
      <4> QED
        BY <2>3, <4>1, <4>2 DEF Save
    <3>3. /\ st.ro.blue \in GroupIds /\ st.ro.cand \in 0..MaxGroups
          /\ st.pg <= made /\ st.ro.blue <= made /\ st.ro.cand <= made
          /\ group[st.ro.blue] # Absent
          /\ st.ro.cand # 0 => st.ro.cand # st.ro.blue /\ group[st.ro.cand] \in {Absent, want}
      BY <1>1, <2>1, BoundsAssumption
         DEF GroupsInv, IdsMade, RollbackTargetExists, CandidateOwn, Exists, Statuses,
             Rollouts, GroupIds
    <3>4. st.pg \in GroupIds
      BY <1>1 DEF Statuses
    <3>5. IdsMade'
      BY <3>1, <3>2, <3>3, <3>4 DEF IdsMade, GroupIds
    <3>6. CandidateOwn'
      BY <3>1, <3>2, <3>3, BoundsAssumption DEF CandidateOwn, GroupIds
    <3>7. RollbackTargetExists'
      BY <3>1, <3>2, <3>3, BoundsAssumption DEF RollbackTargetExists, Exists, GroupIds
    <3> QED
      BY <3>2, <3>5, <3>6, <3>7 DEF GroupsInv, RetiresAfterRollout, RetireSafe
  <2> QED
    BY <1>3, <2>2, <2>3 DEF DeployCandidate
<1>4. CASE CandidateReady
  <2>1. Active
    BY <1>4, PhaseActive DEF CandidateReady, Phases
  <2> QED
    BY <1>1, <1>4, <2>1, QuietStatuses, QuietSave DEF CandidateReady, nifi, groups
<1>5. CASE CandidateUnreachable
  BY <1>1, <1>5, QuietStatuses, QuietSave DEF CandidateUnreachable, nifi, groups
<1>6. CASE CandidateExpires
  BY <1>6, AbortStep, PhaseActive DEF CandidateExpires, Phases
<1> QED
  BY <1>2, <1>3, <1>4, <1>5, <1>6

\* Switching traffic changes connections and phases, never the groups.
LEMMA TrafficStep ==
  ASSUME TypeOK, GroupsInv,
         \/ Inventory \/ InventoryFails \/ PortsFail \/ AllSwitched
         \/ \E k \in ConnIds : SwitchStep(k)
  PROVE  GroupsInv'
<1>1. st \in Statuses
  BY DEF TypeOK
<1>2. CASE Inventory
  BY <1>1, <1>2, QuietStatuses, QuietSave DEF Inventory, nifi, groups
<1>3. CASE InventoryFails
  BY <1>3, AbortStep, PhaseActive DEF InventoryFails, Phases
<1>4. CASE PortsFail
  BY <1>4, AbortStep, PhaseActive DEF PortsFail, Phases
<1>5. CASE AllSwitched
  <2>1. Active
    BY <1>5, PhaseActive DEF AllSwitched, Phases
  <2> QED
    BY <1>1, <1>5, <2>1, QuietStatuses, QuietSave DEF AllSwitched, nifi, groups
<1>6. ASSUME NEW k \in ConnIds, SwitchStep(k)
      PROVE  GroupsInv'
  <2>1. Switching(k)
    BY <1>6 DEF SwitchStep, UnmatchedPort, StopFails, QueueFails, AwaitDrain, DrainExpires,
                DeleteFails, Switch, SwitchTorn
  <2>2. Active
    BY <2>1, PhaseActive DEF Switching, Phases
  <2>3. UNCHANGED <<group, made>>
    BY <1>6 DEF SwitchStep, UnmatchedPort, StopFails, QueueFails, AwaitDrain, DrainExpires,
                DeleteFails, Switch, SwitchTorn, nifi, groups
  <2>4. CASE Save(StartedRollback)
    BY <1>1, <2>2, <2>3, <2>4, QuietStatuses, QuietSave
  <2>5. CASE AwaitDrain(k)
    BY <1>1, <2>3, <2>5, QuietStatuses, QuietSave DEF AwaitDrain
  <2>6. CASE Switch(k)
    <3>1. SameGroups([st EXCEPT !.ro.recs[k].green = wired', !.ro.recs[k].switched = TRUE])
      BY <1>1 DEF SameGroups, Active, Statuses, Rollouts
    <3> QED
      BY <2>3, <2>6, <3>1, QuietSave DEF Switch
  <2>7. CASE Crash
    BY <1>1, <2>3, <2>7, QuietStatuses, QuietStep DEF Crash, SameGroups, Active
  <2> QED
    BY <1>6, <2>4, <2>5, <2>6, <2>7
       DEF SwitchStep, UnmatchedPort, StopFails, QueueFails, DrainExpires, DeleteFails,
           SwitchTorn
<1> QED
  BY <1>2, <1>3, <1>4, <1>5, <1>6

\* The promoted group holds the target; blue, another group, is the one to retire.
LEMMA PromoteStep ==
  ASSUME TypeOK, GroupsInv, PromoteFails \/ RenameFails \/ Promote
  PROVE  GroupsInv'
<1>1. st \in Statuses
  BY DEF TypeOK
<1>2. CASE PromoteFails
  BY <1>1, <1>2, QuietStatuses, QuietSave DEF PromoteFails, nifi, groups
<1>3. ASSUME CandidateFound
      PROVE  /\ Active /\ st.retiring = 0
             /\ st.ro.cand # 0 /\ st.ro.cand # st.ro.blue
             /\ group[st.ro.cand] = want
             /\ st.ro.cand <= made /\ st.ro.blue <= made
             /\ Exists(st.ro.blue)
  <2>1. Active /\ st.retiring = 0 /\ st.ro.target = want /\ Exists(st.ro.cand)
    BY <1>3, PhaseActive DEF CandidateFound, Phases
  <2> QED
    BY <2>1 DEF GroupsInv, IdsMade, CandidateOwn, RollbackTargetExists, Exists
<1>4. CASE RenameFails
  <2>1. UNCHANGED <<group, made>> /\ CandidateFound
    BY <1>4 DEF RenameFails
  <2>2. CASE st' = st
    BY <1>1, <2>1, <2>2, QuietStatuses, QuietStep DEF SameGroups, Active
  <2>3. CASE st' = Failed([st EXCEPT !.pg = st.ro.cand])
    <3>1. st'.pg = st.ro.cand /\ st'.retiring = 0 /\ st'.ro = st.ro
      BY <1>1, <1>3, <2>1, <2>3 DEF Failed, Statuses
    <3> QED
      BY <1>3, <2>1, <3>1
         DEF GroupsInv, IdsMade, CandidateOwn, RetiresAfterRollout, RetireSafe,
             RollbackTargetExists, Active, Exists
  <2> QED
    BY <1>4, <2>2, <2>3 DEF RenameFails, Save
<1>5. CASE Promote
  <2>1. UNCHANGED <<group, made>> /\ CandidateFound
    BY <1>5 DEF Promote
  <2>2. CASE st' = st
    BY <1>1, <2>1, <2>2, QuietStatuses, QuietStep DEF SameGroups, Active
  <2>3. CASE st' = InSync([st EXCEPT !.pg = st.ro.cand, !.retiring = st.ro.blue], want)
    <3>1. /\ st'.pg = st.ro.cand /\ st'.retiring = st.ro.blue /\ st'.art = want
          /\ st'.ro = NoRollout
      BY <1>1, <2>3 DEF InSync, Statuses
    <3>2. made \in Nat
      BY BoundsAssumption DEF TypeOK, GroupIds
    <3> QED
      BY <1>3, <2>1, <3>1, <3>2
         DEF GroupsInv, IdsMade, CandidateOwn, RetiresAfterRollout, RetireSafe,
             RollbackTargetExists, Active, NoRollout
  <2> QED
    BY <1>5, <2>2, <2>3 DEF Promote, Save
<1> QED
  BY <1>2, <1>4, <1>5

\* Rolling back deletes the candidate, never blue.
LEMMA RollbackStep ==
  ASSUME TypeOK, GroupsInv, FinishRollback \/ \E k \in ConnIds : RestoreStep(k)
  PROVE  GroupsInv'
<1>1. st \in Statuses
  BY DEF TypeOK
<1>2. ASSUME NEW k \in ConnIds, RestoreStep(k)
      PROVE  GroupsInv'
  <2>1. UNCHANGED <<group, made>>
    BY <1>2 DEF RestoreStep, RestoreConnection, RestoreUnseen, RestoreStalls, RestoreTorn, groups
  <2>2. CASE Save([st EXCEPT !.ro.recs[k] = [NoRecord EXCEPT !.orig = wired']])
    BY <1>1, <2>1, <2>2, QuietStatuses, QuietSave
  <2>3. CASE Save(Failed(st))
    BY <1>1, <2>1, <2>3, QuietStatuses, QuietSave
  <2>4. CASE st' = st
    BY <1>1, <2>1, <2>4, QuietStatuses, QuietStep DEF SameGroups, Active
  <2> QED
    BY <1>2, <2>2, <2>3, <2>4
       DEF RestoreStep, RestoreConnection, RestoreUnseen, RestoreStalls, RestoreTorn, Crash
<1>3. CASE FinishRollback
  <2>1. Active /\ st.retiring = 0
    BY <1>3, PhaseActive DEF FinishRollback, Phases
  <2>2. /\ made' = made
        /\ \A g \in GroupIds : g # st.ro.cand => group'[g] = group[g]
        /\ st.ro.cand \in GroupIds => group'[st.ro.cand] \in {group[st.ro.cand], Absent}
    BY <1>3 DEF FinishRollback, DeleteProcessGroup, TypeOK
  <2>3. st.ro.blue \in GroupIds /\ st.ro.blue # st.ro.cand /\ made \in Nat
    BY <1>1, <2>1, BoundsAssumption
       DEF GroupsInv, RollbackTargetExists, Exists, CandidateOwn, Statuses, Rollouts,
           GroupIds, TypeOK
  <2>4. CASE st' = st
    BY <1>1, <2>1, <2>2, <2>3, <2>4, BoundsAssumption
       DEF GroupsInv, IdsMade, CandidateOwn, RetiresAfterRollout, RetireSafe,
           RollbackTargetExists, Active, Exists, Statuses, Rollouts, GroupIds
  <2>5. CASE st' # st
    <3>1. st'.pg = st.pg /\ st'.retiring = 0 /\ st'.ro = NoRollout
      BY <1>1, <1>3, <2>1, <2>5 DEF FinishRollback, Save, Failed, Statuses
    <3> QED
      BY <2>2, <2>3, <3>1
         DEF GroupsInv, IdsMade, CandidateOwn, RetiresAfterRollout, RetireSafe,
             RollbackTargetExists, Active, NoRollout
  <2> QED
    BY <2>4, <2>5
<1> QED
  BY <1>2, <1>3

\* Users and flow files touch neither the groups nor the status.
LEMMA EnvironmentStep ==
  ASSUME TypeOK, GroupsInv, Environment \/ BoundReached
  PROVE  GroupsInv'
<1>1. UNCHANGED <<group, made, st>>
  BY DEF Environment, ChangeSource, FlipCancel, Produce, Consume, BoundReached, vars, nifi,
         groups
<1> QED
  BY <1>1, QuietStatuses, QuietStep DEF TypeOK, SameGroups, Active

-----------------------------------------------------------------------------
(* The live group *)

\* Nothing was cancelled yet: the flag is down and the live group is on the canvas.
LiveStays == cancels = 0 => ~cancel /\ Exists(st.pg)

\* A rollout in progress is not Ready.
ActiveIsNotReady == Active => ~st.ready

\* The live group is blue until the promotion, which may stop halfway, moves it to the
\* candidate.
LiveIsBlue ==
  cancels = 0 /\ Active =>
    st.pg = st.ro.blue \/ (st.pg = st.ro.cand /\ st.ro.phase = "Promoting")

\* A rollout that nobody edited under rolls to what is wanted and not yet recorded.
RollsToWanted == mids = 0 /\ Active => st.ro.target = want /\ st.art # want

\* The live group holds the recorded artifact, but between the two halves of a promotion.
LiveIsRecorded ==
  cancels = 0 /\ mids = 0 => group[st.pg] = st.art \/ (Active /\ st.pg = st.ro.cand)

LiveInv == LiveStays /\ ActiveIsNotReady /\ LiveIsBlue /\ RollsToWanted /\ LiveIsRecorded

\* Before the promotion the live group is blue, not the candidate.
LEMMA LiveBeforePromotion ==
  ASSUME TypeOK, GroupsInv, LiveInv, Active, st.ro.phase # "Promoting", cancels = 0
  PROVE  /\ st.pg = st.ro.blue /\ st.pg # st.ro.cand
         /\ mids = 0 => group[st.pg] = st.art
<1>1. st.pg \in GroupIds /\ st.pg # 0
  BY BoundsAssumption DEF TypeOK, Statuses, GroupIds
<1>2. st.pg = st.ro.blue
  BY DEF LiveInv, LiveIsBlue
<1>3. st.pg # st.ro.cand
  BY <1>1, <1>2 DEF GroupsInv, CandidateOwn
<1> QED
  BY <1>2, <1>3 DEF LiveInv, LiveIsRecorded

\* What a step that keeps the live group and its artifact has to keep of the rest.
LEMMA LiveCarried ==
  ASSUME LiveInv, UNCHANGED <<want, cancel, cancels, mids>>,
         st'.pg = st.pg, st'.art = st.art,
         cancels = 0 => group'[st.pg] = group[st.pg],
         Active' => /\ Active /\ ~st'.ready
                    /\ st'.ro.target = st.ro.target /\ st'.ro.blue = st.ro.blue,
         cancels = 0 /\ Active' =>
           \/ st'.ro.cand = st.ro.cand /\ st'.ro.phase = st.ro.phase
           \/ st.pg = st.ro.blue,
         cancels = 0 /\ mids = 0 =>
           group[st.pg] = st.art \/ (Active' /\ st.pg = st'.ro.cand)
  PROVE  LiveInv'
<1>1. LiveStays'
  BY DEF LiveInv, LiveStays, Exists
<1>2. ActiveIsNotReady'
  BY DEF ActiveIsNotReady
<1>3. LiveIsBlue'
  BY DEF LiveInv, LiveIsBlue
<1>4. RollsToWanted'
  BY DEF LiveInv, RollsToWanted
<1>5. LiveIsRecorded'
  BY DEF LiveInv, LiveIsRecorded
<1> QED
  BY <1>1, <1>2, <1>3, <1>4, <1>5 DEF LiveInv

\* A status that goes on with the rollout where it is.
GoesOn(s) ==
  /\ s.pg = st.pg /\ s.art = st.art
  /\ Active => ~s.ready
  /\ s.ro.target = st.ro.target /\ s.ro.blue = st.ro.blue /\ s.ro.cand = st.ro.cand
  /\ s.ro.phase = st.ro.phase

\* The statuses written in the middle of a rollout are such.
LEMMA GoesOnStatuses ==
  ASSUME st \in Statuses, ActiveIsNotReady
  PROVE  /\ GoesOn(st) /\ GoesOn(Failed(st))
         /\ GoesOn([st EXCEPT !.retiring = 0])
         /\ \A keys, recs : GoesOn([st EXCEPT !.ro.inv = TRUE, !.ro.keys = keys, !.ro.recs = recs])
         /\ \A recs : GoesOn([st EXCEPT !.ro.recs = recs])
BY DEF GoesOn, Failed, ActiveIsNotReady, Statuses, Rollouts

\* Such a status, with the live group untouched.
LEMMA LiveGoesOn ==
  ASSUME LiveInv, UNCHANGED <<want, cancel, cancels, mids>>,
         cancels = 0 => group'[st.pg] = group[st.pg], GoesOn(st')
  PROVE  LiveInv'
<1>1. Active' <=> Active
  BY DEF GoesOn, Active
<1>2. cancels = 0 /\ mids = 0 => group[st.pg] = st.art \/ (Active' /\ st.pg = st'.ro.cand)
  BY <1>1 DEF LiveInv, LiveIsRecorded, GoesOn
<1> QED
  BY <1>1, <1>2, LiveCarried DEF GoesOn

\* A phase before the promotion that is left for another one, or ends the rollout.
LEMMA LivePhase ==
  ASSUME TypeOK, GroupsInv, LiveInv, UNCHANGED <<want, cancel, cancels, mids>>,
         Active, st.ro.phase # "Promoting",
         cancels = 0 /\ st.pg # st.ro.cand => group'[st.pg] = group[st.pg],
         st'.pg = st.pg, st'.art = st.art,
         Active' => ~st'.ready /\ st'.ro.target = st.ro.target /\ st'.ro.blue = st.ro.blue
  PROVE  LiveInv'
BY LiveBeforePromotion, LiveCarried

\* A status of the same rollout with the same live group, in any phase.
SameLive(s) ==
  /\ s.pg = st.pg /\ s.art = st.art
  /\ s.ro.target = st.ro.target /\ s.ro.blue = st.ro.blue
  /\ ~st.ready => ~s.ready

\* The handlers of a rollout in progress write such a status.
LEMMA SameLiveStatuses ==
  ASSUME st \in Statuses
  PROVE  /\ SameLive(st) /\ SameLive(Failed(st)) /\ SameLive(StartedRollback)
         /\ \A phase : SameLive([st EXCEPT !.ro.phase = phase])
BY DEF SameLive, Failed, StartedRollback, Statuses, Rollouts

\* The steps before the rollout proper. A cancelled rollout is no longer promised anything.
LEMMA OuterLive ==
  ASSUME TypeOK, GroupsInv, LiveInv,
         RetireBlue \/ CancelRollout \/ LiveNotFound \/ RequeueBlocked \/ MarkInSync
  PROVE  LiveInv'
<1>1. st \in Statuses /\ ActiveIsNotReady
  BY DEF TypeOK, LiveInv
<1>2. CASE RetireBlue
  <2>1. st.retiring # st.pg /\ st.pg \in GroupIds
    BY <1>1, <1>2 DEF RetireBlue, GroupsInv, RetireSafe, Statuses
  <2>2. group'[st.pg] = group[st.pg]
    BY <1>2, <2>1 DEF RetireBlue, DeleteProcessGroup, TypeOK
  <2>3. GoesOn(st')
    BY <1>1, <1>2, GoesOnStatuses DEF RetireBlue, Save
  <2> QED
    BY <1>2, <2>2, <2>3, LiveGoesOn DEF RetireBlue, spec
<1>3. CASE CancelRollout
  <2>1. Active /\ cancels # 0
    BY <1>3 DEF CancelRollout, Cancelling, LiveInv, LiveStays
  <2>2. SameLive(st')
    BY <1>1, <1>3, SameLiveStatuses DEF CancelRollout, Save
  <2>3. ~st'.ready
    BY <1>1, <2>1, <2>2 DEF SameLive, ActiveIsNotReady
  <2>4. UNCHANGED <<want, cancel, cancels, mids>>
    BY <1>3 DEF CancelRollout, spec
  <2> QED
    BY <2>1, <2>2, <2>3, <2>4, LiveCarried DEF SameLive
<1>4. CASE LiveNotFound
  BY <1>1, <1>4, GoesOnStatuses, LiveGoesOn DEF LiveNotFound, Save, nifi, groups, spec
<1>5. CASE RequeueBlocked
  BY <1>1, <1>5, GoesOnStatuses, LiveGoesOn DEF RequeueBlocked, vars, nifi, groups, spec
<1>6. CASE MarkInSync
  <2>1. UNCHANGED <<group, want, cancel, cancels, mids>> /\ st.art = want
    BY <1>6 DEF MarkInSync, nifi, groups, spec
  <2>2. CASE st' = st \/ st' = Failed(st)
    BY <1>1, <2>1, <2>2, GoesOnStatuses, LiveGoesOn
  <2>3. CASE st' = InSync(st, want)
    <3>1. st'.pg = st.pg /\ st'.art = st.art /\ ~Active'
      BY <1>1, <2>1, <2>3 DEF InSync, Statuses, NoRollout, Active
    <3>2. mids = 0 => ~Active
      BY <2>1 DEF LiveInv, RollsToWanted
    <3>3. cancels = 0 /\ mids = 0 => group[st.pg] = st.art
      BY <3>2 DEF LiveInv, LiveIsRecorded
    <3> QED
      BY <2>1, <3>1, <3>3, LiveCarried
  <2> QED
    BY <1>6, <2>2, <2>3 DEF MarkInSync, Save
<1> QED
  BY <1>2, <1>3, <1>4, <1>5, <1>6

\* blueGreenAbort leaves the live group, which is not the candidate it deletes.
LEMMA AbortLive ==
  ASSUME TypeOK, GroupsInv, LiveInv, Abort, Active, st.ro.phase # "Promoting"
  PROVE  LiveInv'
<1>1. st \in Statuses /\ ActiveIsNotReady /\ st.pg \in GroupIds
  BY DEF TypeOK, LiveInv, Statuses
<1>2. st.pg # st.ro.cand => group'[st.pg] = group[st.pg]
  BY <1>1 DEF Abort, DeleteProcessGroup, TypeOK
<1>3. UNCHANGED <<want, cancel, cancels, mids>>
  BY DEF Abort, spec
<1>4. CASE st' = st
  BY <1>1, <1>2, <1>3, <1>4, LivePhase DEF ActiveIsNotReady
<1>5. CASE st' = Failed([st EXCEPT !.ro = NoRollout])
  <2>1. st'.pg = st.pg /\ st'.art = st.art /\ ~Active'
    BY <1>1, <1>5 DEF Failed, Statuses, NoRollout, Active
  <2> QED
    BY <1>2, <1>3, <2>1, LivePhase
<1> QED
  BY <1>4, <1>5 DEF Abort, Save

\* A rollout starts with the live group as blue; importing its candidate touches no other.
LEMMA CandidateLive ==
  ASSUME TypeOK, GroupsInv, LiveInv,
         \/ StartRollout \/ DeployCandidate
         \/ CandidateReady \/ CandidateUnreachable \/ CandidateExpires
  PROVE  LiveInv'
<1>1. st \in Statuses /\ ActiveIsNotReady /\ st.pg \in GroupIds
  BY DEF TypeOK, LiveInv, Statuses
<1>2. CASE StartRollout
  <2>1. /\ UNCHANGED <<group, want, cancel, cancels, mids>>
        /\ st.art # want /\ (~Active \/ st.ro.target # want)
    BY <1>2 DEF StartRollout, Rolls, nifi, groups, spec
  <2>2. CASE st' = st
    BY <1>1, <2>1, <2>2, GoesOnStatuses, LiveGoesOn
  <2>3. CASE st' # st
    <3> DEFINE ro == [NoRollout EXCEPT !.phase = "DeployingCandidate", !.target = want,
                                       !.blue = st.pg]
    <3>1. ro.target = want /\ ro.blue = st.pg
      BY DEF NoRollout
    <3>2. st' = Failed([st EXCEPT !.ro = ro])
      BY <1>2, <2>3 DEF StartRollout, Save
    <3> HIDE DEF ro
    <3>3. st'.pg = st.pg /\ st'.art = st.art /\ st'.ro = ro
      BY <1>1, <3>2 DEF Failed, Statuses
    <3>4. ~st'.ready
      BY <1>1, <3>2 DEF Failed, Statuses
    <3>5. mids = 0 => ~Active
      BY <2>1 DEF LiveInv, RollsToWanted
    <3>6. LiveStays'
      BY <2>1, <3>3 DEF LiveInv, LiveStays, Exists
    <3>7. ActiveIsNotReady' /\ LiveIsBlue'
      BY <3>1, <3>3, <3>4 DEF ActiveIsNotReady, LiveIsBlue
    <3>8. RollsToWanted'
      BY <2>1, <3>1, <3>3 DEF RollsToWanted
    <3>9. LiveIsRecorded'
      BY <2>1, <3>3, <3>5 DEF LiveInv, LiveIsRecorded
    <3> QED
      BY <3>6, <3>7, <3>8, <3>9 DEF LiveInv
  <2> QED
    BY <2>2, <2>3
<1>3. CASE DeployCandidate
  <2>1. Active /\ st.ro.phase # "Promoting"
    BY <1>3, PhaseActive DEF DeployCandidate, InPhase, Phases
  <2>2. group'[st.pg] = group[st.pg]
    <3>1. made \in Nat /\ st.pg \in Nat /\ st.pg <= made
      BY <1>1, BoundsAssumption DEF TypeOK, GroupIds, GroupsInv, IdsMade
    <3>2. st.pg # made + 1
      BY <3>1
    <3> QED
      BY <1>1, <1>3, <3>2 DEF DeployCandidate, TypeOK
  <2>3. SameLive(st')
    <3>1. CASE st' = [st EXCEPT !.ro.cand = made', !.ro.phase = "AwaitingReadiness"]
      BY <1>1, <3>1 DEF SameLive, Statuses, Rollouts
    <3> QED
      BY <1>1, <1>3, <3>1, SameLiveStatuses DEF DeployCandidate, Save
  <2>4. ~st'.ready
    BY <1>1, <2>1, <2>3 DEF ActiveIsNotReady, SameLive
  <2> QED
    BY <1>3, <2>1, <2>2, <2>3, <2>4, LivePhase DEF DeployCandidate, spec, SameLive
<1>4. CASE CandidateReady
  <2>1. Active /\ st.ro.phase # "Promoting"
    BY <1>4, PhaseActive DEF CandidateReady, InPhase, Phases
  <2>2. SameLive(st')
    BY <1>1, <1>4, SameLiveStatuses DEF CandidateReady, Save
  <2> QED
    BY <1>1, <1>4, <2>1, <2>2, LivePhase
       DEF CandidateReady, nifi, groups, spec, ActiveIsNotReady, SameLive
<1>5. CASE CandidateUnreachable
  BY <1>1, <1>5, GoesOnStatuses, LiveGoesOn DEF CandidateUnreachable, Save, nifi, groups, spec
<1>6. CASE CandidateExpires
  <2>1. Active /\ st.ro.phase # "Promoting"
    BY <1>6, PhaseActive DEF CandidateExpires, InPhase, Phases
  <2> QED
    BY <1>6, <2>1, AbortLive DEF CandidateExpires
<1> QED
  BY <1>2, <1>3, <1>4, <1>5, <1>6

\* Switching traffic is done before the promotion.
LEMMA TrafficLive ==
  ASSUME TypeOK, GroupsInv, LiveInv,
         \/ Inventory \/ InventoryFails \/ PortsFail \/ AllSwitched
         \/ \E k \in ConnIds : SwitchStep(k)
  PROVE  LiveInv'
<1>1. st \in Statuses /\ ActiveIsNotReady
  BY DEF TypeOK, LiveInv
<1>2. InPhase("SwitchingTraffic")
  BY DEF Inventory, InventoryFails, PortsFail, AllSwitched, SwitchStep, Switching,
         UnmatchedPort, StopFails, QueueFails, AwaitDrain, DrainExpires, DeleteFails, Switch,
         SwitchTorn
<1>3. Active /\ st.ro.phase # "Promoting"
  BY <1>2, PhaseActive DEF InPhase, Phases
<1>4. CASE InventoryFails \/ PortsFail
  BY <1>3, <1>4, AbortLive DEF InventoryFails, PortsFail
<1>5. ASSUME UNCHANGED <<group, want, cancel, cancels, mids>>,
             st'.pg = st.pg, st'.art = st.art, ~st'.ready,
             st'.ro.target = st.ro.target, st'.ro.blue = st.ro.blue
      PROVE  LiveInv'
  BY <1>3, <1>5, LivePhase
<1>6. ~st.ready
  BY <1>1, <1>3 DEF ActiveIsNotReady
<1>7. CASE Inventory \/ AllSwitched
  <2>1. SameLive(st')
    <3>1. CASE Inventory
      <4> DEFINE keys == Attached(st.ro.blue)
                 recs == [k \in ConnIds |-> IF k \in keys THEN [NoRecord EXCEPT !.orig = k]
                                                          ELSE NoRecord]
      <4>1. st' \in {st, [st EXCEPT !.ro.inv = TRUE, !.ro.keys = keys, !.ro.recs = recs]}
        BY <3>1 DEF Inventory, Save
      <4> HIDE DEF keys, recs
      <4>2. SameLive([st EXCEPT !.ro.inv = TRUE, !.ro.keys = keys, !.ro.recs = recs])
        BY <1>1 DEF SameLive, Statuses, Rollouts
      <4> QED
        BY <1>1, <4>1, <4>2, SameLiveStatuses
    <3>2. CASE AllSwitched
      BY <1>1, <3>2, SameLiveStatuses DEF AllSwitched, Save
    <3> QED
      BY <1>7, <3>1, <3>2
  <2> QED
    BY <1>5, <1>6, <1>7, <2>1 DEF Inventory, AllSwitched, nifi, groups, spec, SameLive
<1>8. ASSUME NEW k \in ConnIds, SwitchStep(k)
      PROVE  LiveInv'
  <2>1. UNCHANGED <<group, want, cancel, cancels, mids>>
    BY <1>8 DEF SwitchStep, UnmatchedPort, StopFails, QueueFails, AwaitDrain, DrainExpires,
                DeleteFails, Switch, SwitchTorn, nifi, groups, spec
  <2>2. \/ st' = st \/ st' = StartedRollback
        \/ st' = [st EXCEPT !.ro.recs[k].draining = TRUE]
        \/ st' = [st EXCEPT !.ro.recs[k].green = wired', !.ro.recs[k].switched = TRUE]
    BY <1>8 DEF SwitchStep, UnmatchedPort, StopFails, QueueFails, AwaitDrain, DrainExpires,
                DeleteFails, Switch, SwitchTorn, Save, Crash
  <2>3. SameLive(st')
    <3>1. CASE st' = [st EXCEPT !.ro.recs[k].green = wired', !.ro.recs[k].switched = TRUE]
      BY <1>1, <3>1 DEF SameLive, Statuses, Rollouts
    <3> QED
      <4>1. CASE st' = [st EXCEPT !.ro.recs[k].draining = TRUE]
        BY <1>1, <4>1 DEF SameLive, Statuses, Rollouts
      <4> QED
        BY <1>1, <2>2, <3>1, <4>1, SameLiveStatuses
  <2> QED
    BY <1>5, <1>6, <2>1, <2>3 DEF SameLive
<1> QED
  BY <1>4, <1>7, <1>8

\* The promotion makes the candidate, which holds the target, the live group: at once, or
\* leaving the rollout in progress when renaming the group fails.
LEMMA PromoteLive ==
  ASSUME TypeOK, GroupsInv, LiveInv, PromoteFails \/ RenameFails \/ Promote
  PROVE  LiveInv'
<1>1. st \in Statuses /\ ActiveIsNotReady
  BY DEF TypeOK, LiveInv
<1>2. CASE PromoteFails
  BY <1>1, <1>2, GoesOnStatuses, LiveGoesOn DEF PromoteFails, Save, nifi, groups, spec
<1>3. CASE RenameFails \/ Promote
  <2>1. /\ UNCHANGED <<group, want, cancel, cancels, mids>>
        /\ InPhase("Promoting") /\ Exists(st.ro.cand)
    BY <1>3 DEF RenameFails, Promote, CandidateFound, spec
  <2>2. /\ Active /\ st.ro.target = want /\ st.ro.phase = "Promoting"
    BY <2>1, PhaseActive DEF InPhase, Phases
  <2>3. group[st.ro.cand] = want
    BY <2>1, <2>2 DEF GroupsInv, CandidateOwn, Exists
  <2>4. CASE st' = st
    BY <1>1, <2>1, <2>4, GoesOnStatuses, LiveGoesOn
  <2>5. CASE st' = Failed([st EXCEPT !.pg = st.ro.cand])
    <3>1. st'.pg = st.ro.cand /\ st'.art = st.art /\ st'.ro = st.ro
      BY <1>1, <2>5 DEF Failed, Statuses
    <3>2. ~st'.ready
      BY <1>1, <2>5 DEF Failed, Statuses
    <3> QED
      BY <2>1, <2>2, <3>1, <3>2
         DEF LiveInv, LiveStays, ActiveIsNotReady, LiveIsBlue, RollsToWanted, LiveIsRecorded,
             Active, Exists
  <2>6. CASE st' = InSync([st EXCEPT !.pg = st.ro.cand, !.retiring = st.ro.blue], want)
    <3>1. st'.pg = st.ro.cand /\ st'.art = want /\ ~Active'
      BY <1>1, <2>6 DEF InSync, Statuses, NoRollout, Active
    <3> QED
      BY <2>1, <2>3, <3>1
         DEF LiveInv, LiveStays, ActiveIsNotReady, LiveIsBlue, RollsToWanted, LiveIsRecorded,
             Exists
  <2> QED
    BY <1>3, <2>4, <2>5, <2>6 DEF RenameFails, Promote, Save
<1> QED
  BY <1>2, <1>3

\* A rollback ends with blue live: the candidate it deletes never was.
LEMMA RollbackLive ==
  ASSUME TypeOK, GroupsInv, LiveInv, FinishRollback \/ \E k \in ConnIds : RestoreStep(k)
  PROVE  LiveInv'
<1>1. st \in Statuses /\ ActiveIsNotReady /\ st.pg \in GroupIds
  BY DEF TypeOK, LiveInv, Statuses
<1>2. InPhase("RollingBackTraffic")
  BY DEF FinishRollback, RestoreStep, RestoreConnection, RestoreUnseen, RestoreStalls,
         RestoreTorn, Restoring
<1>3. Active /\ st.ro.phase # "Promoting" /\ UNCHANGED <<want, cancel, cancels, mids>>
  <2>1. Active /\ st.ro.phase # "Promoting"
    BY <1>2, PhaseActive DEF InPhase, Phases
  <2>2. UNCHANGED <<want, cancel, cancels, mids>>
    BY DEF FinishRollback, RestoreStep, RestoreConnection, RestoreUnseen, RestoreStalls,
           RestoreTorn, spec
  <2> QED
    BY <2>1, <2>2
<1>4. ~st.ready
  BY <1>1, <1>3 DEF ActiveIsNotReady
<1>5. ASSUME NEW k \in ConnIds, RestoreStep(k)
      PROVE  LiveInv'
  <2>1. UNCHANGED group
    BY <1>5 DEF RestoreStep, RestoreConnection, RestoreUnseen, RestoreStalls, RestoreTorn,
                groups
  <2>2. SameLive(st')
    <3>1. \/ st' = st \/ st' = Failed(st)
          \/ st' = [st EXCEPT !.ro.recs[k] = [NoRecord EXCEPT !.orig = wired']]
      BY <1>5 DEF RestoreStep, RestoreConnection, RestoreUnseen, RestoreStalls, RestoreTorn,
                  Save, Crash
    <3>2. SameLive([st EXCEPT !.ro.recs[k] = [NoRecord EXCEPT !.orig = wired']])
      BY <1>1 DEF SameLive, Statuses, Rollouts
    <3> QED
      BY <1>1, <3>1, <3>2, SameLiveStatuses
  <2> QED
    BY <1>3, <1>4, <2>1, <2>2, LivePhase DEF SameLive
<1>6. CASE FinishRollback
  <2>1. st.pg # st.ro.cand => group'[st.pg] = group[st.pg]
    BY <1>1, <1>6 DEF FinishRollback, DeleteProcessGroup, TypeOK
  <2>2. CASE st' = st
    BY <1>3, <1>4, <2>1, <2>2, LivePhase
  <2>3. CASE st' # st
    <3>1. st'.pg = st.pg /\ st'.art = st.art /\ st'.ro = NoRollout
      BY <1>1, <1>6, <2>3 DEF FinishRollback, Save, Failed, Statuses
    <3>2. ~Active'
      BY <3>1 DEF Active, NoRollout
    <3> QED
      BY <1>3, <2>1, <3>1, <3>2, LivePhase
  <2> QED
    BY <2>2, <2>3
<1> QED
  BY <1>5, <1>6

\* An edit under a rollout and a cancellation are counted.
LEMMA EnvironmentLive ==
  ASSUME TypeOK, LiveInv, Environment \/ BoundReached
  PROVE  LiveInv'
<1>1. UNCHANGED <<group, st>>
  BY DEF Environment, ChangeSource, FlipCancel, Produce, Consume, BoundReached, vars, nifi,
         groups
<1>2. CASE \E digest \in Digests, bump \in {0, 1} : ChangeSource(digest, bump)
  <2>1. UNCHANGED <<cancel, cancels>> /\ mids' = (IF Active THEN mids + 1 ELSE mids)
    BY <1>2 DEF ChangeSource
  <2>2. mids \in Nat
    BY DEF TypeOK
  <2>3. mids' = 0 => mids = 0 /\ ~Active
    BY <2>1, <2>2
  <2> QED
    BY <1>1, <2>1, <2>3
       DEF LiveInv, LiveStays, ActiveIsNotReady, LiveIsBlue, RollsToWanted, LiveIsRecorded,
           Active, Exists
<1>3. CASE FlipCancel
  <2>1. UNCHANGED <<want, mids>> /\ cancels' # 0
    BY <1>3 DEF FlipCancel, TypeOK
  <2> QED
    BY <1>1, <2>1
       DEF LiveInv, LiveStays, ActiveIsNotReady, LiveIsBlue, RollsToWanted, LiveIsRecorded,
           Active
<1>4. CASE UNCHANGED <<want, cancel, cancels, mids>>
  BY <1>1, <1>4
     DEF LiveInv, LiveStays, ActiveIsNotReady, LiveIsBlue, RollsToWanted, LiveIsRecorded,
         Active, Exists
<1> QED
  BY <1>2, <1>3, <1>4 DEF Environment, Produce, Consume, BoundReached, vars, spec

-----------------------------------------------------------------------------
(* Theorems *)

\* The deployment the model starts from satisfies the invariant.
LEMMA InitInv == Init => RolloutInv
<1> SUFFICES ASSUME Init PROVE RolloutInv
  OBVIOUS
<1>1. wired \in 0..MaxConns
  BY BoundaryAssumption, BoundsAssumption, FS_CardinalityType DEF Init
<1>2. TypeOK
  <2>1. 1 \in GroupIds /\ 0 \in 0..MaxGroups
    BY BoundsAssumption DEF GroupIds
  <2>2. st \in Statuses
    BY <2>1, NoRolloutTyped, NoRollbackTyped, DigestAssumption DEF Init, Statuses
  <2>3. wire \in [ConnIds -> [b : Boundaries, g : GroupIds]]
    BY <2>1 DEF Init
  <2>4. conns \subseteq ConnIds
    BY <1>1, BoundsAssumption DEF Init, ConnIds
  <2>5. group \in [GroupIds -> Digests \union {Absent}]
    BY DigestAssumption DEF Init
  <2>6. /\ made \in GroupIds /\ running \subseteq GroupIds
        /\ queued \subseteq conns /\ stopped \subseteq Boundaries \X (0..MaxGroups)
        /\ want \in Digests /\ gen \in Nat /\ cancel \in BOOLEAN /\ dropped \in BOOLEAN
    BY <2>1, DigestAssumption DEF Init
  <2>7. /\ fails \in 0..MaxFails /\ lost \in 0..MaxLost
        /\ edits \in 0..MaxEdits /\ mids \in 0..MaxMidEdits /\ cancels \in 0..MaxCancels
    BY BoundsAssumption DEF Init
  <2> QED
    BY <1>1, <2>2, <2>3, <2>4, <2>5, <2>6, <2>7 DEF TypeOK
<1>3. GroupsInv
  BY DEF Init, GroupsInv, IdsMade, CandidateOwn, RetiresAfterRollout, RetireSafe,
         RollbackTargetExists, Active, NoRollout
<1> QED
  BY <1>2, <1>3 DEF RolloutInv, GroupsInv

\* Every reconcile and every step of the environment keeps the invariant.
LEMMA StepInv == RolloutInv /\ [Next]_vars => RolloutInv'
<1> SUFFICES ASSUME RolloutInv, [Next]_vars PROVE RolloutInv'
  OBVIOUS
<1>1. TypeOK /\ GroupsInv /\ RollbackTargetExists
  BY DEF RolloutInv, GroupsInv
<1>2. TypeOK'
  <2>1. CASE Reconcile
    BY <1>1, <2>1, OuterTyped, CandidateTyped, TrafficTyped, SwitchTyped, PromoteTyped,
       RestoreTyped, FinishTyped DEF Reconcile
  <2>2. CASE Environment \/ BoundReached
    BY <1>1, <2>2, EnvironmentTyped
  <2>3. CASE UNCHANGED vars
    BY <1>1, <2>3 DEF vars, TypeOK, nifi, groups, wiring, spec
  <2> QED
    BY <2>1, <2>2, <2>3 DEF Next
<1>3. GroupsInv'
  <2>1. CASE Reconcile
    BY <1>1, <2>1, OuterStep, CandidateStep, TrafficStep, PromoteStep, RollbackStep
       DEF Reconcile
  <2>2. CASE Environment \/ BoundReached
    BY <1>1, <2>2, EnvironmentStep
  <2>3. CASE UNCHANGED vars
    BY <1>1, <2>3, QuietStatuses, QuietStep DEF vars, nifi, groups, TypeOK, SameGroups, Active
  <2> QED
    BY <2>1, <2>2, <2>3 DEF Next
<1> QED
  BY <1>2, <1>3 DEF RolloutInv, GroupsInv

\* RolloutInv holds in every reachable state.
THEOREM RolloutInvariant == Spec => []RolloutInv
BY InitInv, StepInv, PTL DEF Spec

\* Type correctness of the rollout.
THEOREM TypeCorrect == Spec => []TypeOK
<1>1. RolloutInv => TypeOK
  BY DEF RolloutInv
<1> QED
  BY <1>1, RolloutInvariant, PTL

\* retireBlueProcessGroup never deletes the live group, and by the time it deletes
\* blue the live group holds the recorded artifact, whatever fails or is lost.
THEOREM RetirementIsSafe == Spec => []RetireSafe
<1>1. RolloutInv => RetireSafe
  BY DEF RolloutInv
<1> QED
  BY <1>1, RolloutInvariant, PTL

\* A rollout always has a blue group to roll back to.
THEOREM RollbackIsPossible == Spec => []RollbackTargetExists
<1>1. RolloutInv => RollbackTargetExists
  BY DEF RolloutInv
<1> QED
  BY <1>1, RolloutInvariant, PTL

\* The live group is promised on top of RolloutInv.
LEMMA StepLive == RolloutInv /\ LiveInv /\ [Next]_vars => LiveInv'
<1> SUFFICES ASSUME RolloutInv, LiveInv, [Next]_vars PROVE LiveInv'
  OBVIOUS
<1>1. TypeOK /\ GroupsInv
  BY DEF RolloutInv, GroupsInv
<1>2. CASE Reconcile
  BY <1>1, <1>2, OuterLive, CandidateLive, TrafficLive, PromoteLive, RollbackLive
     DEF Reconcile
<1>3. CASE Environment \/ BoundReached
  BY <1>1, <1>3, EnvironmentLive
<1>4. CASE UNCHANGED vars
  BY <1>4 DEF vars, nifi, groups, spec, LiveInv, LiveStays, ActiveIsNotReady, LiveIsBlue,
              RollsToWanted, LiveIsRecorded, Active, Exists
<1> QED
  BY <1>2, <1>3, <1>4 DEF Next

\* LiveInv holds in every reachable state.
THEOREM LiveInvariant == Spec => []LiveInv
<1>1. Init => LiveInv
  BY DigestAssumption, BoundsAssumption
     DEF Init, LiveInv, LiveStays, ActiveIsNotReady, LiveIsBlue, RollsToWanted,
         LiveIsRecorded, Active, Exists, NoRollout, GroupIds
<1> QED
  BY <1>1, StepLive, RolloutInvariant, PTL DEF Spec

\* Without a cancellation the group the status calls live is on the canvas, whatever call
\* fails and whichever status write is lost.
THEOREM LiveGroupStays == Spec => []LiveGroupExists
<1>1. LiveInv => LiveGroupExists
  BY DEF LiveInv, LiveStays, LiveGroupExists
<1> QED
  BY <1>1, LiveInvariant, PTL

\* A deployment that says Ready runs the recorded artifact, unless a rollout was cancelled
\* or given another source on its way.
THEOREM ReadyIsDeployed == Spec => []ReadyMeansDeployed
<1>1. LiveInv => ReadyMeansDeployed
  BY DEF LiveInv, ActiveIsNotReady, LiveIsRecorded, ReadyMeansDeployed
<1> QED
  BY <1>1, LiveInvariant, PTL

-----------------------------------------------------------------------------
(* Queues: nothing that flowed is discarded *)

\* A promotion whose write is lost, or whose rename failed, has started the candidate and
\* is not recorded. Either no such thing happens, or nobody cancels the rollout then.
WholePromotions == MaxCancels = 0 \/ (MaxLost = 0 /\ "rename" \notin FaultPoints)

\* Ids are handed out in order: what exists and what runs was made.
Numbered == conns \subseteq 1..wired /\ running \subseteq 1..made

\* The traffic may still go back to blue.
MayFallBack == Active /\ (st.ro.phase = "Promoting" => MaxCancels # 0)

\* A record names the connection of its boundary at the candidate; before there is a
\* candidate there is no record.
GreensKnown ==
  /\ st.ro.phase = "DeployingCandidate" => st.ro.keys = {}
  /\ \A k \in st.ro.keys : k \in 1..wired
  /\ \A k \in Switched : /\ Green(k) \in 1..wired
                         /\ wire[Green(k)] = [b |-> wire[k].b, g |-> st.ro.cand]

\* Until then nothing flows through the candidate: it does not run, and the sources that
\* feed it are stopped.
CandidateIdle ==
  MayFallBack =>
    /\ st.ro.cand \notin running
    /\ \A k \in Switched : /\ Green(k) \notin queued
                           /\ wire[k].b \in Inbound => <<wire[k].b, 0>> \in stopped

IdleInv ==
  /\ Numbered /\ GreensKnown /\ CandidateIdle
  /\ cancel => MaxCancels # 0
  /\ ~dropped

\* Deleting a group stops it; the others run on.
LEMMA DeleteStops ==
  ASSUME NEW g, NEW started, DeleteProcessGroup(g, started)
  PROVE  running' \subseteq started
BY DEF DeleteProcessGroup

\* Sources are only stopped while traffic is switched.
LEMMA StopKeeps ==
  ASSUME NEW k, StopSource(k)
  PROVE  stopped \subseteq stopped'
BY DEF StopSource

\* A step that leaves the connections, or deletes some, and the records, or drops some; what
\* it starts and restarts is of no concern once the traffic cannot go back.
LEMMA IdleKept ==
  ASSUME IdleInv, Numbered', UNCHANGED <<wire, wired, dropped>>,
         cancel' => MaxCancels # 0,
         st'.ro.keys \subseteq st.ro.keys, st'.ro.cand = st.ro.cand,
         Switched' \subseteq Switched, \A k \in Switched' : Green(k)' = Green(k),
         st'.ro.phase # "DeployingCandidate" \/ st'.ro.phase = st.ro.phase,
         MayFallBack' =>
           /\ MayFallBack /\ st.ro.cand \notin running' /\ queued' \subseteq queued
           /\ Switched' = {} \/ stopped \subseteq stopped'
  PROVE  IdleInv'
<1>1. GreensKnown'
  BY DEF IdleInv, GreensKnown
<1>2. CandidateIdle'
  BY DEF IdleInv, CandidateIdle
<1> QED
  BY <1>1, <1>2 DEF IdleInv

\* The same, when the status stays as it is and no group is started.
LEMMA IdleStays ==
  ASSUME IdleInv, Numbered', UNCHANGED <<wire, wired, dropped, st>>,
         cancel' => MaxCancels # 0, running' \subseteq running,
         queued' \subseteq queued, stopped \subseteq stopped'
  PROVE  IdleInv'
<1>1. /\ Switched' = Switched /\ \A k : Green(k)' = Green(k)
      /\ MayFallBack' = MayFallBack
  BY DEF Switched, Green, MayFallBack, Active
<1>2. MayFallBack => st.ro.cand \notin running'
  BY DEF IdleInv, CandidateIdle
<1> QED
  BY <1>1, <1>2, IdleKept

\* A step that changes neither NiFi nor what the records say, and does not bring the way
\* back with it.
LEMMA IdleFrozen ==
  ASSUME IdleInv, UNCHANGED <<nifi, dropped>>, cancel' => MaxCancels # 0,
         st'.ro.keys = st.ro.keys, st'.ro.cand = st.ro.cand,
         \A k \in st.ro.keys : /\ st'.ro.recs[k].switched = st.ro.recs[k].switched
                               /\ st'.ro.recs[k].green = st.ro.recs[k].green,
         st'.ro.phase # "DeployingCandidate" \/ st'.ro.phase = st.ro.phase,
         MayFallBack' => MayFallBack
  PROVE  IdleInv'
<1>1. UNCHANGED <<group, made, running, conns, wire, wired, queued, stopped, dropped>>
  BY DEF nifi, groups, wiring
<1>2. Numbered'
  BY <1>1 DEF IdleInv, Numbered
<1>3. Switched' = Switched /\ \A k \in Switched : Green(k)' = Green(k)
  BY DEF Switched, Green
<1>4. MayFallBack => st.ro.cand \notin running'
  BY <1>1 DEF IdleInv, CandidateIdle
<1> QED
  BY <1>1, <1>2, <1>3, <1>4, IdleKept

\* Without a switched connection only the candidate matters.
LEMMA IdleFresh ==
  ASSUME IdleInv, Numbered', UNCHANGED <<dropped, cancel>>, Switched' = {},
         st'.ro.keys \subseteq 1..wired',
         st'.ro.phase = "DeployingCandidate" => st'.ro.keys = {},
         MayFallBack' => st'.ro.cand \notin running'
  PROVE  IdleInv'
<1>1. GreensKnown' /\ CandidateIdle'
  BY DEF GreensKnown, CandidateIdle
<1> QED
  BY <1>1 DEF IdleInv

\* A rollout that ended, or begins, has no records.
LEMMA IdleEnded ==
  ASSUME IdleInv, Numbered', UNCHANGED <<dropped, cancel>>,
         st'.ro.keys = {}, st'.ro.cand = 0
  PROVE  IdleInv'
<1>1. Switched' = {} /\ st'.ro.keys \subseteq 1..wired'
  BY DEF Switched
<1>2. st'.ro.cand \notin running'
  <2>1. 0 \notin 1..made'
    OBVIOUS
  <2> QED
    BY <2>1 DEF Numbered
<1> QED
  BY <1>1, <1>2, IdleFresh

\* NoRollout has no records.
LEMMA NoRecords == NoRollout.keys = {} /\ NoRollout.cand = 0 /\ NoRollout.phase = "None"
BY DEF NoRollout

\* The statuses the handlers write keep the rollout, or end it.
LEMMA RecordsStay ==
  ASSUME st \in Statuses, NEW digest
  PROVE  /\ Failed(st).ro = st.ro /\ [st EXCEPT !.retiring = 0].ro = st.ro
         /\ InSync(st, digest).ro = NoRollout
         /\ Failed([st EXCEPT !.ro = NoRollout]).ro = NoRollout
<1>1. Failed(st).ro = st.ro /\ [st EXCEPT !.retiring = 0].ro = st.ro
  BY DEF Failed, Statuses
<1>2. InSync(st, digest).ro = NoRollout
  BY DEF InSync, Statuses
<1>3. Failed([st EXCEPT !.ro = NoRollout]).ro = NoRollout
  BY DEF Failed, Statuses
<1> QED
  BY <1>1, <1>2, <1>3

\* A rollback or a promotion starts with the records there are.
LEMMA RollbackRecords ==
  ASSUME st \in Statuses, NEW phase, NEW s,
         s = [st EXCEPT !.ro.phase = phase] \/ s = Failed([st EXCEPT !.ro.phase = phase])
  PROVE  /\ s.ro.inv = st.ro.inv /\ s.ro.keys = st.ro.keys /\ s.ro.recs = st.ro.recs
         /\ s.ro.blue = st.ro.blue /\ s.ro.cand = st.ro.cand /\ s.ro.phase = phase
<1>1. s.ro = [st.ro EXCEPT !.phase = phase]
  BY DEF Failed, Statuses
<1> QED
  BY <1>1 DEF Statuses, Rollouts

\* The write of a status that keeps the records lands or is lost.
LEMMA IdleSaved ==
  ASSUME IdleInv, UNCHANGED <<nifi, cancel, dropped>>, NEW s, Save(s),
         s.ro.keys = st.ro.keys, s.ro.cand = st.ro.cand, s.ro.recs = st.ro.recs,
         s.ro.phase # "DeployingCandidate" \/ s.ro.phase = st.ro.phase,
         s.ro.phase \notin {"None", "Promoting"} => MayFallBack,
         s.ro.phase = "Promoting" => Active
  PROVE  IdleInv'
<1>1. cancel' => MaxCancels # 0
  BY DEF IdleInv
<1>2. st' = s \/ st' = st
  BY DEF Save
<1>3. /\ st'.ro.keys = st.ro.keys /\ st'.ro.cand = st.ro.cand /\ st'.ro.recs = st.ro.recs
      /\ st'.ro.phase # "DeployingCandidate" \/ st'.ro.phase = st.ro.phase
  BY <1>2
<1>4. MayFallBack' => MayFallBack
  BY <1>2 DEF MayFallBack, Active
<1> QED
  BY <1>1, <1>3, <1>4, IdleFrozen

\* The steps before the rollout proper.
LEMMA OuterIdle ==
  ASSUME TypeOK, GroupsInv, IdleInv,
         RetireBlue \/ CancelRollout \/ LiveNotFound \/ RequeueBlocked \/ MarkInSync
  PROVE  IdleInv'
<1>1. st \in Statuses /\ Numbered /\ (cancel => MaxCancels # 0)
  BY DEF TypeOK, IdleInv
<1>2. CASE RetireBlue
  <2>1. /\ UNCHANGED <<made, conns, wire, wired, queued, stopped, cancel, dropped>>
        /\ running' \subseteq running /\ ~Active
    BY <1>2, DeleteStops DEF RetireBlue, wiring, spec, GroupsInv, RetiresAfterRollout
  <2>2. st'.ro = st.ro
    BY <1>1, <1>2, RecordsStay DEF RetireBlue, Save
  <2>3. Switched' = Switched /\ (\A k : Green(k)' = Green(k)) /\ ~MayFallBack'
    BY <2>1, <2>2 DEF Switched, Green, MayFallBack, Active
  <2>4. Numbered'
    BY <1>1, <2>1 DEF Numbered
  <2> QED
    BY <1>1, <2>1, <2>2, <2>3, <2>4, IdleKept
<1>3. CASE CancelRollout
  <2>1. MayFallBack
    BY <1>1, <1>3 DEF CancelRollout, Cancelling, MayFallBack
  <2>2. UNCHANGED <<nifi, cancel, dropped>> /\ Save(StartedRollback)
    BY <1>3 DEF CancelRollout, spec
  <2>3. /\ StartedRollback.ro.keys = st.ro.keys /\ StartedRollback.ro.cand = st.ro.cand
        /\ StartedRollback.ro.recs = st.ro.recs
        /\ StartedRollback.ro.phase = "RollingBackTraffic"
    BY <1>1, RollbackRecords DEF StartedRollback
  <2> QED
    BY <2>1, <2>2, <2>3, IdleSaved
<1>4. CASE LiveNotFound
  <2>1. UNCHANGED <<nifi, cancel, dropped>> /\ st'.ro = st.ro
    BY <1>1, <1>4, RecordsStay DEF LiveNotFound, spec, Save
  <2> QED
    BY <1>1, <2>1, IdleFrozen DEF MayFallBack, Active
<1>5. CASE RequeueBlocked
  BY <1>1, <1>5, IdleFrozen DEF RequeueBlocked, vars, spec, MayFallBack, Active
<1>6. CASE MarkInSync
  <2>1. /\ UNCHANGED <<nifi, cancel, dropped>> /\ Numbered'
        /\ st'.ro = st.ro \/ st'.ro = NoRollout
    BY <1>1, <1>6, RecordsStay
       DEF MarkInSync, spec, Save, Numbered, nifi, groups, wiring
  <2>2. CASE st'.ro = st.ro
    BY <1>1, <2>1, <2>2, IdleFrozen DEF MayFallBack, Active
  <2>3. CASE st'.ro = NoRollout
    BY <2>1, <2>3, IdleEnded, NoRecords
  <2> QED
    BY <2>1, <2>2, <2>3
<1> QED
  BY <1>2, <1>3, <1>4, <1>5, <1>6

\* blueGreenAbort stops the candidate, and ends the rollout if its write is not lost.
LEMMA AbortIdle ==
  ASSUME TypeOK, IdleInv, Abort
  PROVE  IdleInv'
<1>1. st \in Statuses /\ Numbered /\ (cancel => MaxCancels # 0)
  BY DEF TypeOK, IdleInv
<1>2. /\ UNCHANGED <<made, conns, wire, wired, queued, stopped, cancel, dropped>>
      /\ running' \subseteq running
  BY DeleteStops DEF Abort, wiring, spec
<1>3. Numbered'
  BY <1>1, <1>2 DEF Numbered
<1>4. st' = st \/ st'.ro = NoRollout
  BY <1>1, RecordsStay DEF Abort, Save
<1>5. CASE st' = st
  BY <1>1, <1>2, <1>3, <1>5, IdleStays
<1>6. CASE st'.ro = NoRollout
  BY <1>2, <1>3, <1>6, IdleEnded, NoRecords
<1> QED
  BY <1>4, <1>5, <1>6

\* The candidate of a new rollout has not been started.
LEMMA NewCandidateIdle ==
  ASSUME TypeOK, IdleInv,
         \/ StartRollout \/ DeployCandidate
         \/ CandidateReady \/ CandidateUnreachable \/ CandidateExpires
  PROVE  IdleInv'
<1>1. /\ st \in Statuses /\ Numbered /\ GreensKnown /\ (cancel => MaxCancels # 0)
      /\ made \in GroupIds
  BY DEF TypeOK, IdleInv
<1>2. CASE StartRollout
  <2> DEFINE ro == [NoRollout EXCEPT !.phase = "DeployingCandidate", !.target = want,
                                     !.blue = st.pg]
  <2>1. ro.keys = {} /\ ro.cand = 0
    BY DEF NoRollout
  <2>2. Save(Failed([st EXCEPT !.ro = ro]))
    BY <1>2 DEF StartRollout
  <2> HIDE DEF ro
  <2>3. st' = st \/ st'.ro = ro
    BY <1>1, <2>2 DEF Save, Failed, Statuses
  <2>4. UNCHANGED <<nifi, cancel, dropped>> /\ Numbered'
    BY <1>1, <1>2 DEF StartRollout, spec, Numbered, nifi, groups, wiring
  <2>5. CASE st' = st
    BY <1>1, <2>4, <2>5, IdleFrozen DEF MayFallBack, Active
  <2>6. CASE st'.ro = ro
    BY <2>1, <2>4, <2>6, IdleEnded
  <2> QED
    BY <2>3, <2>5, <2>6
<1>3. CASE DeployCandidate
  <2>1. UNCHANGED <<running, conns, wire, wired, queued, stopped, cancel, dropped>>
    BY <1>3 DEF DeployCandidate, wiring, spec
  <2>2. st.ro.phase = "DeployingCandidate" /\ st.ro.keys = {}
    BY <1>1, <1>3 DEF DeployCandidate, InPhase, GreensKnown
  <2>3. CASE Save(Failed(st)) /\ UNCHANGED <<group, made>>
    <3>1. st'.ro = st.ro /\ UNCHANGED nifi
      BY <1>1, <2>1, <2>3, RecordsStay DEF Save, nifi, groups, wiring
    <3> QED
      BY <1>1, <2>1, <3>1, IdleFrozen DEF MayFallBack, Active
  <2>4. CASE /\ made < MaxGroups /\ made' = made + 1
             /\ Save([st EXCEPT !.ro.cand = made', !.ro.phase = "AwaitingReadiness"])
    <3>1. Numbered' /\ made' \notin running
      <4>1. 1..made \subseteq 1..made' /\ made' \notin 1..made
        BY <1>1, <2>4, BoundsAssumption DEF GroupIds
      <4> QED
        BY <1>1, <2>1, <4>1 DEF Numbered
    <3>2. CASE st' = st
      BY <1>1, <2>1, <3>1, <3>2, IdleStays
    <3>3. CASE st' = [st EXCEPT !.ro.cand = made', !.ro.phase = "AwaitingReadiness"]
      <4>1. /\ st'.ro.keys = {} /\ st'.ro.cand = made'
        BY <1>1, <2>2, <3>3 DEF Statuses, Rollouts
      <4>2. Switched' = {} /\ st'.ro.keys \subseteq 1..wired'
        BY <4>1 DEF Switched
      <4> QED
        BY <2>1, <3>1, <4>1, <4>2, IdleFresh
    <3> QED
      BY <2>4, <3>2, <3>3 DEF Save
  <2> QED
    BY <1>3, <2>3, <2>4 DEF DeployCandidate
<1>4. CASE CandidateReady
  <2> DEFINE s == [st EXCEPT !.ro.phase = "SwitchingTraffic"]
  <2>1. UNCHANGED <<nifi, cancel, dropped>> /\ Save(s) /\ MayFallBack
    BY <1>4 DEF CandidateReady, spec, InPhase, MayFallBack, Active
  <2>2. /\ s.ro.keys = st.ro.keys /\ s.ro.cand = st.ro.cand /\ s.ro.recs = st.ro.recs
        /\ s.ro.phase = "SwitchingTraffic"
    BY <1>1 DEF Statuses, Rollouts
  <2> HIDE DEF s
  <2> QED
    BY <2>1, <2>2, IdleSaved
<1>5. CASE CandidateUnreachable
  <2>1. UNCHANGED <<nifi, cancel, dropped>> /\ st'.ro = st.ro
    BY <1>1, <1>5, RecordsStay DEF CandidateUnreachable, spec, Save
  <2> QED
    BY <1>1, <2>1, IdleFrozen DEF MayFallBack, Active
<1>6. CASE CandidateExpires
  BY <1>6, AbortIdle DEF CandidateExpires
<1> QED
  BY <1>2, <1>3, <1>4, <1>5, <1>6

\* A record is connected anew: at the candidate, with its source stopped, or at blue.
LEMMA IdleConnected ==
  ASSUME TypeOK, IdleInv, NEW k \in st.ro.keys, NEW g, NEW rest \in SUBSET conns,
         Connect(wire[k].b, g, rest), queued' \subseteq queued,
         UNCHANGED <<made, running, dropped, cancel>>, stopped \subseteq stopped',
         st'.ro.keys = st.ro.keys, st'.ro.cand = st.ro.cand, st'.ro.phase = st.ro.phase,
         \A j \in Switched' :
           \/ j \in Switched /\ Green(j)' = Green(j)
           \/ /\ j = k /\ Green(j)' = wired' /\ g = st.ro.cand
              /\ wire[k].b \in Inbound => <<wire[k].b, 0>> \in stopped'
  PROVE  IdleInv'
<1>1. /\ wired' = wired + 1 /\ wired \in Nat /\ wired' \in ConnIds
      /\ conns' = rest \union {wired'}
      /\ wire' = [wire EXCEPT ![wired'] = [b |-> wire[k].b, g |-> g]]
      /\ wire \in [ConnIds -> [b : Boundaries, g : GroupIds]]
      /\ queued \subseteq conns /\ conns \subseteq 1..wired
  BY BoundsAssumption DEF Connect, TypeOK, ConnIds, IdleInv, Numbered
<1>2. wire'[wired'] = [b |-> wire[k].b, g |-> g] /\ \A c \in 1..wired : wire'[c] = wire[c]
  <2>1. 1..wired \subseteq ConnIds /\ wired' \notin 1..wired
    BY <1>1, BoundsAssumption DEF ConnIds
  <2> QED
    BY <1>1, <2>1
<1>3. 1..wired \subseteq 1..wired' /\ wired' \in 1..wired' /\ wired' \notin 1..wired
  BY <1>1
<1>4. Numbered'
  BY <1>1, <1>3 DEF IdleInv, Numbered
<1>5. \A j \in st.ro.keys : wire'[j] = wire[j] /\ j \in 1..wired'
  BY <1>2, <1>3 DEF IdleInv, GreensKnown
<1>6. wired' \notin queued'
  BY <1>1, <1>3
<1>7. Switched' \subseteq st.ro.keys /\ MayFallBack' = MayFallBack
  BY DEF Switched, MayFallBack, Active
<1>8. GreensKnown'
  <2>1. ASSUME NEW j \in Switched'
        PROVE  /\ Green(j)' \in 1..wired'
               /\ wire'[Green(j)'] = [b |-> wire'[j].b, g |-> st.ro.cand]
    BY <1>2, <1>3, <1>5, <1>7 DEF IdleInv, GreensKnown
  <2> QED
    BY <1>5, <2>1 DEF IdleInv, GreensKnown
<1>9. CandidateIdle'
  <2>1. ASSUME NEW j \in Switched', MayFallBack
        PROVE  /\ Green(j)' \notin queued'
               /\ wire'[j].b \in Inbound => <<wire'[j].b, 0>> \in stopped'
    BY <1>5, <1>6, <1>7, <2>1 DEF IdleInv, CandidateIdle
  <2> QED
    BY <1>7, <2>1 DEF IdleInv, CandidateIdle
<1> QED
  BY <1>4, <1>8, <1>9 DEF IdleInv

\* Steps that stop a source or take a connection away, and keep the records or start a
\* rollback.
LEMMA IdleTurned ==
  ASSUME TypeOK, IdleInv, MayFallBack,
         UNCHANGED <<made, running, wire, wired, dropped, cancel>>,
         conns' \subseteq conns, queued' \subseteq queued, stopped \subseteq stopped',
         st' = st \/ st' = StartedRollback \/ st' = Failed(st)
  PROVE  IdleInv'
<1>1. st \in Statuses /\ (cancel => MaxCancels # 0) /\ Numbered' /\ st.ro.cand \notin running'
  BY DEF TypeOK, IdleInv, Numbered, CandidateIdle
<1>2. /\ st'.ro.keys = st.ro.keys /\ st'.ro.cand = st.ro.cand /\ st'.ro.recs = st.ro.recs
      /\ st'.ro.phase \in {st.ro.phase, "RollingBackTraffic"}
  BY <1>1, RecordsStay, RollbackRecords DEF StartedRollback
<1>3. Switched' = Switched /\ \A k : Green(k)' = Green(k)
  BY <1>2 DEF Switched, Green
<1> QED
  BY <1>1, <1>2, <1>3, IdleKept

\* blueGreenSwitchConnection empties only queues of blue, of which it waited for the last
\* flow file or whose policy is Drop.
LEMMA SwitchIdle ==
  ASSUME TypeOK, IdleInv, NEW k \in ConnIds, SwitchStep(k)
  PROVE  IdleInv'
<1>1. /\ st \in Statuses /\ ~dropped /\ dropped \in BOOLEAN
  BY DEF TypeOK, IdleInv
<1>2. Switching(k)
  BY DEF SwitchStep, UnmatchedPort, StopFails, QueueFails, AwaitDrain, DrainExpires,
         DeleteFails, Switch, SwitchTorn
<1>3. /\ st.ro.phase = "SwitchingTraffic" /\ k \in st.ro.keys /\ MayFallBack
      /\ ~st.ro.recs[k].switched
  BY <1>2 DEF Switching, InPhase, First, Unswitched, Switched, MayFallBack, Active
<1>4. Drained(k) /\ EmptyQueue(Orig(k)) => UNCHANGED dropped
  BY <1>1 DEF Drained, EmptyQueue
<1>5. CASE \/ UnmatchedPort(k) \/ StopFails(k) \/ QueueFails(k) \/ DrainExpires(k)
           \/ DeleteFails(k) \/ SwitchTorn(k)
  <2>1. /\ UNCHANGED <<made, running, wire, wired, dropped, cancel>>
        /\ conns' \subseteq conns /\ queued' \subseteq queued /\ stopped \subseteq stopped'
    BY <1>4, <1>5, StopKeeps
       DEF UnmatchedPort, StopFails, QueueFails, DrainExpires, DeleteFails, SwitchTorn,
           EmptyQueue, nifi, groups, wiring, spec
  <2>2. st' = st \/ st' = StartedRollback
    BY <1>5
       DEF UnmatchedPort, StopFails, QueueFails, DrainExpires, DeleteFails, SwitchTorn, Save,
           Crash
  <2> QED
    BY <1>3, <2>1, <2>2, IdleTurned
<1>6. CASE AwaitDrain(k)
  <2>1. /\ UNCHANGED <<made, running, conns, wire, wired, queued, dropped, cancel>>
        /\ stopped \subseteq stopped'
    BY <1>6, StopKeeps DEF AwaitDrain, groups, wiring, spec
  <2>2. st' = st \/ st' = [st EXCEPT !.ro.recs[k].draining = TRUE]
    BY <1>6 DEF AwaitDrain, Save
  <2>3. CASE st' = st
    BY <1>3, <2>1, <2>3, IdleTurned
  <2>4. CASE st' = [st EXCEPT !.ro.recs[k].draining = TRUE]
    <3>1. /\ st'.ro.keys = st.ro.keys /\ st'.ro.cand = st.ro.cand
          /\ st'.ro.phase = st.ro.phase
          /\ st'.ro.recs = [st.ro.recs EXCEPT ![k].draining = TRUE]
      BY <1>1, <2>4 DEF Statuses, Rollouts
    <3>2. \A j \in st.ro.keys : /\ st'.ro.recs[j].switched = st.ro.recs[j].switched
                                /\ st'.ro.recs[j].green = st.ro.recs[j].green
      BY <1>1, <3>1 DEF Statuses, Rollouts, Records
    <3>3. Switched' = Switched /\ \A j \in Switched : Green(j)' = Green(j)
      BY <3>1, <3>2 DEF Switched, Green
    <3>4. Numbered' /\ (cancel => MaxCancels # 0) /\ st.ro.cand \notin running'
      BY <1>3, <2>1 DEF IdleInv, Numbered, CandidateIdle
    <3> QED
      BY <1>3, <2>1, <3>1, <3>3, <3>4, IdleKept
  <2> QED
    BY <2>2, <2>3, <2>4
<1>7. CASE Switch(k)
  <2>1. /\ UNCHANGED <<made, running, dropped, cancel>> /\ queued' \subseteq queued
        /\ stopped \subseteq stopped'
        /\ Connect(wire[k].b, st.ro.cand, conns \ {Orig(k)})
    BY <1>4, <1>7, StopKeeps DEF Switch, EmptyQueue, groups, spec
  <2>2. \/ st' = st
        \/ st' = [st EXCEPT !.ro.recs[k].green = wired', !.ro.recs[k].switched = TRUE]
    BY <1>7 DEF Switch, Save
  <2>3. /\ st'.ro.keys = st.ro.keys /\ st'.ro.cand = st.ro.cand
        /\ st'.ro.phase = st.ro.phase
        /\ \/ st'.ro.recs = st.ro.recs
           \/ st'.ro.recs = [st.ro.recs EXCEPT ![k].green = wired', ![k].switched = TRUE]
    <3>1. CASE st' = st
      BY <3>1
    <3>2. CASE st' = [st EXCEPT !.ro.recs[k].green = wired', !.ro.recs[k].switched = TRUE]
      BY <1>1, <3>2 DEF Statuses, Rollouts
    <3> QED
      BY <2>2, <3>1, <3>2
  <2>4. \A j \in st.ro.keys :
          \/ /\ st'.ro.recs[j].switched = st.ro.recs[j].switched
             /\ st'.ro.recs[j].green = st.ro.recs[j].green
          \/ j = k /\ st'.ro.recs[j].green = wired'
    BY <1>1, <2>3 DEF Statuses, Rollouts, Records
  <2>5. wire[k].b \in Inbound => <<wire[k].b, 0>> \in stopped'
    BY <1>7 DEF Switch, StopSource, Source
  <2>6. \A j \in Switched' :
          \/ j \in Switched /\ Green(j)' = Green(j)
          \/ /\ j = k /\ Green(j)' = wired'
             /\ wire[k].b \in Inbound => <<wire[k].b, 0>> \in stopped'
    BY <2>3, <2>4, <2>5 DEF Switched, Green
  <2> QED
    BY <1>3, <2>1, <2>3, <2>6, IdleConnected
<1> QED
  BY <1>5, <1>6, <1>7 DEF SwitchStep

\* The rest of blueGreenSwitchTraffic.
LEMMA TrafficIdle ==
  ASSUME TypeOK, IdleInv,
         \/ Inventory \/ InventoryFails \/ PortsFail \/ AllSwitched
         \/ \E k \in ConnIds : SwitchStep(k)
  PROVE  IdleInv'
<1>1. st \in Statuses /\ Numbered /\ (cancel => MaxCancels # 0)
  BY DEF TypeOK, IdleInv
<1>2. CASE InventoryFails \/ PortsFail
  BY <1>2, AbortIdle DEF InventoryFails, PortsFail
<1>3. CASE AllSwitched
  <2> DEFINE s == [st EXCEPT !.ro.phase = "Promoting"]
  <2>1. UNCHANGED <<nifi, cancel, dropped>> /\ Save(s) /\ Active
    BY <1>3 DEF AllSwitched, spec, InPhase, Active
  <2>2. /\ s.ro.keys = st.ro.keys /\ s.ro.cand = st.ro.cand /\ s.ro.recs = st.ro.recs
        /\ s.ro.phase = "Promoting"
    BY <1>1 DEF Statuses, Rollouts
  <2> HIDE DEF s
  <2> QED
    BY <2>1, <2>2, IdleSaved
<1>4. CASE Inventory
  <2> DEFINE recs == [k \in ConnIds |-> IF k \in Attached(st.ro.blue)
                                         THEN [NoRecord EXCEPT !.orig = k]
                                         ELSE NoRecord]
  <2>1. \A k \in ConnIds : ~recs[k].switched
    BY DEF NoRecord
  <2> HIDE DEF recs
  <2>2. UNCHANGED <<nifi, cancel, dropped>> /\ MayFallBack
    BY <1>4 DEF Inventory, spec, InPhase, MayFallBack, Active
  <2>3. \/ st' = st
        \/ st' = [st EXCEPT !.ro.inv = TRUE, !.ro.keys = Attached(st.ro.blue), !.ro.recs = recs]
    BY <1>4 DEF Inventory, Save, recs
  <2>4. UNCHANGED <<made, running, conns, wire, wired, queued, stopped>> /\ Numbered'
    BY <1>1, <2>2 DEF nifi, groups, wiring, Numbered
  <2>5. CASE st' = st
    BY <1>1, <2>2, <2>4, <2>5, IdleStays
  <2>6. CASE st' = [st EXCEPT !.ro.inv = TRUE, !.ro.keys = Attached(st.ro.blue),
                              !.ro.recs = recs]
    <3>1. /\ st'.ro.keys = Attached(st.ro.blue) /\ st'.ro.recs = recs
          /\ st'.ro.cand = st.ro.cand /\ st'.ro.phase = st.ro.phase
      BY <1>1, <2>6 DEF Statuses, Rollouts
    <3>2. Attached(st.ro.blue) \subseteq 1..wired /\ Attached(st.ro.blue) \subseteq ConnIds
      BY <1>1 DEF Attached, Numbered, TypeOK
    <3>3. Switched' = {}
      BY <2>1, <3>1, <3>2 DEF Switched
    <3>4. st.ro.phase # "DeployingCandidate" /\ st.ro.cand \notin running'
      BY <1>4, <2>2, <2>4 DEF Inventory, InPhase, IdleInv, CandidateIdle
    <3> QED
      BY <2>2, <2>4, <3>1, <3>2, <3>3, <3>4, IdleFresh
  <2> QED
    BY <2>3, <2>5, <2>6
<1> QED
  BY <1>2, <1>3, <1>4, SwitchIdle

\* The promotion starts the candidate. Nobody may cancel it then, or it happens as a whole.
LEMMA PromoteIdle ==
  ASSUME TypeOK, GroupsInv, IdleInv, WholePromotions, PromoteFails \/ RenameFails \/ Promote
  PROVE  IdleInv'
<1>1. /\ st \in Statuses /\ Numbered /\ (cancel => MaxCancels # 0)
      /\ made \in GroupIds /\ lost \in 0..MaxLost
  BY DEF TypeOK, IdleInv
<1>2. CASE PromoteFails
  <2>1. UNCHANGED <<nifi, cancel, dropped>> /\ st'.ro = st.ro
    BY <1>1, <1>2, RecordsStay DEF PromoteFails, spec, Save
  <2> QED
    BY <1>1, <2>1, IdleFrozen DEF MayFallBack, Active
<1>3. CASE RenameFails \/ Promote
  <2>1. /\ UNCHANGED <<made, conns, wire, wired, queued, dropped, cancel>>
        /\ running' = running \union {st.ro.cand} /\ CandidateFound
    BY <1>3 DEF RenameFails, Promote, wiring, spec
  <2>2. st.ro.cand \in 1..made
    <3>1. st.ro.cand \in 0..MaxGroups /\ st.ro.cand # 0 /\ st.ro.cand <= made
      BY <1>1, <2>1 DEF GroupsInv, IdsMade, Statuses, Rollouts, Exists, CandidateFound
    <3> QED
      BY <1>1, <3>1, BoundsAssumption DEF GroupIds
  <2>3. Numbered'
    BY <1>1, <2>1, <2>2 DEF Numbered
  <2>4. st'.ro = st.ro \/ st'.ro = NoRollout
    <3>1. /\ Failed([st EXCEPT !.pg = st.ro.cand]).ro = st.ro
          /\ InSync([st EXCEPT !.pg = st.ro.cand, !.retiring = st.ro.blue], want).ro = NoRollout
      BY <1>1 DEF Failed, InSync, Statuses
    <3> QED
      BY <1>3, <3>1 DEF RenameFails, Promote, Save
  <2>5. CASE st'.ro = NoRollout
    BY <2>1, <2>3, <2>5, IdleEnded, NoRecords
  <2>6. CASE st'.ro = st.ro
    <3>1. st.ro.phase = "Promoting"
      BY <2>1 DEF CandidateFound, InPhase
    <3>2. MaxCancels = 0
      <4>1. SUFFICES ASSUME MaxLost = 0, "rename" \notin FaultPoints PROVE FALSE
        BY DEF WholePromotions
      <4>2. Promote /\ ~(lost < MaxLost)
        BY <1>1, <1>3, <4>1 DEF RenameFails, CallFails
      <4>3. st'.ro = NoRollout
        BY <1>1, <4>2 DEF Promote, Save, InSync, Statuses
      <4> QED
        BY <2>6, <3>1, <4>3, NoRecords
    <3>3. ~MayFallBack'
      BY <2>6, <3>1, <3>2 DEF MayFallBack
    <3>4. Switched' = Switched /\ \A k : Green(k)' = Green(k)
      BY <2>6 DEF Switched, Green
    <3> QED
      BY <1>1, <2>1, <2>3, <2>6, <3>3, <3>4, IdleKept
  <2> QED
    BY <2>4, <2>5, <2>6
<1> QED
  BY <1>2, <1>3

\* A rollback drops the queues of green connections unread: they are empty.
LEMMA RollbackIdle ==
  ASSUME TypeOK, GroupsInv, IdleInv, FinishRollback \/ \E k \in ConnIds : RestoreStep(k)
  PROVE  IdleInv'
<1>1. /\ st \in Statuses /\ Numbered /\ (cancel => MaxCancels # 0)
      /\ ~dropped /\ dropped \in BOOLEAN
  BY DEF TypeOK, IdleInv
<1>2. st.ro.phase = "RollingBackTraffic" /\ MayFallBack
  BY DEF FinishRollback, RestoreStep, RestoreConnection, RestoreUnseen, RestoreStalls,
         RestoreTorn, Restoring, InPhase, MayFallBack, Active
<1>3. ASSUME NEW k \in ConnIds, RestoreStep(k)
      PROVE  IdleInv'
  <2>1. k \in st.ro.keys /\ k \in Switched
    BY <1>3 DEF RestoreStep, RestoreConnection, RestoreUnseen, RestoreStalls, RestoreTorn,
                Restoring, First, Switched
  <2>2. Green(k) \notin queued
    BY <1>2, <2>1 DEF IdleInv, CandidateIdle
  <2>3. DropGreen(k) => queued' \subseteq queued /\ UNCHANGED dropped
    BY <1>1, <2>2 DEF DropGreen, EmptyQueue
  <2>4. CASE RestoreConnection(k) \/ RestoreUnseen(k)
    <3>1. /\ UNCHANGED <<made, running, dropped, stopped, cancel>> /\ queued' \subseteq queued
          /\ \E rest \in SUBSET conns : Connect(wire[k].b, st.ro.blue, rest)
      BY <2>3, <2>4 DEF RestoreConnection, RestoreUnseen, groups, spec
    <3>2. st' = st \/ st' = [st EXCEPT !.ro.recs[k] = [NoRecord EXCEPT !.orig = wired']]
      BY <2>4 DEF RestoreConnection, RestoreUnseen, Save
    <3>3. /\ st'.ro.keys = st.ro.keys /\ st'.ro.cand = st.ro.cand
          /\ st'.ro.phase = st.ro.phase
          /\ \/ st'.ro.recs = st.ro.recs
             \/ st'.ro.recs = [st.ro.recs EXCEPT ![k] = [NoRecord EXCEPT !.orig = wired']]
      BY <1>1, <3>2 DEF Statuses, Rollouts
    <3>4. ~[NoRecord EXCEPT !.orig = wired'].switched
      BY DEF NoRecord
    <3>5. \A j \in st.ro.keys : \/ st'.ro.recs[j] = st.ro.recs[j]
                                \/ ~st'.ro.recs[j].switched
      BY <1>1, <3>3, <3>4 DEF Statuses, Rollouts
    <3>6. \A j \in Switched' : j \in Switched /\ Green(j)' = Green(j)
      BY <3>3, <3>5 DEF Switched, Green
    <3> QED
      BY <2>1, <3>1, <3>3, <3>6, IdleConnected
  <2>5. CASE RestoreStalls(k) \/ RestoreTorn(k)
    <3>1. /\ UNCHANGED <<made, running, wire, wired, stopped, dropped, cancel>>
          /\ conns' \subseteq conns /\ queued' \subseteq queued
      BY <2>3, <2>5 DEF RestoreStalls, RestoreTorn, groups, wiring, spec
    <3>2. st' = st \/ st' = Failed(st)
      BY <2>5 DEF RestoreStalls, RestoreTorn, Save, Crash
    <3> QED
      BY <1>2, <3>1, <3>2, IdleTurned
  <2> QED
    BY <1>3, <2>4, <2>5 DEF RestoreStep
<1>4. CASE FinishRollback
  <2>1. /\ UNCHANGED <<made, conns, wire, wired, queued, dropped, cancel>> /\ Switched = {}
        /\ \E started \in {running \union {st.ro.blue}, running} :
             DeleteProcessGroup(st.ro.cand, started)
    BY <1>4 DEF FinishRollback, wiring, spec
  <2>2. running' \subseteq running \union {st.ro.blue}
    BY <2>1, DeleteStops
  <2>3. st.ro.blue \in 1..made /\ st.ro.cand \notin running /\ st.ro.cand # st.ro.blue
    <3>1. /\ st.ro.blue # 0 /\ st.ro.blue <= made /\ st.ro.blue \in 0..MaxGroups
          /\ made \in GroupIds
      BY <1>1, <1>2
         DEF GroupsInv, RollbackTargetExists, Exists, IdsMade, MayFallBack, Statuses, Rollouts,
             TypeOK
    <3> QED
      BY <1>2, <3>1, BoundsAssumption
         DEF GroupIds, GroupsInv, CandidateOwn, IdleInv, CandidateIdle
  <2>4. Numbered' /\ st.ro.cand \notin running'
    BY <1>1, <2>1, <2>2, <2>3 DEF Numbered
  <2>5. st' = st \/ st'.ro = NoRollout
    <3>1. Failed([st EXCEPT !.lastRb = [gen |-> gen, digest |-> st.ro.target],
                            !.ro = NoRollout]).ro = NoRollout
      BY <1>1 DEF Failed, Statuses
    <3> QED
      BY <1>4, <3>1 DEF FinishRollback, Save
  <2>6. CASE st'.ro = NoRollout
    BY <2>1, <2>4, <2>6, IdleEnded, NoRecords
  <2>7. CASE st' = st
    <3>1. Switched' = {} /\ MayFallBack' = MayFallBack
      BY <2>1, <2>7 DEF Switched, MayFallBack, Active
    <3> QED
      BY <1>1, <1>2, <2>1, <2>4, <2>7, <3>1, IdleKept
  <2> QED
    BY <2>5, <2>6, <2>7
<1> QED
  BY <1>3, <1>4

\* No flow file gets onto the connections of a candidate that may be given up.
LEMMA EnvironmentIdle ==
  ASSUME TypeOK, IdleInv, Environment \/ BoundReached
  PROVE  IdleInv'
<1>1. cancel' => MaxCancels # 0
  <2>1. MaxCancels \in Nat /\ cancels \in 0..MaxCancels
    BY BoundsAssumption DEF TypeOK
  <2>2. cancel' = cancel \/ cancels < MaxCancels
    BY DEF Environment, ChangeSource, FlipCancel, Produce, Consume, BoundReached, vars, spec
  <2>3. cancels < MaxCancels => MaxCancels # 0
    BY <2>1
  <2> QED
    BY <2>2, <2>3, Zenon DEF IdleInv
<1>2. CASE UNCHANGED <<nifi, st, dropped>>
  BY <1>1, <1>2, IdleFrozen DEF MayFallBack, Active
<1>3. ASSUME NEW c \in ConnIds, Produce(c) \/ Consume(c)
      PROVE  IdleInv'
  <2>1. UNCHANGED <<made, running, conns, wire, wired, stopped, st, dropped>>
    BY <1>3 DEF Produce, Consume, groups, wiring
  <2>2. Numbered' /\ GreensKnown'
    BY <2>1 DEF IdleInv, Numbered, GreensKnown, Switched, Green
  <2>3. CandidateIdle'
    <3>1. CASE Consume(c)
      BY <2>1, <3>1
         DEF IdleInv, CandidateIdle, MayFallBack, Active, Switched, Green, Consume
    <3>2. CASE Produce(c)
      <4>1. /\ queued' = queued \union {c} /\ Source(wire[c].b, wire[c].g) \notin stopped
            /\ wire[c].b \notin Inbound => wire[c].g \in running
        BY <3>2 DEF Produce
      <4>2. ASSUME NEW k \in Switched, MayFallBack
            PROVE  Green(k) # c
        <5>1. SUFFICES ASSUME Green(k) = c PROVE FALSE
          OBVIOUS
        <5>2. wire[c] = [b |-> wire[k].b, g |-> st.ro.cand]
          BY <5>1 DEF IdleInv, GreensKnown
        <5>3. st.ro.cand \notin running /\ (wire[k].b \in Inbound => <<wire[k].b, 0>> \in stopped)
          BY <4>2 DEF IdleInv, CandidateIdle
        <5> QED
          BY <4>1, <5>2, <5>3 DEF Source
      <4> QED
        BY <2>1, <4>1, <4>2
           DEF IdleInv, CandidateIdle, MayFallBack, Active, Switched, Green
    <3> QED
      BY <1>3, <3>1, <3>2
  <2> QED
    BY <1>1, <2>1, <2>2, <2>3 DEF IdleInv
<1> QED
  BY <1>2, <1>3 DEF Environment, ChangeSource, FlipCancel, BoundReached, vars

\* The model starts with as many connections as boundaries, and without a rollout.
LEMMA InitIdle == Init => IdleInv
<1> SUFFICES ASSUME Init PROVE IdleInv
  OBVIOUS
<1>1. /\ st.ro = NoRollout /\ conns = 1..wired /\ made = 1 /\ running = {1} /\ ~cancel
      /\ ~dropped
  BY DEF Init
<1>2. Switched = {} /\ ~MayFallBack
  BY <1>1, NoRecords DEF Switched, MayFallBack, Active
<1> QED
  BY <1>1, <1>2, NoRecords DEF IdleInv, Numbered, GreensKnown, CandidateIdle

\* Every step keeps it, whatever call fails and whichever write is lost.
LEMMA StepIdle ==
  ASSUME WholePromotions
  PROVE  RolloutInv /\ IdleInv /\ [Next]_vars => IdleInv'
<1> SUFFICES ASSUME RolloutInv, IdleInv, [Next]_vars PROVE IdleInv'
  OBVIOUS
<1>1. TypeOK /\ GroupsInv
  BY DEF RolloutInv, GroupsInv
<1>2. CASE Reconcile
  BY <1>1, <1>2, OuterIdle, NewCandidateIdle, TrafficIdle, PromoteIdle, RollbackIdle
     DEF Reconcile
<1>3. CASE Environment \/ BoundReached
  BY <1>1, <1>3, EnvironmentIdle
<1>4. CASE UNCHANGED vars
  BY <1>4, IdleFrozen DEF vars, spec, IdleInv, MayFallBack, Active
<1> QED
  BY <1>2, <1>3, <1>4 DEF Next

\* IdleInv holds in every reachable state, unless a promotion is undone.
THEOREM IdleInvariant ==
  ASSUME WholePromotions
  PROVE  Spec => []IdleInv
BY InitIdle, StepIdle, RolloutInvariant, PTL DEF Spec

\* With onDrainTimeout Fail no queue with flow files in it is discarded, on the way to the
\* candidate or on the way back, where the code drops the green queue unread: whatever call
\* fails, whichever write is lost and however the source changes.
THEOREM NothingIsDropped ==
  ASSUME WholePromotions
  PROVE  Spec => []NoDropUnderFail
<1>1. IdleInv => NoDropUnderFail
  BY DEF IdleInv, NoDropUnderFail
<1> QED
  BY <1>1, IdleInvariant, PTL

-----------------------------------------------------------------------------
(* Traffic, as long as only calls fail that the rollout recovers from *)

\* No status write is lost, the source does not change during a rollout, the calls that fail
\* are those whose failure is handled, and no rollout is cancelled after half a promotion.
HandledOnly ==
  /\ MaxLost = 0 /\ MaxMidEdits = 0
  /\ MaxCancels = 0 \/ "rename" \notin FaultPoints
  /\ FaultPoints \cap {"ports", "create", "getGreen"} = {}

\* Every boundary has exactly one connection, at group g, and its source is not stopped but
\* by a restart that failed.
OnGroup(g) ==
  \A b \in Boundaries :
    /\ \E c \in conns : /\ wire[c] = [b |-> b, g |-> g]
                        /\ \A d \in conns : wire[d].b = b => d = c
    /\ MayFail("restart") \/ Source(b, g) \notin stopped

\* The connection a record stands for now, and the group it is at.
Place(k) == IF st.ro.recs[k].switched THEN st.ro.recs[k].green ELSE st.ro.recs[k].orig
Home(k) == IF st.ro.recs[k].switched THEN st.ro.cand ELSE st.ro.blue

\* What a phase is reached with.
PhaseInv ==
  /\ st.ro.inv => st.ro.phase \in {"SwitchingTraffic", "Promoting", "RollingBackTraffic"}
  /\ st.ro.phase = "Promoting" => st.ro.inv /\ Unswitched = {}
  /\ st.ro.inv \/ st.ro.phase \in {"AwaitingReadiness", "SwitchingTraffic"} =>
       Exists(st.ro.cand)

\* A rollout that may be rolled back has not replaced the live group yet.
BlueIsLive == MayFallBack => st.pg = st.ro.blue

\* Until the inventory the traffic is untouched and nothing is recorded.
EarlyOnLive == ~st.ro.inv => OnGroup(st.pg) /\ st.ro.keys = {}

\* The inventory has one record for each boundary, of a connection of blue.
Inventoried ==
  st.ro.inv =>
    /\ \A k \in st.ro.keys : k \in 1..wired /\ wire[k].g = st.ro.blue
    /\ \A b \in Boundaries : \E k \in st.ro.keys : wire[k].b = b
    /\ \A j, k \in st.ro.keys : wire[j].b = wire[k].b => j = k

\* The records say where the boundaries are, and there are no other connections; only a
\* restoration that stopped halfway leaves a boundary without one.
Placed ==
  st.ro.inv =>
    /\ \A k \in st.ro.keys :
         /\ Place(k) \in 1..wired /\ wire[Place(k)] = [b |-> wire[k].b, g |-> Home(k)]
         /\ Place(k) \in conns \/ (k \in Switched /\ st.ro.phase = "RollingBackTraffic")
    /\ \A c \in conns : \E k \in st.ro.keys : c = Place(k)

TrafficInv == PhaseInv /\ BlueIsLive /\ EarlyOnLive /\ Inventoried /\ Placed

\* What the theorems below have to show for every step of HandledOnly.
AllInv == TypeOK /\ GroupsInv /\ LiveInv /\ IdleInv /\ TrafficInv

\* Nobody changes the source of the rollout, and every status is saved.
LEMMA Undisturbed ==
  ASSUME TypeOK, HandledOnly
  PROVE  /\ mids = 0
         /\ \A s : Save(s) => st' = s
         /\ ~Crash
         /\ ~CallFails("ports") /\ ~CallFails("create") /\ ~CallFails("getGreen")
         /\ MaxCancels # 0 => ~CallFails("rename")
<1>1. lost \in 0..0 /\ mids \in 0..0
  BY DEF TypeOK, HandledOnly
<1>2. ~(lost < MaxLost)
  BY <1>1 DEF HandledOnly
<1> QED
  BY <1>1, <1>2 DEF Save, Crash, CallFails, HandledOnly

\* An active rollout rolls to what is wanted, from a live group that is not the candidate
\* before the promotion.
LEMMA UndisturbedLive ==
  ASSUME AllInv, HandledOnly
  PROVE  /\ ~Active => ~st.ro.inv
         /\ Active => st.ro.target = want /\ st.art # want
         /\ MayFallBack => st.pg = st.ro.blue /\ st.pg # st.ro.cand
         /\ st.pg # 0 /\ st.pg \in GroupIds
<1>1. mids = 0
  BY Undisturbed DEF AllInv
<1>2. ~Active => ~st.ro.inv
  BY DEF AllInv, TrafficInv, PhaseInv, Active
<1>3. Active => st.ro.target = want /\ st.art # want
  BY <1>1 DEF AllInv, LiveInv, RollsToWanted
<1>4. st.pg # 0 /\ st.pg \in GroupIds
  BY BoundsAssumption DEF AllInv, TypeOK, Statuses, GroupIds
<1>5. MayFallBack => st.pg = st.ro.blue /\ st.pg # st.ro.cand
  BY <1>4 DEF AllInv, TrafficInv, BlueIsLive, GroupsInv, CandidateOwn
<1> QED
  BY <1>2, <1>3, <1>4, <1>5

\* A rollout that ended leaves nothing but the connections of the live group to look at.
LEMMA EndedTraffic ==
  ASSUME OnGroup(st.pg)', st'.ro = NoRollout
  PROVE  TrafficInv'
<1>1. st'.ro.inv = FALSE /\ st'.ro.phase = "None" /\ st'.ro.keys = {}
  BY DEF NoRollout
<1>2. PhaseInv' /\ Inventoried' /\ Placed'
  BY <1>1 DEF PhaseInv, Inventoried, Placed
<1>3. EarlyOnLive' /\ BlueIsLive'
  BY <1>1 DEF EarlyOnLive, BlueIsLive, MayFallBack, Active
<1> QED
  BY <1>2, <1>3 DEF TrafficInv

\* A rollout before the inventory: the wiring stays.
LEMMA EarlyTraffic ==
  ASSUME TrafficInv, UNCHANGED <<wiring, stopped>>,
         ~st.ro.inv, ~st'.ro.inv, st'.pg = st.pg, st'.ro.keys = {},
         st'.ro.phase # "Promoting", st'.ro.phase # "None" => st'.ro.blue = st.pg,
         st'.ro.phase \in {"AwaitingReadiness", "SwitchingTraffic"} => Exists(st.ro.cand)'
  PROVE  TrafficInv'
<1>1. PhaseInv' /\ BlueIsLive'
  BY DEF PhaseInv, BlueIsLive, MayFallBack, Active
<1>2. EarlyOnLive'
  BY DEF TrafficInv, EarlyOnLive, OnGroup, wiring
<1>3. Inventoried' /\ Placed'
  BY DEF Inventoried, Placed
<1> QED
  BY <1>1, <1>2, <1>3 DEF TrafficInv

\* Record k stands for the connection it stood for.
SameRecord(k) ==
  /\ st'.ro.recs[k].switched = st.ro.recs[k].switched
  /\ st'.ro.recs[k].green = st.ro.recs[k].green
  /\ st'.ro.recs[k].orig = st.ro.recs[k].orig

\* The rollout goes on with the records and connections it has.
LEMMA SamePlaces ==
  ASSUME TrafficInv, UNCHANGED wiring,
         st.ro.inv, st'.ro.inv = st.ro.inv, st'.ro.keys = st.ro.keys,
         st'.ro.blue = st.ro.blue, st'.ro.cand = st.ro.cand,
         \A k \in st.ro.keys : SameRecord(k),
         Exists(st.ro.cand)',
         MayFallBack' => MayFallBack /\ st'.pg = st.pg,
         st'.ro.phase \in {"SwitchingTraffic", "Promoting", "RollingBackTraffic"},
         st'.ro.phase = "Promoting" => Unswitched = {},
         st.ro.phase = "RollingBackTraffic" => st'.ro.phase = "RollingBackTraffic"
  PROVE  TrafficInv'
<1>1. /\ Unswitched' = Unswitched /\ Switched' = Switched
      /\ \A k \in st.ro.keys : Place(k)' = Place(k) /\ Home(k)' = Home(k)
  BY DEF Unswitched, Switched, Place, Home, SameRecord
<1>2. PhaseInv' /\ BlueIsLive'
  BY <1>1 DEF TrafficInv, PhaseInv, BlueIsLive
<1>3. EarlyOnLive'
  BY DEF EarlyOnLive
<1>4. Inventoried'
  BY DEF TrafficInv, Inventoried, wiring
<1>5. Placed'
  BY <1>1 DEF TrafficInv, Placed, wiring
<1> QED
  BY <1>2, <1>3, <1>4, <1>5 DEF TrafficInv

\* A step that changes neither NiFi nor the rollout.
LEMMA FrozenTraffic ==
  ASSUME TrafficInv, UNCHANGED nifi, st'.pg = st.pg, st'.ro = st.ro
  PROVE  TrafficInv'
<1>1. UNCHANGED <<group, conns, wire, wired, stopped>>
  BY DEF nifi, groups, wiring
<1> QED
  BY <1>1 DEF TrafficInv, PhaseInv, BlueIsLive, MayFallBack, Active, EarlyOnLive, OnGroup,
              Inventoried, Placed, Place, Home, Switched, Unswitched, Exists

\* The steps before the rollout proper touch no traffic.
LEMMA OuterTraffic ==
  ASSUME AllInv, HandledOnly,
         RetireBlue \/ CancelRollout \/ LiveNotFound \/ RequeueBlocked \/ MarkInSync
  PROVE  TrafficInv'
<1>1. st \in Statuses /\ TrafficInv /\ (~st.ro.inv => st.ro.keys = {})
  BY DEF AllInv, TypeOK, TrafficInv, EarlyOnLive
<1>2. CASE RetireBlue
  <2>1. ~Active /\ ~st.ro.inv
    BY <1>2, UndisturbedLive DEF RetireBlue, AllInv, GroupsInv, RetiresAfterRollout
  <2>2. st'.pg = st.pg /\ st'.ro = st.ro
    BY <1>1, <1>2, Undisturbed DEF RetireBlue, AllInv, Statuses
  <2>3. UNCHANGED <<wiring, stopped>>
    BY <1>2 DEF RetireBlue
  <2> QED
    BY <1>1, <2>1, <2>2, <2>3, EarlyTraffic DEF Active
<1>3. CASE CancelRollout
  <2>1. UNCHANGED nifi /\ MayFallBack
    BY <1>3 DEF CancelRollout, Cancelling, AllInv, IdleInv, MayFallBack
  <2>2. st' = Failed([st EXCEPT !.ro.phase = "RollingBackTraffic"])
    BY <1>3, Undisturbed DEF CancelRollout, StartedRollback, AllInv
  <2>3. /\ st'.ro.inv = st.ro.inv /\ st'.ro.keys = st.ro.keys /\ st'.ro.recs = st.ro.recs
        /\ st'.ro.blue = st.ro.blue /\ st'.ro.cand = st.ro.cand
        /\ st'.ro.phase = "RollingBackTraffic"
    BY <1>1, <2>2, RollbackRecords
  <2>4. st'.pg = st.pg
    BY <1>1, <2>2 DEF Failed, Statuses
  <2>5. UNCHANGED <<group, wiring, stopped>> /\ Exists(st.ro.cand)' = Exists(st.ro.cand)
    BY <2>1, <2>3 DEF nifi, groups, Exists
  <2>6. CASE st.ro.inv
    <3>1. Exists(st.ro.cand)' /\ \A j \in st.ro.keys : SameRecord(j)
      BY <1>1, <2>3, <2>5, <2>6 DEF TrafficInv, PhaseInv, SameRecord
    <3> QED
      BY <1>1, <2>1, <2>3, <2>4, <2>5, <2>6, <3>1, SamePlaces
  <2>7. CASE ~st.ro.inv
    <3>1. st.ro.blue = st.pg
      BY <2>1, UndisturbedLive
    <3> QED
      BY <1>1, <2>3, <2>4, <2>5, <2>7, <3>1, EarlyTraffic
  <2> QED
    BY <2>6, <2>7
<1>4. CASE LiveNotFound
  <2>1. st'.pg = st.pg /\ st'.ro = st.ro
    BY <1>1, <1>4, Undisturbed DEF LiveNotFound, Failed, AllInv, Statuses
  <2> QED
    BY <1>1, <1>4, <2>1, FrozenTraffic DEF LiveNotFound
<1>5. CASE RequeueBlocked
  BY <1>1, <1>5, FrozenTraffic DEF RequeueBlocked, vars
<1>6. CASE MarkInSync
  <2>1. ~Active /\ ~st.ro.inv
    BY <1>6, UndisturbedLive DEF MarkInSync
  <2>2. UNCHANGED nifi
    BY <1>6 DEF MarkInSync
  <2>3. CASE st' = Failed(st)
    BY <1>1, <2>2, <2>3, FrozenTraffic DEF Failed, Statuses
  <2>4. CASE st' = InSync(st, want)
    <3>1. st'.pg = st.pg /\ st'.ro = NoRollout
      BY <1>1, <2>4 DEF InSync, Statuses
    <3>2. OnGroup(st.pg)
      BY <1>1, <2>1 DEF TrafficInv, EarlyOnLive
    <3>3. OnGroup(st.pg)'
      BY <2>2, <3>1, <3>2 DEF OnGroup, nifi, wiring
    <3> QED
      BY <3>1, <3>3, EndedTraffic
  <2> QED
    BY <1>6, <2>3, <2>4, Undisturbed DEF MarkInSync, AllInv
<1> QED
  BY <1>2, <1>3, <1>4, <1>5, <1>6

\* blueGreenAbort before the inventory leaves the traffic where it was.
LEMMA AbortTraffic ==
  ASSUME AllInv, HandledOnly, Abort, ~st.ro.inv
  PROVE  TrafficInv'
<1>1. st \in Statuses /\ TrafficInv
  BY DEF AllInv, TypeOK
<1>2. st' = Failed([st EXCEPT !.ro = NoRollout])
  BY Undisturbed DEF Abort, AllInv
<1>3. st'.pg = st.pg /\ st'.ro = NoRollout
  BY <1>1, <1>2 DEF Failed, Statuses
<1>4. UNCHANGED <<conns, wire, stopped>>
  BY DEF Abort, wiring
<1>5. OnGroup(st.pg)'
  BY <1>1, <1>3, <1>4 DEF TrafficInv, EarlyOnLive, OnGroup
<1> QED
  BY <1>3, <1>5, EndedTraffic

\* Neither do the steps that start a rollout and deploy its candidate.
LEMMA CandidateTraffic ==
  ASSUME AllInv, HandledOnly,
         \/ StartRollout \/ DeployCandidate
         \/ CandidateReady \/ CandidateUnreachable \/ CandidateExpires
  PROVE  TrafficInv'
<1>1. /\ st \in Statuses /\ TrafficInv /\ made \in GroupIds
      /\ ~st.ro.inv => st.ro.keys = {}
  BY DEF AllInv, TypeOK, TrafficInv, EarlyOnLive
<1>2. CASE StartRollout
  <2> DEFINE ro == [NoRollout EXCEPT !.phase = "DeployingCandidate", !.target = want,
                                     !.blue = st.pg]
  <2>1. /\ ro.inv = FALSE /\ ro.phase = "DeployingCandidate" /\ ro.keys = {}
        /\ ro.blue = st.pg
    BY DEF NoRollout
  <2>2. st' = Failed([st EXCEPT !.ro = ro])
    BY <1>2, Undisturbed DEF StartRollout, AllInv
  <2> HIDE DEF ro
  <2>3. st'.pg = st.pg /\ st'.ro = ro
    BY <1>1, <2>2 DEF Failed, Statuses
  <2>4. ~st.ro.inv
    BY <1>2, UndisturbedLive DEF StartRollout
  <2>5. UNCHANGED <<wiring, stopped>>
    BY <1>2 DEF StartRollout, nifi
  <2> QED
    BY <1>1, <2>1, <2>3, <2>4, <2>5, EarlyTraffic
<1>3. CASE DeployCandidate
  <2>1. ~st.ro.inv
    BY <1>1, <1>3 DEF DeployCandidate, InPhase, TrafficInv, PhaseInv
  <2>2. UNCHANGED <<running, wiring, stopped, queued>>
    BY <1>3 DEF DeployCandidate
  <2>3. CASE st' = Failed(st) /\ UNCHANGED <<group, made>>
    BY <1>1, <2>2, <2>3, FrozenTraffic DEF Failed, Statuses, nifi, groups
  <2>4. CASE /\ made < MaxGroups /\ made' = made + 1
             /\ group' = [group EXCEPT ![made'] = want]
             /\ st' = [st EXCEPT !.ro.cand = made', !.ro.phase = "AwaitingReadiness"]
    <3>1. made' \in GroupIds /\ made' # 0
      BY <1>1, <2>4, BoundsAssumption DEF GroupIds
    <3>2. group'[made'] = want /\ want # Absent
      BY <2>4, <3>1, DigestAssumption DEF AllInv, TypeOK
    <3>3. /\ st'.pg = st.pg /\ st'.ro.cand = made' /\ st'.ro.phase = "AwaitingReadiness"
          /\ st'.ro.inv = st.ro.inv /\ st'.ro.keys = st.ro.keys /\ st'.ro.blue = st.ro.blue
      BY <1>1, <2>4 DEF Statuses, Rollouts
    <3>4. st.ro.blue = st.pg
      BY <1>3, UndisturbedLive DEF DeployCandidate, InPhase, MayFallBack, Active
    <3>5. Exists(st.ro.cand)'
      BY <3>1, <3>2, <3>3 DEF Exists
    <3> QED
      BY <1>1, <2>1, <2>2, <3>3, <3>4, <3>5, EarlyTraffic
  <2> QED
    BY <1>3, <2>3, <2>4, Undisturbed DEF DeployCandidate, AllInv
<1>4. CASE CandidateReady
  <2>1. st' = [st EXCEPT !.ro.phase = "SwitchingTraffic"]
    BY <1>4, Undisturbed DEF CandidateReady, AllInv
  <2>2. /\ st'.pg = st.pg /\ st'.ro.cand = st.ro.cand /\ st'.ro.phase = "SwitchingTraffic"
        /\ st'.ro.inv = st.ro.inv /\ st'.ro.keys = st.ro.keys /\ st'.ro.blue = st.ro.blue
    BY <1>1, <2>1 DEF Statuses, Rollouts
  <2>3. ~st.ro.inv /\ Exists(st.ro.cand) /\ st.ro.blue = st.pg
    BY <1>1, <1>4, UndisturbedLive
       DEF CandidateReady, InPhase, TrafficInv, PhaseInv, MayFallBack, Active
  <2>4. UNCHANGED <<group, wiring, stopped>>
    BY <1>4 DEF CandidateReady, nifi, groups
  <2> QED
    BY <1>1, <2>2, <2>3, <2>4, EarlyTraffic DEF Exists
<1>5. CASE CandidateUnreachable
  <2>1. st'.pg = st.pg /\ st'.ro = st.ro
    BY <1>1, <1>5, Undisturbed DEF CandidateUnreachable, Failed, AllInv, Statuses
  <2> QED
    BY <1>1, <1>5, <2>1, FrozenTraffic DEF CandidateUnreachable
<1>6. CASE CandidateExpires
  BY <1>1, <1>6, AbortTraffic DEF CandidateExpires, InPhase, TrafficInv, PhaseInv
<1> QED
  BY <1>2, <1>3, <1>4, <1>5, <1>6

\* The inventory of a blue group that has every boundary finds one connection for each.
LEMMA InventoryTraffic ==
  ASSUME AllInv, HandledOnly, Inventory
  PROVE  TrafficInv'
<1>1. /\ st \in Statuses /\ TrafficInv /\ Numbered /\ conns \subseteq ConnIds
      /\ wire \in [ConnIds -> [b : Boundaries, g : GroupIds]]
  BY DEF AllInv, TypeOK, IdleInv
<1>2. /\ InPhase("SwitchingTraffic") /\ ~st.ro.inv /\ UNCHANGED nifi
  BY DEF Inventory
<1>3. MayFallBack /\ st.pg = st.ro.blue
  BY <1>2, UndisturbedLive DEF InPhase, MayFallBack, Active
<1>4. OnGroup(st.ro.blue) /\ Exists(st.ro.cand)
  BY <1>1, <1>2, <1>3 DEF TrafficInv, EarlyOnLive, PhaseInv, InPhase
<1> DEFINE keys == Attached(st.ro.blue)
           recs == [k \in ConnIds |-> IF k \in keys THEN [NoRecord EXCEPT !.orig = k]
                                                    ELSE NoRecord]
<1>5. st' = [st EXCEPT !.ro.inv = TRUE, !.ro.keys = keys, !.ro.recs = recs]
  BY Undisturbed DEF Inventory, AllInv
<1>6. \A c \in conns : wire[c].b \in Boundaries /\ wire[c] = [b |-> wire[c].b, g |-> wire[c].g]
  BY <1>1
<1>7. keys = conns /\ \A c \in conns : wire[c].g = st.ro.blue
  <2>1. ASSUME NEW c \in conns
        PROVE  wire[c].g = st.ro.blue
    <3>1. wire[c].b \in Boundaries
      BY <1>6
    <3>2. PICK d \in conns : /\ wire[d] = [b |-> wire[c].b, g |-> st.ro.blue]
                             /\ \A e \in conns : wire[e].b = wire[c].b => e = d
      BY <1>4, <3>1 DEF OnGroup
    <3>3. c = d
      BY <3>2
    <3> QED
      BY <3>2, <3>3
  <2> QED
    BY <2>1 DEF Attached
<1>8. \A k \in keys : recs[k].switched = FALSE /\ recs[k].orig = k
  BY <1>1, <1>7 DEF NoRecord
<1> HIDE DEF keys, recs
<1>9. /\ st'.ro.inv = TRUE /\ st'.ro.keys = keys /\ st'.ro.recs = recs
      /\ st'.ro.phase = st.ro.phase /\ st'.ro.blue = st.ro.blue /\ st'.ro.cand = st.ro.cand
      /\ st'.pg = st.pg
  BY <1>1, <1>5 DEF Statuses, Rollouts
<1>10. UNCHANGED <<group, conns, wire, wired>>
  BY <1>2 DEF nifi, groups, wiring
<1>11. \A k \in keys : Place(k)' = k /\ Home(k)' = st.ro.blue
  BY <1>8, <1>9 DEF Place, Home
<1>12. PhaseInv' /\ EarlyOnLive' /\ BlueIsLive'
  BY <1>2, <1>3, <1>4, <1>9, <1>10 DEF PhaseInv, EarlyOnLive, BlueIsLive, InPhase, Exists
<1>13. Inventoried'
  <2>1. \A k \in keys : k \in 1..wired /\ wire[k].g = st.ro.blue
    BY <1>1, <1>7 DEF Numbered
  <2>2. ASSUME NEW b \in Boundaries
        PROVE  \E k \in keys : wire[k].b = b
    <3>1. PICK c \in conns : wire[c] = [b |-> b, g |-> st.ro.blue]
      BY <1>4 DEF OnGroup
    <3>2. wire[c].b = b
      BY <3>1
    <3> QED
      BY <1>7, <3>2
  <2>3. \A j, k \in keys : wire[j].b = wire[k].b => j = k
    BY <1>4, <1>6, <1>7 DEF OnGroup
  <2> QED
    BY <1>9, <1>10, <2>1, <2>2, <2>3 DEF Inventoried
<1>14. Placed'
  <2>1. \A k \in keys : k \in 1..wired /\ wire[k] = [b |-> wire[k].b, g |-> st.ro.blue]
    BY <1>1, <1>6, <1>7 DEF Numbered
  <2> QED
    BY <1>7, <1>9, <1>10, <1>11, <2>1 DEF Placed
<1> QED
  BY <1>12, <1>13, <1>14 DEF TrafficInv

\* What holds of the records of a rollout whose connections were inventoried.
LEMMA RecordFacts ==
  ASSUME AllInv, st.ro.inv
  PROVE  /\ st.ro.keys \subseteq ConnIds /\ wired \in Nat
         /\ \A k \in st.ro.keys :
              /\ k \in 1..wired /\ wire[k].b \in Boundaries /\ wire[k].g = st.ro.blue
              /\ Place(k) \in 1..wired /\ wire[Place(k)].b = wire[k].b
              /\ wire[Place(k)] = [b |-> wire[k].b, g |-> Home(k)]
         /\ \A j, k \in st.ro.keys : Place(j) = Place(k) => j = k
         /\ \A c \in conns : \E k \in st.ro.keys : c = Place(k)
         /\ queued \subseteq conns /\ conns \subseteq 1..wired /\ wired + 1 \notin conns
         /\ \A k \in ConnIds : wire[k].b \in Boundaries
<1>1. /\ st \in Statuses /\ wired \in 0..MaxConns /\ queued \subseteq conns
      /\ wire \in [ConnIds -> [b : Boundaries, g : GroupIds]]
  BY DEF AllInv, TypeOK
<1>2. st.ro.keys \subseteq ConnIds /\ wired \in Nat
  BY <1>1, BoundsAssumption DEF Statuses, Rollouts
<1>3. ASSUME NEW k \in st.ro.keys
      PROVE  /\ k \in 1..wired /\ wire[k].b \in Boundaries /\ wire[k].g = st.ro.blue
             /\ Place(k) \in 1..wired /\ wire[Place(k)].b = wire[k].b
             /\ wire[Place(k)] = [b |-> wire[k].b, g |-> Home(k)]
  BY <1>1, <1>2 DEF AllInv, TrafficInv, Inventoried, Placed
<1>4. \A j, k \in st.ro.keys : Place(j) = Place(k) => j = k
  <2>1. \A j, k \in st.ro.keys : wire[j].b = wire[k].b => j = k
    BY DEF AllInv, TrafficInv, Inventoried
  <2>2. ASSUME NEW j \in st.ro.keys, NEW k \in st.ro.keys, Place(j) = Place(k)
        PROVE  j = k
    <3>1. wire[Place(j)].b = wire[j].b /\ wire[Place(k)].b = wire[k].b
      BY <1>3
    <3>2. wire[j].b = wire[k].b
      BY <2>2, <3>1
    <3> QED
      BY <2>1, <3>2
  <2> QED
    BY <2>2
<1>5. \A c \in conns : \E k \in st.ro.keys : c = Place(k)
  BY DEF AllInv, TrafficInv, Placed
<1>6. conns \subseteq 1..wired /\ wired + 1 \notin conns
  <2>1. conns \subseteq 1..wired
    BY DEF AllInv, IdleInv, Numbered
  <2>2. wired + 1 \notin 1..wired
    BY <1>2
  <2> QED
    BY <2>1, <2>2
<1> QED
  BY <1>1, <1>2, <1>3, <1>4, <1>5, <1>6

\* A record is moved: its connection, if it has one, is deleted and another one created at
\* the group on the other side. The other records keep theirs.
LEMMA MovedTraffic ==
  ASSUME AllInv, st.ro.inv, NEW k \in st.ro.keys, NEW g, UNCHANGED group,
         st.ro.phase # "Promoting", st'.ro.phase = st.ro.phase, st'.pg = st.pg,
         Connect(wire[k].b, g, conns \ {Place(k)}),
         st'.ro.inv, st'.ro.keys = st.ro.keys, st'.ro.blue = st.ro.blue,
         st'.ro.cand = st.ro.cand,
         \A j \in st.ro.keys \ {k} : SameRecord(j),
         Place(k)' = wired', Home(k)' = g
  PROVE  TrafficInv'
<1>1. /\ wired' = wired + 1 /\ wired \in Nat /\ wired' \in ConnIds
      /\ conns' = (conns \ {Place(k)}) \union {wired'}
      /\ wire' = [wire EXCEPT ![wired'] = [b |-> wire[k].b, g |-> g]]
      /\ wire \in [ConnIds -> [b : Boundaries, g : GroupIds]]
  BY BoundsAssumption DEF Connect, AllInv, TypeOK, ConnIds
<1>2. wire'[wired'] = [b |-> wire[k].b, g |-> g] /\ \A c \in 1..wired : wire'[c] = wire[c]
  <2>1. 1..wired \subseteq ConnIds /\ wired' \notin 1..wired
    BY <1>1, BoundsAssumption DEF ConnIds
  <2> QED
    BY <1>1, <2>1
<1>3. 1..wired \subseteq 1..wired' /\ wired' \in 1..wired' /\ wired' \notin 1..wired
  BY <1>1
<1>4. \A j \in st.ro.keys : wire'[j] = wire[j] /\ j \in 1..wired'
  BY <1>2, <1>3, RecordFacts
<1>5. \A j \in st.ro.keys \ {k} : /\ Place(j)' = Place(j) /\ Home(j)' = Home(j)
                                  /\ j \in Switched' <=> j \in Switched
  BY DEF Place, Home, Switched, SameRecord
<1>6. PhaseInv'
  BY DEF AllInv, TrafficInv, PhaseInv, Exists
<1>7. BlueIsLive'
  BY DEF AllInv, TrafficInv, BlueIsLive, MayFallBack, Active
<1>8. EarlyOnLive'
  BY DEF EarlyOnLive
<1>9. Inventoried'
  BY <1>4 DEF AllInv, TrafficInv, Inventoried
<1>10. Placed'
  <2>1. ASSUME NEW j \in st.ro.keys
        PROVE  /\ Place(j)' \in 1..wired'
               /\ wire'[Place(j)'] = [b |-> wire'[j].b, g |-> Home(j)']
    <3>1. CASE j = k
      BY <1>2, <1>3, <1>4, <3>1
    <3>2. CASE j # k
      <4>1. /\ Place(j) \in 1..wired
            /\ wire[Place(j)] = [b |-> wire[j].b, g |-> Home(j)]
        BY RecordFacts
      <4>2. Place(j)' = Place(j) /\ Home(j)' = Home(j)
        BY <1>5, <3>2
      <4>3. wire'[Place(j)] = wire[Place(j)] /\ wire'[j] = wire[j] /\ Place(j) \in 1..wired'
        BY <1>2, <1>3, <1>4, <4>1
      <4> QED
        BY <4>1, <4>2, <4>3
    <3> QED
      BY <3>1, <3>2
  <2>2. \A j \in st.ro.keys \ {k} :
          Place(j) \in conns' \/ (j \in Switched' /\ st'.ro.phase = "RollingBackTraffic")
    BY <1>1, <1>5, RecordFacts DEF AllInv, TrafficInv, Placed
  <2>3. \A c \in conns' : \E j \in st.ro.keys : c = Place(j)'
    <3>1. ASSUME NEW c \in conns \ {Place(k)}
          PROVE  \E j \in st.ro.keys : c = Place(j)'
      BY <1>5, RecordFacts
    <3> QED
      BY <1>1, <3>1
  <2>4. Place(k)' \in conns'
    BY <1>1
  <2> QED
    BY <1>5, <2>1, <2>2, <2>3, <2>4 DEF Placed
<1> QED
  BY <1>6, <1>7, <1>8, <1>9, <1>10 DEF TrafficInv

\* The steps of blueGreenSwitchTraffic: a switch moves one record to the candidate, the rest
\* stop sources, wait or start a rollback.
LEMMA SwitchTraffic ==
  ASSUME AllInv, HandledOnly, NEW k \in ConnIds, SwitchStep(k)
  PROVE  TrafficInv'
<1>1. st \in Statuses /\ TrafficInv
  BY DEF AllInv, TypeOK
<1>2. Switching(k)
  BY DEF SwitchStep, UnmatchedPort, StopFails, QueueFails, AwaitDrain, DrainExpires,
         DeleteFails, Switch, SwitchTorn
<1>3. /\ st.ro.inv /\ st.ro.phase = "SwitchingTraffic" /\ Exists(st.ro.cand) /\ MayFallBack
      /\ k \in st.ro.keys /\ ~st.ro.recs[k].switched
  BY <1>2 DEF Switching, InPhase, First, Unswitched, Switched, MayFallBack, Active
<1>4. \A s : Save(s) => st' = s
  BY Undisturbed DEF AllInv
<1>5. CASE UnmatchedPort(k) \/ StopFails(k) \/ QueueFails(k) \/ DrainExpires(k) \/ DeleteFails(k)
  <2>1. st' = Failed([st EXCEPT !.ro.phase = "RollingBackTraffic"])
    BY <1>4, <1>5
       DEF UnmatchedPort, StopFails, QueueFails, DrainExpires, DeleteFails, StartedRollback
  <2>2. UNCHANGED <<group, wiring>> /\ st'.pg = st.pg
    <3>1. st'.pg = st.pg
      BY <1>1, <2>1 DEF Failed, Statuses
    <3> QED
      BY <1>5, <3>1
         DEF UnmatchedPort, StopFails, QueueFails, DrainExpires, DeleteFails, nifi, groups
  <2>3. /\ st'.ro.inv = st.ro.inv /\ st'.ro.keys = st.ro.keys /\ st'.ro.recs = st.ro.recs
        /\ st'.ro.blue = st.ro.blue /\ st'.ro.cand = st.ro.cand
        /\ st'.ro.phase = "RollingBackTraffic"
    BY <1>1, <2>1, RollbackRecords
  <2>4. Exists(st.ro.cand)' /\ \A j \in st.ro.keys : SameRecord(j)
    BY <1>3, <2>2, <2>3 DEF Exists, SameRecord
  <2> QED
    BY <1>1, <1>3, <2>2, <2>3, <2>4, SamePlaces
<1>6. CASE AwaitDrain(k)
  <2>1. st' = [st EXCEPT !.ro.recs[k].draining = TRUE]
    BY <1>4, <1>6 DEF AwaitDrain
  <2>2. UNCHANGED <<group, wiring>>
    BY <1>6 DEF AwaitDrain, groups
  <2>3. /\ st'.ro.inv = st.ro.inv /\ st'.ro.keys = st.ro.keys
        /\ st'.ro.blue = st.ro.blue /\ st'.ro.cand = st.ro.cand
        /\ st'.ro.phase = st.ro.phase /\ st'.pg = st.pg
        /\ st'.ro.recs = [st.ro.recs EXCEPT ![k].draining = TRUE]
    BY <1>1, <2>1 DEF Statuses, Rollouts
  <2>4. \A j \in st.ro.keys : SameRecord(j)
    BY <1>1, <2>3 DEF SameRecord, Statuses, Rollouts, Records
  <2>5. Exists(st.ro.cand)'
    BY <1>3, <2>2, <2>3 DEF Exists
  <2> QED
    BY <1>1, <1>3, <2>2, <2>3, <2>4, <2>5, SamePlaces
<1>7. CASE Switch(k)
  <2>1. st' = [st EXCEPT !.ro.recs[k].green = wired', !.ro.recs[k].switched = TRUE]
    BY <1>4, <1>7 DEF Switch
  <2>2. UNCHANGED group /\ Connect(wire[k].b, st.ro.cand, conns \ {Orig(k)})
    BY <1>7 DEF Switch, groups
  <2>3. /\ st'.ro.inv = st.ro.inv /\ st'.ro.keys = st.ro.keys
        /\ st'.ro.blue = st.ro.blue /\ st'.ro.cand = st.ro.cand
        /\ st'.ro.phase = st.ro.phase /\ st'.pg = st.pg
        /\ st'.ro.recs = [st.ro.recs EXCEPT ![k].green = wired', ![k].switched = TRUE]
    BY <1>1, <2>1 DEF Statuses, Rollouts
  <2>4. /\ \A j \in st.ro.keys \ {k} : SameRecord(j)
        /\ st'.ro.recs[k].green = wired' /\ st'.ro.recs[k].switched
    BY <1>1, <2>3 DEF SameRecord, Statuses, Rollouts, Records
  <2>5. Place(k)' = wired' /\ Home(k)' = st.ro.cand /\ Place(k) = Orig(k)
    BY <1>3, <2>3, <2>4 DEF Place, Home, Orig
  <2> QED
    BY <1>3, <2>2, <2>3, <2>4, <2>5, MovedTraffic
<1>8. CASE SwitchTorn(k)
  BY <1>8, Undisturbed DEF SwitchTorn, AllInv
<1> QED
  BY <1>5, <1>6, <1>7, <1>8 DEF SwitchStep

\* The rest of blueGreenSwitchTraffic. An abort comes before the first switch: the ports of
\* the candidate are listed without an error.
LEMMA TrafficTraffic ==
  ASSUME AllInv, HandledOnly,
         \/ Inventory \/ InventoryFails \/ PortsFail \/ AllSwitched
         \/ \E k \in ConnIds : SwitchStep(k)
  PROVE  TrafficInv'
<1>1. st \in Statuses /\ TrafficInv
  BY DEF AllInv, TypeOK
<1>2. CASE InventoryFails
  BY <1>2, AbortTraffic DEF InventoryFails
<1>3. CASE PortsFail
  <2>1. Exists(st.ro.cand)
    BY <1>1, <1>3 DEF PortsFail, InPhase, TrafficInv, PhaseInv
  <2> QED
    BY <1>3, <2>1, Undisturbed DEF PortsFail, AllInv
<1>4. CASE AllSwitched
  <2>1. st' = [st EXCEPT !.ro.phase = "Promoting"]
    BY <1>4, Undisturbed DEF AllSwitched, AllInv
  <2>2. /\ st.ro.inv /\ Unswitched = {} /\ st.ro.phase = "SwitchingTraffic"
        /\ Exists(st.ro.cand) /\ MayFallBack
    BY <1>1, <1>4 DEF AllSwitched, InPhase, TrafficInv, PhaseInv, MayFallBack, Active
  <2>3. UNCHANGED <<group, wiring>> /\ st'.pg = st.pg
    <3>1. st'.pg = st.pg
      BY <1>1, <2>1 DEF Statuses
    <3> QED
      BY <1>4, <3>1 DEF AllSwitched, nifi, groups
  <2>4. /\ st'.ro.inv = st.ro.inv /\ st'.ro.keys = st.ro.keys /\ st'.ro.recs = st.ro.recs
        /\ st'.ro.blue = st.ro.blue /\ st'.ro.cand = st.ro.cand /\ st'.ro.phase = "Promoting"
    BY <1>1, <2>1, RollbackRecords
  <2>5. Exists(st.ro.cand)' /\ \A j \in st.ro.keys : SameRecord(j)
    BY <2>2, <2>3, <2>4 DEF Exists, SameRecord
  <2> QED
    BY <1>1, <2>2, <2>3, <2>4, <2>5, SamePlaces
<1> QED
  BY <1>2, <1>3, <1>4, InventoryTraffic, SwitchTraffic

\* When every record stands for a connection at group g, the group has every boundary.
LEMMA AllAtHome ==
  ASSUME AllInv, st.ro.inv, NEW g, \A k \in st.ro.keys : Home(k) = g /\ Place(k) \in conns,
         UNCHANGED <<conns, wire>>, st'.pg = g,
         MayFail("restart") \/ \A b \in Boundaries : Source(b, g) \notin stopped'
  PROVE  OnGroup(st.pg)'
<1>1. ASSUME NEW b \in Boundaries
      PROVE  \E c \in conns : /\ wire[c] = [b |-> b, g |-> g]
                              /\ \A d \in conns : wire[d].b = b => d = c
  <2>1. PICK k \in st.ro.keys : wire[k].b = b
    BY DEF AllInv, TrafficInv, Inventoried
  <2>2. Place(k) \in conns /\ wire[Place(k)] = [b |-> b, g |-> g]
    BY <2>1, RecordFacts
  <2>3. ASSUME NEW d \in conns, wire[d].b = b
        PROVE  d = Place(k)
    <3>1. PICK j \in st.ro.keys : d = Place(j)
      BY RecordFacts
    <3>2. wire[j].b = wire[k].b
      BY <2>1, <2>3, <3>1, RecordFacts
    <3> QED
      BY <3>1, <3>2 DEF AllInv, TrafficInv, Inventoried
  <2> QED
    BY <2>2, <2>3
<1>2. \A b \in Boundaries : Source(b, g)' = Source(b, g)
  BY DEF Source
<1> QED
  BY <1>1, <1>2 DEF OnGroup, Source, MayFail

\* The promotion finds every boundary at the candidate, and restarts the sources.
LEMMA PromoteTraffic ==
  ASSUME AllInv, HandledOnly, PromoteFails \/ RenameFails \/ Promote
  PROVE  TrafficInv'
<1>1. st \in Statuses /\ TrafficInv
  BY DEF AllInv, TypeOK
<1>2. \A s : Save(s) => st' = s
  BY Undisturbed DEF AllInv
<1>3. CASE PromoteFails
  <2>1. st'.pg = st.pg /\ st'.ro = st.ro
    BY <1>1, <1>2, <1>3 DEF PromoteFails, Failed, Statuses
  <2> QED
    BY <1>1, <1>3, <2>1, FrozenTraffic DEF PromoteFails
<1>4. ASSUME CandidateFound
      PROVE  /\ st.ro.inv /\ st.ro.phase = "Promoting" /\ Exists(st.ro.cand)
             /\ Unswitched = {}
  BY <1>1, <1>4 DEF CandidateFound, InPhase, TrafficInv, PhaseInv
<1>5. CASE RenameFails
  <2>1. CandidateFound /\ st' = Failed([st EXCEPT !.pg = st.ro.cand])
    BY <1>2, <1>5 DEF RenameFails
  <2>2. st'.ro = st.ro
    BY <1>1, <2>1 DEF Failed, Statuses
  <2>3. UNCHANGED <<group, wiring>>
    BY <1>5 DEF RenameFails
  <2>4. Exists(st.ro.cand)' /\ \A j \in st.ro.keys : SameRecord(j)
    BY <1>4, <2>1, <2>2, <2>3 DEF Exists, SameRecord
  <2>5. ~MayFallBack'
    <3>1. MaxCancels = 0
      BY <1>5, Undisturbed DEF RenameFails, AllInv
    <3> QED
      BY <1>4, <2>1, <2>2, <3>1 DEF MayFallBack
  <2> QED
    BY <1>1, <1>4, <2>1, <2>2, <2>3, <2>4, <2>5, SamePlaces
<1>6. CASE Promote
  <2> DEFINE sources == {<<wire[k].b, 0>> : k \in {k \in st.ro.keys : wire[k].b \in Inbound}}
  <2>1. /\ CandidateFound /\ UNCHANGED wiring
        /\ Restart(sources, StoppedOutside(st.ro.cand))
    BY <1>6 DEF Promote
  <2>2. st' = InSync([st EXCEPT !.pg = st.ro.cand, !.retiring = st.ro.blue], want)
    BY <1>2, <1>6 DEF Promote
  <2>3. st'.pg = st.ro.cand /\ st'.ro = NoRollout
    BY <1>1, <2>2 DEF InSync, Statuses
  <2>4. ~MayFail("restart") => stopped' = StoppedOutside(st.ro.cand) \ sources
    BY <2>1 DEF Restart
  <2>5. ASSUME NEW b \in Boundaries, ~MayFail("restart")
        PROVE  Source(b, st.ro.cand) \notin stopped'
    <3>1. CASE b \in Inbound
      <4>1. PICK k \in st.ro.keys : wire[k].b = b
        BY <1>1, <1>4, <2>1 DEF TrafficInv, Inventoried
      <4>2. <<b, 0>> \in sources
        BY <3>1, <4>1
      <4> QED
        BY <2>4, <2>5, <3>1, <4>2 DEF Source
    <3>2. CASE b \notin Inbound
      BY <2>4, <2>5, <3>2 DEF Source, StoppedOutside
    <3> QED
      BY <3>1, <3>2
  <2>6. \A k \in st.ro.keys : Home(k) = st.ro.cand /\ Place(k) \in conns
    BY <1>1, <1>4, <2>1 DEF TrafficInv, Placed, Home, Unswitched, Switched
  <2>7. OnGroup(st.pg)'
    BY <1>4, <2>1, <2>3, <2>5, <2>6, AllAtHome DEF wiring
  <2> QED
    BY <2>3, <2>7, EndedTraffic
<1> QED
  BY <1>3, <1>5, <1>6

\* A rollback moves one record after the other back to blue, and ends with every boundary at
\* blue. One that was cancelled before the inventory has nothing to move.
LEMMA RollbackTraffic ==
  ASSUME AllInv, HandledOnly, FinishRollback \/ \E k \in ConnIds : RestoreStep(k)
  PROVE  TrafficInv'
<1>1. st \in Statuses /\ TrafficInv
  BY DEF AllInv, TypeOK
<1>2. \A s : Save(s) => st' = s
  BY Undisturbed DEF AllInv
<1>3. st.ro.phase = "RollingBackTraffic" /\ MayFallBack
  BY DEF FinishRollback, RestoreStep, RestoreConnection, RestoreUnseen, RestoreStalls,
         RestoreTorn, Restoring, InPhase, MayFallBack, Active
<1>4. st.pg = st.ro.blue /\ (st.ro.inv => Exists(st.ro.cand))
  BY <1>1, <1>3 DEF TrafficInv, PhaseInv, BlueIsLive
<1>5. ASSUME NEW k \in ConnIds, RestoreStep(k)
      PROVE  TrafficInv'
  <2>1. k \in st.ro.keys /\ k \in Switched /\ st.ro.recs[k].switched
    BY <1>5 DEF RestoreStep, RestoreConnection, RestoreUnseen, RestoreStalls, RestoreTorn,
                Restoring, First, Switched
  <2>2. Place(k) = Green(k) /\ st.ro.inv /\ Exists(st.ro.cand)
    BY <1>1, <1>4, <2>1 DEF Place, Green, TrafficInv, EarlyOnLive
  <2>3. CASE RestoreConnection(k)
    <3>1. st' = [st EXCEPT !.ro.recs[k] = [NoRecord EXCEPT !.orig = wired']]
      BY <1>2, <2>3 DEF RestoreConnection
    <3>2. UNCHANGED group /\ Connect(wire[k].b, st.ro.blue, conns \ {Place(k)})
      BY <2>2, <2>3 DEF RestoreConnection, groups
    <3>3. /\ st'.ro.inv = st.ro.inv /\ st'.ro.keys = st.ro.keys
          /\ st'.ro.blue = st.ro.blue /\ st'.ro.cand = st.ro.cand
          /\ st'.ro.phase = st.ro.phase /\ st'.pg = st.pg
          /\ st'.ro.recs = [st.ro.recs EXCEPT ![k] = [NoRecord EXCEPT !.orig = wired']]
      BY <1>1, <3>1 DEF Statuses, Rollouts
    <3>4. /\ \A j \in st.ro.keys \ {k} : SameRecord(j)
          /\ st'.ro.recs[k].orig = wired' /\ ~st'.ro.recs[k].switched
      BY <1>1, <3>3 DEF SameRecord, Statuses, Rollouts, Records, NoRecord
    <3>5. Place(k)' = wired' /\ Home(k)' = st.ro.blue
      BY <3>3, <3>4 DEF Place, Home
    <3> QED
      BY <1>3, <2>1, <2>2, <3>2, <3>3, <3>4, <3>5, MovedTraffic
  <2>4. CASE RestoreUnseen(k)
    BY <2>4, Undisturbed DEF RestoreUnseen, AllInv
  <2>5. CASE RestoreStalls(k)
    <3>1. UNCHANGED <<group, wiring, st>>
      BY <2>5 DEF RestoreStalls, groups
    <3>2. Exists(st.ro.cand)' /\ \A j \in st.ro.keys : SameRecord(j)
      BY <2>2, <3>1 DEF Exists, SameRecord
    <3> QED
      BY <1>1, <1>3, <2>2, <3>1, <3>2, SamePlaces DEF MayFallBack, Active
  <2>6. CASE RestoreTorn(k)
    <3>1. st' = Failed(st)
      BY <1>2, <2>6, Undisturbed DEF RestoreTorn, AllInv
    <3>2. st'.ro = st.ro /\ st'.pg = st.pg
      BY <1>1, <3>1 DEF Failed, Statuses
    <3>3. UNCHANGED <<group, wire, wired>> /\ conns' = conns \ {Green(k)}
      BY <2>6 DEF RestoreTorn, groups
    <3>4. /\ Switched' = Switched /\ Unswitched' = Unswitched
          /\ \A j \in st.ro.keys : Place(j)' = Place(j) /\ Home(j)' = Home(j)
      BY <3>2 DEF Switched, Unswitched, Place, Home
    <3>5. PhaseInv' /\ BlueIsLive' /\ EarlyOnLive' /\ Inventoried'
      BY <1>1, <2>2, <3>2, <3>3, <3>4
         DEF TrafficInv, PhaseInv, BlueIsLive, MayFallBack, Active, EarlyOnLive, Inventoried,
             Exists
    <3>6. Placed'
      <4>1. \A j \in st.ro.keys : j # k /\ Place(j) \in conns => Place(j) \in conns'
        BY <2>1, <2>2, <3>3, RecordFacts
      <4> QED
        BY <1>1, <1>3, <2>1, <2>2, <3>2, <3>3, <3>4, <4>1 DEF TrafficInv, Placed
    <3> QED
      BY <3>5, <3>6 DEF TrafficInv
  <2> QED
    BY <1>5, <2>3, <2>4, <2>5, <2>6 DEF RestoreStep
<1>6. CASE FinishRollback
  <2> DEFINE sources == {Source(wire[k].b, wire[k].g) : k \in st.ro.keys}
  <2>1. Switched = {} /\ UNCHANGED wiring
    BY <1>6 DEF FinishRollback
  <2>2. PICK before \in {stopped, StoppedOutside(st.ro.blue)} : Restart(sources, before)
    BY <1>6 DEF FinishRollback
  <2>3. before \subseteq stopped /\ stopped' \subseteq before
    BY <2>2 DEF Restart, StoppedOutside
  <2>4. ~MayFail("restart") => stopped' \cap sources = {}
    BY <2>2 DEF Restart
  <2>5. st' = Failed([st EXCEPT !.lastRb = [gen |-> gen, digest |-> st.ro.target],
                                !.ro = NoRollout])
    BY <1>2, <1>6 DEF FinishRollback
  <2>6. st'.pg = st.pg /\ st'.ro = NoRollout
    BY <1>1, <2>5 DEF Failed, Statuses
  <2>7. CASE ~st.ro.inv
    <3>1. OnGroup(st.pg)
      BY <1>1, <2>7 DEF TrafficInv, EarlyOnLive
    <3>2. \A b \in Boundaries : MayFail("restart") \/ Source(b, st.pg) \notin stopped'
      BY <2>3, <3>1 DEF OnGroup
    <3>3. UNCHANGED <<conns, wire>> /\ \A b : Source(b, st.pg)' = Source(b, st.pg)
      BY <2>1, <2>6 DEF wiring, Source
    <3>4. OnGroup(st.pg)'
      BY <2>6, <3>1, <3>2, <3>3 DEF OnGroup, MayFail
    <3> QED
      BY <2>6, <3>4, EndedTraffic
  <2>8. CASE st.ro.inv
    <3>1. ASSUME NEW b \in Boundaries, ~MayFail("restart")
          PROVE  Source(b, st.ro.blue) \notin stopped'
      <4>1. PICK k \in st.ro.keys : wire[k].b = b
        BY <1>1, <2>8 DEF TrafficInv, Inventoried
      <4>2. wire[k].g = st.ro.blue
        BY <1>1, <2>8 DEF TrafficInv, Inventoried
      <4>3. Source(b, st.ro.blue) \in sources
        BY <4>1, <4>2
      <4> QED
        BY <2>4, <3>1, <4>3
    <3>2. \A k \in st.ro.keys : Home(k) = st.ro.blue /\ Place(k) \in conns
      BY <1>1, <2>1, <2>8 DEF TrafficInv, Placed, Home, Switched
    <3>3. OnGroup(st.pg)'
      BY <1>4, <2>1, <2>6, <2>8, <3>1, <3>2, AllAtHome DEF wiring
    <3> QED
      BY <2>6, <3>3, EndedTraffic
  <2> QED
    BY <2>7, <2>8
<1> QED
  BY <1>5, <1>6

\* Flow files, users and cancellations touch no connection.
LEMMA EnvironmentTraffic ==
  ASSUME AllInv, Environment \/ BoundReached
  PROVE  TrafficInv'
<1>1. UNCHANGED <<group, wiring, stopped, st>>
  BY DEF Environment, ChangeSource, FlipCancel, Produce, Consume, BoundReached, vars, nifi,
         groups
<1> QED
  BY <1>1 DEF AllInv, TrafficInv, PhaseInv, BlueIsLive, MayFallBack, Active, EarlyOnLive,
              OnGroup, Inventoried, Placed, Place, Home, Switched, Unswitched, Exists, wiring

-----------------------------------------------------------------------------
(* Theorems about traffic *)

\* The model starts with as many connections as boundaries, one for each.
LEMMA InitTraffic == Init => TrafficInv
<1> SUFFICES ASSUME Init PROVE TrafficInv
  OBVIOUS
<1>1. wired \in Nat /\ wired = Cardinality(Boundaries) /\ conns = 1..wired
  BY BoundaryAssumption, FS_CardinalityType DEF Init
<1>2. conns \subseteq ConnIds
  BY <1>1, BoundaryAssumption, BoundsAssumption DEF ConnIds
<1>3. IsFiniteSet(conns) /\ Cardinality(conns) = Cardinality(Boundaries)
  BY <1>1, FS_Interval
<1> DEFINE f == [c \in conns |-> wire[c].b]
<1>4. f \in Surjection(conns, Boundaries)
  <2>1. f \in [conns -> Boundaries]
    BY <1>2 DEF Init
  <2>2. \A b \in Boundaries : \E c \in conns : f[c] = b
    BY DEF Init
  <2> QED
    BY <2>1, <2>2 DEF Surjection
<1>5. f \in Injection(conns, Boundaries)
  BY <1>3, <1>4, FS_Surjection
<1>6. \A c, d \in conns : wire[d].b = wire[c].b => d = c
  BY <1>5 DEF Injection, IsInjective
<1>7. \A c \in conns : wire[c] = [b |-> wire[c].b, g |-> 1]
  BY <1>2 DEF Init
<1>8. st.pg = 1 /\ st.ro.phase = "None" /\ st.ro.inv = FALSE /\ st.ro.keys = {}
  BY DEF Init, NoRollout
<1>9. OnGroup(st.pg)
  <2> SUFFICES ASSUME NEW b \in Boundaries
               PROVE  \E c \in conns : /\ wire[c] = [b |-> b, g |-> 1]
                                       /\ \A d \in conns : wire[d].b = b => d = c
    BY <1>8 DEF OnGroup, Init
  <2>1. PICK c \in conns : wire[c].b = b
    BY DEF Init
  <2> QED
    BY <2>1, <1>6, <1>7
<1> QED
  BY <1>8, <1>9 DEF TrafficInv, PhaseInv, BlueIsLive, MayFallBack, Active, EarlyOnLive,
                    Inventoried, Placed

\* Every step keeps it, as long as only the handled calls fail.
LEMMA StepTraffic ==
  ASSUME HandledOnly
  PROVE  RolloutInv /\ LiveInv /\ IdleInv /\ TrafficInv /\ [Next]_vars => TrafficInv'
<1> SUFFICES ASSUME RolloutInv, LiveInv, IdleInv, TrafficInv, [Next]_vars PROVE TrafficInv'
  OBVIOUS
<1>1. AllInv
  BY DEF RolloutInv, AllInv, GroupsInv
<1>2. CASE Reconcile
  BY <1>1, <1>2, OuterTraffic, CandidateTraffic, TrafficTraffic, PromoteTraffic,
     RollbackTraffic DEF Reconcile
<1>3. CASE Environment \/ BoundReached
  BY <1>1, <1>3, EnvironmentTraffic
<1>4. CASE UNCHANGED vars
  BY <1>4, FrozenTraffic DEF vars
<1> QED
  BY <1>2, <1>3, <1>4 DEF Next

\* TrafficInv holds in every reachable state, as long as only the handled calls fail.
THEOREM TrafficInvariant ==
  ASSUME HandledOnly
  PROVE  Spec => []TrafficInv
<1>1. WholePromotions
  BY DEF HandledOnly, WholePromotions
<1> QED
  BY <1>1, InitTraffic, StepTraffic, RolloutInvariant, LiveInvariant, IdleInvariant, PTL
     DEF Spec

\* Between two rollouts every boundary has exactly one connection, at the live group, with
\* its source running: however the last one ended, promoted, rolled back, cancelled or
\* aborted. The last part takes restarts that do not fail, as the code discards their errors.
THEOREM TrafficReturns ==
  ASSUME HandledOnly, "restart" \notin FaultPoints
  PROVE  Spec => []QuiescentOnLive
<1>1. TrafficInv => QuiescentOnLive
  BY DEF TrafficInv, PhaseInv, EarlyOnLive, OnGroup, QuiescentOnLive, Active, MayFail
<1> QED
  BY <1>1, TrafficInvariant, PTL

-----------------------------------------------------------------------------
(* The rollout implements TrafficSwitch *)

\* A boundary with one connection leads where that leads, one without leads nowhere.
LEMMA RouteOne ==
  ASSUME NEW b, NEW c \in conns, wire[c].b = b, \A d \in conns : wire[d].b = b => d = c
  PROVE  RouteOf(b) = Side(c)
<1>1. {d \in conns : wire[d].b = b} = {c}
  OBVIOUS
<1>2. Cardinality({c}) = 1
  BY FS_Singleton
<1> QED
  BY <1>1, <1>2 DEF RouteOf

\* Where record k leads.
At(k) ==
  IF Place(k) \notin conns THEN "none"
  ELSE IF Home(k) = st.pg THEN "live" ELSE "candidate"

\* The records, or without an inventory the live group, say where every boundary leads.
Routed ==
  /\ ~st.ro.inv => \A b \in Boundaries : RouteOf(b) = "live"
  /\ st.ro.inv => \A k \in st.ro.keys : RouteOf(wire[k].b) = At(k)

\* They do in every state of the invariant.
LEMMA RoutesKnown == TypeOK /\ TrafficInv => Routed
<1> SUFFICES ASSUME TypeOK, TrafficInv PROVE Routed
  OBVIOUS
<1>1. ASSUME ~st.ro.inv, NEW b \in Boundaries
      PROVE  RouteOf(b) = "live"
  <2>1. PICK c \in conns : /\ wire[c] = [b |-> b, g |-> st.pg]
                           /\ \A d \in conns : wire[d].b = b => d = c
    BY <1>1 DEF TrafficInv, EarlyOnLive, OnGroup
  <2>2. wire[c].b = b /\ wire[c].g = st.pg
    BY <2>1
  <2>3. RouteOf(b) = Side(c)
    BY <2>1, <2>2, RouteOne
  <2> QED
    BY <2>2, <2>3 DEF Side
<1>2. ASSUME st.ro.inv, NEW k \in st.ro.keys
      PROVE  RouteOf(wire[k].b) = At(k)
  <2>1. ASSUME NEW j \in st.ro.keys
        PROVE  wire[Place(j)].b = wire[j].b /\ wire[Place(j)].g = Home(j)
    <3>1. wire[Place(j)] = [b |-> wire[j].b, g |-> Home(j)]
      BY <1>2 DEF TrafficInv, Placed
    <3> QED
      BY <3>1
  <2>2. ASSUME NEW d \in conns, wire[d].b = wire[k].b
        PROVE  d = Place(k)
    <3>1. PICK j \in st.ro.keys : d = Place(j)
      BY <1>2 DEF TrafficInv, Placed
    <3>2. wire[j].b = wire[k].b
      BY <2>1, <2>2, <3>1
    <3> QED
      BY <1>2, <3>1, <3>2 DEF TrafficInv, Inventoried
  <2>3. CASE Place(k) \in conns
    <3>1. RouteOf(wire[k].b) = Side(Place(k))
      BY <2>1, <2>2, <2>3, RouteOne
    <3> QED
      BY <2>1, <2>3, <3>1 DEF Side, At
  <2>4. CASE Place(k) \notin conns
    <3>1. {d \in conns : wire[d].b = wire[k].b} = {}
      BY <2>2, <2>4
    <3> QED
      BY <2>4, <3>1 DEF RouteOf, At
  <2> QED
    BY <2>3, <2>4
<1> QED
  BY <1>1, <1>2 DEF Routed

\* What the steps below start from and arrive in.
RouteInv == AllInv /\ Routed

route == [b \in Boundaries |-> RouteOf(b)]

\* A step that leaves the connections and the live group alone begins a rollout, ends one
\* with every boundary at the live group, or does not show.
LEMMA SameRoutes ==
  ASSUME RouteInv, RouteInv', HandledOnly, UNCHANGED wiring, st'.pg = st.pg
  PROVE  [Traffic!Next]_(Traffic!switchVars)
<1>1. \A b : RouteOf(b)' = RouteOf(b)
  BY DEF RouteOf, Side, wiring
<1>2. route' = route
  BY <1>1 DEF route
<1>3. CASE Active' = Active
  BY <1>2, <1>3 DEF Traffic!switchVars, route
<1>4. CASE ~Active /\ Active'
  BY <1>2, <1>4 DEF Traffic!Next, Traffic!Begin, route
<1>5. CASE Active /\ ~Active'
  <2>1. ~st'.ro.inv
    BY <1>5 DEF RouteInv, AllInv, TrafficInv, PhaseInv, Active
  <2>2. \A b \in Boundaries : RouteOf(b) = "live"
    BY <1>1, <2>1 DEF RouteInv, Routed
  <2>3. \A b \in Boundaries : route[b] = "live"
    BY <2>2 DEF route
  <2> QED
    BY <1>2, <1>5, <2>3 DEF Traffic!Next, Traffic!End, Traffic!AllOn, route
<1> QED
  BY <1>3, <1>4, <1>5 DEF Active

\* A step that changes where one record leads changes the route of its boundary.
LEMMA OneRoute ==
  ASSUME RouteInv, Routed', st.ro.inv, st'.ro.inv, st'.ro.keys = st.ro.keys,
         NEW k \in st.ro.keys,
         \A j \in st.ro.keys : wire'[j].b = wire[j].b,
         \A j \in st.ro.keys \ {k} : At(j)' = At(j)
  PROVE  /\ wire[k].b \in Boundaries
         /\ route[wire[k].b] = At(k)
         /\ route' = [route EXCEPT ![wire[k].b] = At(k)']
<1>1. /\ \A j \in st.ro.keys : RouteOf(wire[j].b) = At(j)
      /\ \A j \in st.ro.keys : RouteOf(wire[j].b)' = At(j)'
  BY DEF RouteInv, Routed
<1>2. wire[k].b \in Boundaries
  BY DEF RouteInv, AllInv, TypeOK, Statuses, Rollouts
<1>3. ASSUME NEW b \in Boundaries
      PROVE  RouteOf(b)' = IF b = wire[k].b THEN At(k)' ELSE RouteOf(b)
  <2>1. PICK j \in st.ro.keys : wire[j].b = b
    BY DEF RouteInv, AllInv, TrafficInv, Inventoried
  <2>2. RouteOf(b) = At(j) /\ RouteOf(b)' = At(j)'
    BY <1>1, <2>1
  <2>3. b = wire[k].b => j = k
    BY <2>1 DEF RouteInv, AllInv, TrafficInv, Inventoried
  <2> QED
    BY <2>1, <2>2, <2>3
<1> QED
  BY <1>1, <1>2, <1>3 DEF route

\* The handlers write statuses that keep the live group, but for the promotion.
LEMMA LiveKept ==
  ASSUME st \in Statuses, NEW ro, NEW gens, NEW digest
  PROVE  /\ Failed(st).pg = st.pg
         /\ [st EXCEPT !.ro = ro].pg = st.pg /\ Failed([st EXCEPT !.ro = ro]).pg = st.pg
         /\ [st EXCEPT !.retiring = 0].pg = st.pg
         /\ InSync(st, digest).pg = st.pg
         /\ Failed([st EXCEPT !.lastRb = gens, !.ro = ro]).pg = st.pg
<1>1. Failed(st).pg = st.pg
  BY DEF Statuses, Failed
<1>2. [st EXCEPT !.ro = ro].pg = st.pg /\ Failed([st EXCEPT !.ro = ro]).pg = st.pg
  BY DEF Statuses, Failed
<1>3. [st EXCEPT !.retiring = 0].pg = st.pg
  BY DEF Statuses
<1>4. InSync(st, digest).pg = st.pg
  BY DEF Statuses, InSync
<1>5. Failed([st EXCEPT !.lastRb = gens, !.ro = ro]).pg = st.pg
  BY DEF Statuses, Failed
<1> QED
  BY <1>1, <1>2, <1>3, <1>4, <1>5

\* The steps that neither move a connection nor promote.
LEMMA StillSteps ==
  ASSUME AllInv, HandledOnly,
         \/ RetireBlue \/ CancelRollout \/ LiveNotFound \/ RequeueBlocked \/ MarkInSync
         \/ StartRollout \/ DeployCandidate
         \/ CandidateReady \/ CandidateUnreachable \/ CandidateExpires
         \/ Inventory \/ InventoryFails \/ PortsFail \/ AllSwitched
         \/ PromoteFails \/ FinishRollback
         \/ Environment \/ BoundReached \/ UNCHANGED vars
  PROVE  UNCHANGED wiring /\ st'.pg = st.pg
<1>1. st \in Statuses /\ \A s : Save(s) => st' = s
  BY Undisturbed DEF AllInv, TypeOK
<1>2. CASE RetireBlue \/ LiveNotFound \/ MarkInSync \/ PromoteFails \/ FinishRollback
  BY <1>1, <1>2, LiveKept
     DEF RetireBlue, LiveNotFound, MarkInSync, PromoteFails, FinishRollback, nifi
<1>3. CASE CandidateUnreachable \/ CandidateExpires \/ InventoryFails \/ PortsFail
  BY <1>1, <1>3, LiveKept
     DEF CandidateUnreachable, CandidateExpires, InventoryFails, PortsFail, Abort, nifi
<1>4. CASE StartRollout \/ CancelRollout
  <2>1. \/ st' = StartedRollback
        \/ st' = Failed([st EXCEPT !.ro = [NoRollout EXCEPT !.phase = "DeployingCandidate",
                                            !.target = want, !.blue = st.pg]])
    BY <1>1, <1>4 DEF StartRollout, CancelRollout
  <2>2. st'.pg = st.pg
    BY <1>1, <2>1 DEF StartedRollback, Failed, Statuses
  <2> QED
    BY <1>4, <2>2 DEF StartRollout, CancelRollout, nifi
<1>5. CASE DeployCandidate
  <2>1. \/ st' = Failed(st)
        \/ st' = [st EXCEPT !.ro.cand = made', !.ro.phase = "AwaitingReadiness"]
    BY <1>1, <1>5 DEF DeployCandidate
  <2>2. st'.pg = st.pg
    BY <1>1, <2>1 DEF Failed, Statuses
  <2> QED
    BY <1>5, <2>2 DEF DeployCandidate
<1>8. CASE CandidateReady \/ AllSwitched
  <2>1. \/ st' = [st EXCEPT !.ro.phase = "SwitchingTraffic"]
        \/ st' = [st EXCEPT !.ro.phase = "Promoting"]
    BY <1>1, <1>8 DEF CandidateReady, AllSwitched
  <2>2. st'.pg = st.pg
    BY <1>1, <2>1 DEF Statuses
  <2> QED
    BY <1>8, <2>2 DEF CandidateReady, AllSwitched, nifi
<1>9. CASE Inventory
  <2> DEFINE recs == [k \in ConnIds |-> IF k \in Attached(st.ro.blue)
                                         THEN [NoRecord EXCEPT !.orig = k]
                                         ELSE NoRecord]
  <2> HIDE DEF recs
  <2>1. st' = [st EXCEPT !.ro.inv = TRUE, !.ro.keys = Attached(st.ro.blue), !.ro.recs = recs]
    BY <1>1, <1>9 DEF Inventory, recs
  <2>2. st'.pg = st.pg
    BY <1>1, <2>1 DEF Statuses
  <2> QED
    BY <1>9, <2>2 DEF Inventory, nifi
<1>6. CASE RequeueBlocked \/ BoundReached \/ UNCHANGED vars
  BY <1>6 DEF RequeueBlocked, BoundReached, vars, nifi
<1>7. CASE Environment
  BY <1>7 DEF Environment, ChangeSource, FlipCancel, Produce, Consume, nifi
<1> QED
  BY <1>2, <1>3, <1>4, <1>5, <1>6, <1>7, <1>8, <1>9

\* A connection is replaced by one at group g: only its own record leads elsewhere.
LEMMA ConnectedRoute ==
  ASSUME RouteInv, RouteInv', NEW k \in st.ro.keys, NEW g, st.ro.inv, st'.ro.inv,
         st'.ro.keys = st.ro.keys, st'.pg = st.pg, st'.ro.cand = st.ro.cand,
         st'.ro.blue = st.ro.blue,
         Connect(wire[k].b, g, conns \ {Place(k)}),
         \A j \in st.ro.keys \ {k} : SameRecord(j),
         Place(k)' = wired', Home(k)' = g
  PROVE  /\ wire[k].b \in Boundaries
         /\ route[wire[k].b] = At(k)
         /\ route' = [route EXCEPT ![wire[k].b] = IF g = st.pg THEN "live" ELSE "candidate"]
<1>1. /\ wired' = wired + 1 /\ wired \in Nat /\ wired' \in ConnIds
      /\ conns' = (conns \ {Place(k)}) \union {wired'}
      /\ wire' = [wire EXCEPT ![wired'] = [b |-> wire[k].b, g |-> g]]
      /\ wire \in [ConnIds -> [b : Boundaries, g : GroupIds]]
  BY BoundsAssumption DEF Connect, RouteInv, AllInv, TypeOK, ConnIds
<1>2. \A c \in 1..wired : c \in ConnIds /\ c # wired'
  BY <1>1, BoundsAssumption DEF ConnIds
<1>3. \A j \in st.ro.keys : wire'[j].b = wire[j].b
  BY <1>1, <1>2, RecordFacts DEF RouteInv
<1>4. \A j \in st.ro.keys \ {k} : At(j)' = At(j)
  <2> SUFFICES ASSUME NEW j \in st.ro.keys \ {k} PROVE At(j)' = At(j)
    OBVIOUS
  <2>1. Place(j)' = Place(j) /\ Home(j)' = Home(j)
    BY DEF Place, Home, SameRecord
  <2>2. Place(j) # Place(k) /\ Place(j) # wired'
    BY <1>2, RecordFacts DEF RouteInv
  <2> QED
    BY <1>1, <2>1, <2>2 DEF At
<1>5. At(k)' = IF g = st.pg THEN "live" ELSE "candidate"
  BY <1>1 DEF At
<1>6. Routed'
  BY DEF RouteInv
<1> QED
  BY <1>3, <1>4, <1>5, <1>6, OneRoute

\* A switch moves the boundary of its record to the candidate.
LEMMA SwitchMoves ==
  ASSUME RouteInv, RouteInv', HandledOnly, NEW k \in ConnIds, SwitchStep(k)
  PROVE  [Traffic!Next]_(Traffic!switchVars)
<1>1. /\ st \in Statuses /\ AllInv
  BY DEF RouteInv, AllInv, TypeOK
<1>2. Switching(k)
  BY DEF SwitchStep, UnmatchedPort, StopFails, QueueFails, AwaitDrain, DrainExpires,
         DeleteFails, Switch, SwitchTorn
<1>3. /\ st.ro.inv /\ st.ro.phase = "SwitchingTraffic" /\ Active
      /\ k \in st.ro.keys /\ ~st.ro.recs[k].switched
  BY <1>2 DEF Switching, InPhase, First, Unswitched, Switched, Active
<1>4. \A s : Save(s) => st' = s
  BY <1>1, Undisturbed DEF AllInv
<1>5. CASE \/ UnmatchedPort(k) \/ StopFails(k) \/ QueueFails(k) \/ AwaitDrain(k)
           \/ DrainExpires(k) \/ DeleteFails(k)
  <2>1. UNCHANGED wiring
    BY <1>5
       DEF UnmatchedPort, StopFails, QueueFails, AwaitDrain, DrainExpires, DeleteFails, nifi
  <2>2. st' = StartedRollback \/ st' = [st EXCEPT !.ro.recs[k].draining = TRUE]
    BY <1>4, <1>5
       DEF UnmatchedPort, StopFails, QueueFails, AwaitDrain, DrainExpires, DeleteFails
  <2>3. st'.pg = st.pg
    BY <1>1, <2>2 DEF StartedRollback, Failed, Statuses
  <2> QED
    BY <2>1, <2>3, SameRoutes
<1>6. CASE Switch(k)
  <2>1. st' = [st EXCEPT !.ro.recs[k].green = wired', !.ro.recs[k].switched = TRUE]
    BY <1>4, <1>6 DEF Switch
  <2>2. Connect(wire[k].b, st.ro.cand, conns \ {Orig(k)}) /\ Orig(k) \in conns
    BY <1>6 DEF Switch, Drained
  <2>3. /\ st'.ro.inv = st.ro.inv /\ st'.ro.keys = st.ro.keys
        /\ st'.ro.blue = st.ro.blue /\ st'.ro.cand = st.ro.cand
        /\ st'.ro.phase = st.ro.phase /\ st'.pg = st.pg
        /\ st'.ro.recs = [st.ro.recs EXCEPT ![k].green = wired', ![k].switched = TRUE]
    BY <1>1, <2>1 DEF Statuses, Rollouts
  <2>4. /\ \A j \in st.ro.keys \ {k} : SameRecord(j)
        /\ st'.ro.recs[k].green = wired' /\ st'.ro.recs[k].switched
    BY <1>1, <2>3 DEF SameRecord, Statuses, Rollouts, Records
  <2>5. /\ Place(k)' = wired' /\ Home(k)' = st.ro.cand
        /\ Place(k) = Orig(k) /\ Home(k) = st.ro.blue
    BY <1>3, <2>3, <2>4 DEF Place, Home, Orig
  <2>6. st.pg = st.ro.blue /\ st.pg # st.ro.cand
    BY <1>1, <1>3, UndisturbedLive DEF MayFallBack
  <2>7. At(k) = "live"
    BY <2>2, <2>5, <2>6 DEF At
  <2>8. /\ wire[k].b \in Boundaries /\ route[wire[k].b] = "live"
        /\ route' = [route EXCEPT ![wire[k].b] = "candidate"]
    BY <1>3, <2>2, <2>3, <2>4, <2>5, <2>6, <2>7, ConnectedRoute
  <2>9. Active' = Active
    BY <2>3 DEF Active
  <2> QED
    BY <1>3, <2>8, <2>9 DEF Traffic!Next, Traffic!Move, route
<1>7. CASE SwitchTorn(k)
  BY <1>1, <1>7, Undisturbed DEF SwitchTorn, AllInv
<1> QED
  BY <1>5, <1>6, <1>7 DEF SwitchStep

\* A restoration returns the boundary of its record to the live group, or unplugs it when
\* it stops after the deletion.
LEMMA RestoreMoves ==
  ASSUME RouteInv, RouteInv', HandledOnly, NEW k \in ConnIds, RestoreStep(k)
  PROVE  [Traffic!Next]_(Traffic!switchVars)
<1>1. st \in Statuses /\ AllInv
  BY DEF RouteInv, AllInv, TypeOK
<1>2. Restoring(k)
  BY DEF RestoreStep, RestoreConnection, RestoreUnseen, RestoreStalls, RestoreTorn
<1>3. /\ st.ro.phase = "RollingBackTraffic" /\ Active /\ MayFallBack
      /\ k \in st.ro.keys /\ st.ro.recs[k].switched
  BY <1>2 DEF Restoring, InPhase, First, Switched, MayFallBack, Active
<1>4. \A s : Save(s) => st' = s
  BY <1>1, Undisturbed DEF AllInv
<1>5. st.ro.inv /\ st.pg = st.ro.blue /\ st.pg # st.ro.cand
  BY <1>1, <1>3, UndisturbedLive DEF AllInv, TrafficInv, EarlyOnLive
<1>6. Place(k) = Green(k) /\ Home(k) = st.ro.cand
  BY <1>3 DEF Place, Home, Green
<1>7. At(k) \in {"candidate", "none"}
  BY <1>5, <1>6 DEF At
<1>8. CASE RestoreConnection(k)
  <2>1. st' = [st EXCEPT !.ro.recs[k] = [NoRecord EXCEPT !.orig = wired']]
    BY <1>4, <1>8 DEF RestoreConnection
  <2>2. Connect(wire[k].b, st.ro.blue, conns \ {Place(k)})
    BY <1>6, <1>8 DEF RestoreConnection
  <2>3. /\ st'.ro.inv = st.ro.inv /\ st'.ro.keys = st.ro.keys
        /\ st'.ro.blue = st.ro.blue /\ st'.ro.cand = st.ro.cand
        /\ st'.ro.phase = st.ro.phase /\ st'.pg = st.pg
        /\ st'.ro.recs = [st.ro.recs EXCEPT ![k] = [NoRecord EXCEPT !.orig = wired']]
    BY <1>1, <2>1 DEF Statuses, Rollouts
  <2>4. /\ \A j \in st.ro.keys \ {k} : SameRecord(j)
        /\ st'.ro.recs[k].orig = wired' /\ ~st'.ro.recs[k].switched
    BY <1>1, <2>3 DEF SameRecord, Statuses, Rollouts, Records, NoRecord
  <2>5. Place(k)' = wired' /\ Home(k)' = st.ro.blue
    BY <2>3, <2>4 DEF Place, Home
  <2>6. /\ wire[k].b \in Boundaries /\ route[wire[k].b] = At(k)
        /\ route' = [route EXCEPT ![wire[k].b] = "live"]
    BY <1>3, <1>5, <2>2, <2>3, <2>4, <2>5, ConnectedRoute
  <2>7. Active' = Active
    BY <2>3 DEF Active
  <2> QED
    BY <1>3, <1>7, <2>6, <2>7 DEF Traffic!Next, Traffic!Return, route
<1>9. CASE RestoreUnseen(k)
  BY <1>1, <1>9, Undisturbed DEF RestoreUnseen, AllInv
<1>10. CASE RestoreStalls(k)
  BY <1>10, SameRoutes DEF RestoreStalls
<1>11. CASE RestoreTorn(k)
  <2>1. st' = Failed(st)
    BY <1>1, <1>4, <1>11, Undisturbed DEF RestoreTorn, AllInv
  <2>2. st'.ro = st.ro /\ st'.pg = st.pg
    BY <1>1, <2>1 DEF Failed, Statuses
  <2>3. UNCHANGED <<wire, wired>> /\ conns' = conns \ {Green(k)}
    BY <1>11 DEF RestoreTorn
  <2>4. \A j \in st.ro.keys : Place(j)' = Place(j) /\ Home(j)' = Home(j)
    BY <2>2 DEF Place, Home
  <2>5. \A j \in st.ro.keys \ {k} : At(j)' = At(j)
    <3> SUFFICES ASSUME NEW j \in st.ro.keys \ {k} PROVE At(j)' = At(j)
      OBVIOUS
    <3>1. Place(j) # Green(k)
      BY <1>1, <1>3, <1>5, <1>6, RecordFacts
    <3> QED
      BY <2>2, <2>3, <2>4, <3>1 DEF At
  <2>6. At(k)' = "none"
    BY <1>3, <1>6, <2>3, <2>4 DEF At
  <2>7. /\ wire[k].b \in Boundaries /\ route[wire[k].b] = At(k)
        /\ route' = [route EXCEPT ![wire[k].b] = "none"]
    <3>1. Routed'
      BY DEF RouteInv
    <3> QED
      BY <1>3, <1>5, <2>2, <2>3, <2>5, <2>6, <3>1, OneRoute
  <2>8. Active' = Active
    BY <2>2 DEF Active
  <2>9. CASE At(k) = "candidate"
    BY <1>3, <2>7, <2>8, <2>9 DEF Traffic!Next, Traffic!Unplug, route
  <2>10. CASE At(k) = "none"
    <3>1. route' = route
      BY <2>7, <2>10 DEF route
    <3> QED
      BY <2>8, <3>1 DEF Traffic!switchVars, route
  <2> QED
    BY <1>7, <2>9, <2>10
<1> QED
  BY <1>8, <1>9, <1>10, <1>11 DEF RestoreStep

\* The candidate is made live with every boundary on it, by the promotion or by the half of
\* it that ran when the rename failed.
LEMMA PromoteCommits ==
  ASSUME RouteInv, RouteInv', HandledOnly, RenameFails \/ Promote
  PROVE  [Traffic!Next]_(Traffic!switchVars)
<1>1. st \in Statuses /\ AllInv /\ Routed
  BY DEF RouteInv, AllInv, TypeOK
<1>2. \A s : Save(s) => st' = s
  BY <1>1, Undisturbed DEF AllInv
<1>3. CandidateFound /\ UNCHANGED wiring
  BY DEF RenameFails, Promote
<1>4. st.ro.phase = "Promoting" /\ Active /\ st.ro.inv /\ Unswitched = {}
  BY <1>1, <1>3 DEF CandidateFound, InPhase, Active, AllInv, TrafficInv, PhaseInv
<1>5. st'.pg = st.ro.cand /\ (st'.ro = st.ro \/ st'.ro = NoRollout)
  <2>1. CASE RenameFails
    <3>1. st' = Failed([st EXCEPT !.pg = st.ro.cand])
      BY <1>2, <2>1 DEF RenameFails
    <3> QED
      BY <1>1, <3>1 DEF Failed, Statuses
  <2>2. CASE Promote
    <3>1. st' = InSync([st EXCEPT !.pg = st.ro.cand, !.retiring = st.ro.blue], want)
      BY <1>2, <2>2 DEF Promote
    <3> QED
      BY <1>1, <3>1 DEF InSync, Statuses
  <2> QED
    BY <2>1, <2>2
<1>6. CASE st.pg = st.ro.cand
  BY <1>3, <1>5, <1>6, SameRoutes
<1>7. CASE st.pg # st.ro.cand
  <2>1. \A k \in st.ro.keys : Home(k) = st.ro.cand /\ Place(k) \in conns
    BY <1>1, <1>4 DEF AllInv, TrafficInv, Placed, Home, Unswitched, Switched
  <2>2. \A k \in st.ro.keys : RouteOf(wire[k].b) = "candidate"
    BY <1>1, <1>4, <1>7, <2>1 DEF Routed, At
  <2>3. \A b \in Boundaries : \E k \in st.ro.keys : wire[k].b = b
    BY <1>1, <1>4 DEF AllInv, TrafficInv, Inventoried
  <2>4. \A b \in Boundaries : RouteOf(b) = "candidate"
    BY <2>2, <2>3
  <2>5. \A b \in Boundaries : RouteOf(b)' = "live"
    <3>1. CASE st'.ro = NoRollout
      BY <3>1 DEF RouteInv, Routed, NoRollout
    <3>2. CASE st'.ro = st.ro
      <4>1. \A k \in st.ro.keys : Home(k)' = Home(k) /\ Place(k)' = Place(k)
        BY <3>2 DEF Home, Place
      <4>2. \A k \in st.ro.keys : At(k)' = "live"
        BY <1>3, <1>5, <2>1, <4>1 DEF At, wiring
      <4>3. \A k \in st.ro.keys : RouteOf(wire[k].b)' = "live"
        BY <1>4, <3>2, <4>2 DEF RouteInv, Routed
      <4> QED
        BY <1>3, <2>3, <4>3 DEF wiring
    <3> QED
      BY <1>5, <3>1, <3>2
  <2>6. route' = [b \in Boundaries |-> "live"] /\ \A b \in Boundaries : route[b] = "candidate"
    BY <2>4, <2>5 DEF route
  <2>7. Active' \in BOOLEAN
    BY DEF Active
  <2> QED
    BY <1>4, <2>6, <2>7 DEF Traffic!Next, Traffic!Commit, Traffic!AllOn, route
<1> QED
  BY <1>6, <1>7

\* Every step of the rollout is a step of the traffic switch, or does not show.
LEMMA StepSwitches ==
  ASSUME HandledOnly
  PROVE  RouteInv /\ RouteInv' /\ [Next]_vars => [Traffic!Next]_(Traffic!switchVars)
<1> SUFFICES ASSUME RouteInv, RouteInv', [Next]_vars
             PROVE  [Traffic!Next]_(Traffic!switchVars)
  OBVIOUS
<1>1. AllInv
  BY DEF RouteInv
<1>2. CASE \E k \in ConnIds : SwitchStep(k)
  BY <1>2, SwitchMoves
<1>3. CASE \E k \in ConnIds : RestoreStep(k)
  BY <1>3, RestoreMoves
<1>4. CASE RenameFails \/ Promote
  BY <1>4, PromoteCommits
<1>5. CASE \/ RetireBlue \/ CancelRollout \/ LiveNotFound \/ RequeueBlocked \/ MarkInSync
           \/ StartRollout \/ DeployCandidate
           \/ CandidateReady \/ CandidateUnreachable \/ CandidateExpires
           \/ Inventory \/ InventoryFails \/ PortsFail \/ AllSwitched
           \/ PromoteFails \/ FinishRollback
           \/ Environment \/ BoundReached \/ UNCHANGED vars
  BY <1>1, <1>5, StillSteps, SameRoutes
<1> QED
  BY <1>2, <1>3, <1>4, <1>5 DEF Next, Reconcile

\* The rollout implements the abstract traffic switch, as long as only the handled calls
\* fail: the mechanism never shows more than one boundary moving at a time, a live group
\* without all of the traffic, or a rollout that ends with traffic elsewhere.
THEOREM RolloutSwitchesTraffic ==
  ASSUME HandledOnly
  PROVE  Spec => SwitchesTraffic
<1>1. Init => Traffic!Init
  <2> SUFFICES ASSUME Init PROVE Traffic!Init
    OBVIOUS
  <2>1. TypeOK /\ TrafficInv
    BY InitInv, InitTraffic DEF RolloutInv
  <2>2. Routed /\ ~st.ro.inv /\ ~Active
    BY <2>1, RoutesKnown DEF Init, NoRollout, Active
  <2>3. route = [b \in Boundaries |-> "live"]
    BY <2>2 DEF Routed, route
  <2> QED
    BY <2>2, <2>3 DEF Traffic!Init, route, Active
<1>2. RolloutInv /\ LiveInv /\ IdleInv /\ TrafficInv => RouteInv
  BY RoutesKnown DEF RolloutInv, RouteInv, AllInv, GroupsInv
<1>3. WholePromotions
  BY DEF HandledOnly, WholePromotions
<1> QED
  BY <1>1, <1>2, <1>3, StepSwitches, RolloutInvariant, LiveInvariant, IdleInvariant,
     TrafficInvariant, PTL DEF Spec, SwitchesTraffic, Traffic!Spec

=============================================================================
