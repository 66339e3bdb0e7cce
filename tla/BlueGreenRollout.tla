-------------------------- MODULE BlueGreenRollout --------------------------
(***************************************************************************)
(* The transactional BlueGreen rollout of a NiFiFlowDeployment             *)
(* (internal/controller/flow_deployment_bluegreen.go), driven by           *)
(* reconcileSnapshotFlowDeployment.                                        *)
(*                                                                         *)
(* One reconcile is one step: the controller runs one worker per resource, *)
(* so reconciles of a deployment never overlap, but the user edits the     *)
(* spec, flow files move, NiFi calls fail, and the status write that ends  *)
(* a reconcile can be lost (conflict, API server error, operator crash)    *)
(* after its NiFi calls took effect.                                       *)
(*                                                                         *)
(* A deployment is modelled from the moment it is in sync: group 1 is live *)
(* and every boundary connection is attached to it.                        *)
(***************************************************************************)
EXTENDS Integers, FiniteSets

CONSTANTS
  Boundaries,       \* the connections that cross the deployment's edge
  Inbound,          \* those that feed an input port; the others leave an output port
  Digests,          \* artifact digests a source can resolve to
  Initial,          \* the digest deployed at the start
  Ports,            \* Ports[d]: boundaries for which the flow d has a port of that name
  OnDrainTimeout,   \* spec.rollout.blueGreen.onDrainTimeout: "Fail" or "Drop"
  FaultPoints,      \* the NiFi calls that may fail
  MaxGroups,        \* bound: process group ids
  MaxConns,         \* bound: connection ids
  MaxFails,         \* bound: failing NiFi calls
  MaxLost,          \* bound: lost status writes and crashes
  MaxEdits,         \* bound: changes of the desired digest
  MaxMidEdits,      \* bound: those made while a rollout is active
  MaxCancels,       \* bound: flips of spec.rollout.cancel
  Absent            \* content of a process group that does not exist

GroupIds == 1..MaxGroups
ConnIds == 1..MaxConns

\* The NiFi calls of the rollout, named by what they do.
Calls == {"live", "import", "candidate", "inventory", "ports", "stop", "queue",
          "delete", "create", "start", "rename", "restart",
          "getGreen", "deleteGreen", "restore", "purge"}

ASSUME BoundsAssumption ==
  /\ MaxGroups \in Nat \ {0} /\ MaxConns \in Nat
  /\ MaxFails \in Nat /\ MaxLost \in Nat /\ MaxEdits \in Nat
  /\ MaxMidEdits \in Nat /\ MaxCancels \in Nat
ASSUME DigestAssumption == Initial \in Digests /\ Absent \notin Digests
ASSUME BoundaryAssumption ==
  /\ IsFiniteSet(Boundaries) /\ Cardinality(Boundaries) <= MaxConns
  /\ Inbound \subseteq Boundaries
  /\ Ports \in [Digests -> SUBSET Boundaries]
ASSUME PolicyAssumption ==
  /\ OnDrainTimeout \in {"Fail", "Drop"}
  /\ FaultPoints \subseteq Calls

VARIABLES
  \* NiFi
  group,    \* content of each process group, or Absent
  made,     \* number of process groups ever imported: ids are never reused
  running,  \* process groups scheduled RUNNING
  conns,    \* ids of the existing boundary connections
  wire,     \* what each connection id connects: boundary b to process group g
  wired,    \* number of connections ever created
  queued,   \* connections whose queue holds flow files
  stopped,  \* stopped sources: <<b, 0>> external, <<b, g>> an output port of g
  \* the custom resource
  want,     \* digest the source resolves to
  gen,      \* metadata.generation
  cancel,   \* spec.rollout.cancel
  st,       \* status
  \* bookkeeping of the bounds, and of what was discarded
  fails, lost, edits, mids, cancels,
  dropped   \* a queue was discarded although onDrainTimeout is not Drop

groups == <<group, made, running>>
wiring == <<conns, wire, wired>>
nifi == <<groups, wiring, queued, stopped>>
spec == <<want, gen, cancel, edits, mids, cancels>>
vars == <<nifi, spec, st, fails, lost, dropped>>

-----------------------------------------------------------------------------
(* Status *)

Phases == {"None", "DeployingCandidate", "AwaitingReadiness", "SwitchingTraffic",
           "Promoting", "RollingBackTraffic"}

\* ExternalConnectionRecord, kept under the id the connection was inventoried with.
NoRecord == [orig |-> 0, green |-> 0, switched |-> FALSE, draining |-> FALSE]

\* ActiveRollout with its BlueGreen data; "None" stands for a nil ActiveRollout.
NoRollout ==
  [phase |-> "None", target |-> Initial, blue |-> 0, cand |-> 0, inv |-> FALSE,
   keys |-> {}, recs |-> [k \in ConnIds |-> NoRecord]]

\* LastRollback; generation 0 stands for nil.
NoRollback == [gen |-> 0, digest |-> Initial]

Active == st.ro.phase # "None"

\* Process group g is on the canvas; id 0 stands for the empty id.
Exists(g) == g # 0 /\ group[g] # Absent

Attached(g) == {c \in conns : wire[c].g = g}

Switched == {k \in st.ro.keys : st.ro.recs[k].switched}
Unswitched == st.ro.keys \ Switched

\* The record a loop over ExternalConnections stops at: the first one in S.
First(k, S) == k \in S /\ \A j \in S : k <= j

\* The recorded source of a boundary of group g.
Source(b, g) == IF b \in Inbound THEN <<b, 0>> ELSE <<b, g>>

-----------------------------------------------------------------------------
Init ==
  /\ group = [g \in GroupIds |-> IF g = 1 THEN Initial ELSE Absent]
  /\ made = 1
  /\ running = {1}
  /\ wired = Cardinality(Boundaries)
  /\ conns = 1..wired
  /\ wire \in [ConnIds -> [b : Boundaries, g : {1}]]
  /\ \A b \in Boundaries : \E c \in conns : wire[c].b = b
  /\ \A c \in ConnIds \ conns : wire[c].b = CHOOSE b \in Boundaries : TRUE
  /\ queued = {}
  /\ stopped = {}
  /\ want = Initial
  /\ gen = 1
  /\ cancel = FALSE
  /\ st = [pg |-> 1, art |-> Initial, retiring |-> 0, ready |-> TRUE,
           lastRb |-> NoRollback, ro |-> NoRollout]
  /\ fails = 0 /\ lost = 0 /\ edits = 0 /\ mids = 0 /\ cancels = 0
  /\ dropped = FALSE

-----------------------------------------------------------------------------
(* How a reconcile ends *)

\* Status().Update: the write lands, or it is lost and the old status stays.
Save(s) ==
  \/ st' = s /\ UNCHANGED lost
  \/ lost < MaxLost /\ lost' = lost + 1 /\ UNCHANGED st

\* The status write of a reconcile that ended before reaching it.
Crash == lost < MaxLost /\ lost' = lost + 1 /\ UNCHANGED st

CallFails(call) == call \in FaultPoints /\ fails < MaxFails /\ fails' = fails + 1
CallsSucceed == UNCHANGED fails

\* A call whose error the code discards may fail any number of times.
MayFail(call) == call \in FaultPoints

\* snapshotDeploymentFailed: whatever the handler changed, and Ready=False.
Failed(s) == [s EXCEPT !.ready = FALSE]

\* Mutant: the phase an in-place retry goes back to.
StartedRollbackPreparing == Failed([st EXCEPT !.ro.phase = "Preparing"])

\* blueGreenStartRollback
StartedRollback == Failed([st EXCEPT !.ro.phase = "RollingBackTraffic"])

\* markSnapshotDeploymentInSync
InSync(s, digest) ==
  [s EXCEPT !.art = digest, !.ready = TRUE, !.ro = NoRollout,
            !.lastRb = IF gen > @.gen THEN NoRollback ELSE @]

\* blueGreenDeleteProcessGroup: stop, get and delete, every error discarded. NiFi
\* refuses to delete a group that a connection from outside is attached to.
DeleteProcessGroup(g, started) ==
  \/ /\ ~Exists(g)
     /\ UNCHANGED group /\ running' = started
  \/ /\ Exists(g) /\ Attached(g) = {}
     /\ group' = [group EXCEPT ![g] = Absent]
     /\ running' = started \ {g}
  \/ /\ Exists(g) /\ (Attached(g) # {} \/ MayFail("purge"))
     /\ UNCHANGED group
     /\ running' = started \ {g} \/ (MayFail("purge") /\ running' = started)

\* blueGreenAbort: delete the candidate and drop the rollout.
Abort ==
  /\ DeleteProcessGroup(st.ro.cand, running)
  /\ Save(Failed([st EXCEPT !.ro = NoRollout]))
  /\ UNCHANGED <<made, wiring, queued, stopped, spec, dropped>>

-----------------------------------------------------------------------------
(* reconcileSnapshotFlowDeployment: the steps before the rollout proper.    *)

\* A reconcile starts by retiring the group promoted away by the last switch.
RetireBlue ==
  /\ st.retiring # 0
  /\ DeleteProcessGroup(st.retiring, running)
  /\ Save([st EXCEPT !.retiring = 0])
  /\ CallsSucceed
  /\ UNCHANGED <<made, wiring, queued, stopped, spec, dropped>>

Cancelling == cancel /\ Active

\* reconcileRolloutCancellation of a BlueGreen rollout.
CancelRollout ==
  /\ st.retiring = 0 /\ Cancelling
  /\ Save(StartedRollback)
  /\ UNCHANGED <<nifi, spec, fails, dropped>>

\* The steps above did not apply and GetProcessGroup found the live group.
LiveFound == st.retiring = 0 /\ ~Cancelling /\ Exists(st.pg)

LiveNotFound ==
  /\ st.retiring = 0 /\ ~Cancelling
  /\ \/ ~Exists(st.pg) /\ CallsSucceed
     \/ CallFails("live")
  /\ Save(Failed(st))
  /\ UNCHANGED <<nifi, spec, dropped>>

\* rollbackBlocksTarget
Blocked == st.lastRb.gen = gen /\ st.lastRb.digest = want

\* A rolled back target is not tried again: requeue.
RequeueBlocked == LiveFound /\ Blocked /\ UNCHANGED vars

\* Mutant: in sync whatever digest is deployed.
MarkInSyncUnchecked ==
  /\ LiveFound /\ ~Blocked
  /\ CallsSucceed /\ Save(InSync(st, want))
  /\ UNCHANGED <<nifi, spec, dropped>>

\* The recorded digest is the desired one; the drift policy is Ignore.
MarkInSync ==
  /\ LiveFound /\ ~Blocked /\ st.art = want
  /\ \/ CallsSucceed /\ Save(InSync(st, want))
     \/ CallFails("rename") /\ Save(Failed(st))
  /\ UNCHANGED <<nifi, spec, dropped>>

-----------------------------------------------------------------------------
(* reconcileBlueGreenRollout *)

Rolls == LiveFound /\ ~Blocked /\ st.art # want

\* ensureActiveFlowRollout replaces a rollout whose target is no longer desired.
StartRollout ==
  /\ Rolls /\ (~Active \/ st.ro.target # want)
  /\ made < MaxGroups
  /\ Save(Failed([st EXCEPT !.ro =
            [NoRollout EXCEPT !.phase = "DeployingCandidate", !.target = want,
                              !.blue = st.pg]]))
  /\ UNCHANGED <<nifi, spec, fails, dropped>>

InPhase(phase) == Rolls /\ st.ro.target = want /\ st.ro.phase = phase

\* blueGreenDeployCandidate
DeployCandidate ==
  /\ InPhase("DeployingCandidate")
  /\ \/ /\ CallFails("import")
        /\ Save(Failed(st))
        /\ UNCHANGED <<group, made>>
     \/ /\ CallsSucceed /\ made < MaxGroups
        /\ made' = made + 1
        /\ group' = [group EXCEPT ![made'] = want]
        /\ Save([st EXCEPT !.ro.cand = made', !.ro.phase = "AwaitingReadiness"])
  /\ UNCHANGED <<running, wiring, queued, stopped, spec, dropped>>

\* blueGreenAwaitReadiness: the candidate's components are valid but for its ports.
CandidateReady ==
  /\ InPhase("AwaitingReadiness") /\ Exists(st.ro.cand)
  /\ Save([st EXCEPT !.ro.phase = "SwitchingTraffic"])
  /\ UNCHANGED <<nifi, spec, fails, dropped>>

CandidateUnreachable ==
  /\ InPhase("AwaitingReadiness")
  /\ \/ ~Exists(st.ro.cand) /\ CallsSucceed
     \/ CallFails("candidate")
  /\ Save(Failed(st))
  /\ UNCHANGED <<nifi, spec, dropped>>

CandidateExpires ==
  /\ InPhase("AwaitingReadiness") /\ Exists(st.ro.cand)
  /\ CallsSucceed
  /\ Abort

\* blueGreenInventory: record every connection that crosses the blue group's edge.
Inventory ==
  /\ InPhase("SwitchingTraffic") /\ ~st.ro.inv /\ Exists(st.ro.blue)
  /\ Save([st EXCEPT !.ro.inv = TRUE, !.ro.keys = Attached(st.ro.blue),
             !.ro.recs = [k \in ConnIds |-> IF k \in Attached(st.ro.blue)
                                            THEN [NoRecord EXCEPT !.orig = k]
                                            ELSE NoRecord]])
  /\ UNCHANGED <<nifi, spec, fails, dropped>>

InventoryFails ==
  /\ InPhase("SwitchingTraffic") /\ ~st.ro.inv
  /\ (~Exists(st.ro.blue) /\ CallsSucceed) \/ CallFails("inventory")
  /\ Abort

\* Listing the candidate's ports precedes every switch of a connection.
PortsFail ==
  /\ InPhase("SwitchingTraffic") /\ st.ro.inv /\ st.ro.keys # {}
  /\ (~Exists(st.ro.cand) /\ CallsSucceed) \/ CallFails("ports")
  /\ Abort

\* Mutant: the first switched connection ends the phase.
AnySwitched ==
  /\ InPhase("SwitchingTraffic") /\ st.ro.inv /\ (st.ro.keys # {} => Switched # {})
  /\ Save([st EXCEPT !.ro.phase = "Promoting"])
  /\ UNCHANGED <<nifi, spec, fails, dropped>>

AllSwitched ==
  /\ InPhase("SwitchingTraffic") /\ st.ro.inv /\ Unswitched = {}
  /\ Save([st EXCEPT !.ro.phase = "Promoting"])
  /\ UNCHANGED <<nifi, spec, fails, dropped>>

-----------------------------------------------------------------------------
(* blueGreenSwitchConnection, on the first record not switched yet *)

Switching(k) ==
  /\ InPhase("SwitchingTraffic") /\ st.ro.inv /\ First(k, Unswitched)
  /\ Exists(st.ro.cand)

Orig(k) == st.ro.recs[k].orig
Matched(k) == wire[k].b \in Ports[st.ro.target]

\* SetComponentRunStatus STOPPED on the producing side.
StopSource(k) == stopped' = stopped \union {Source(wire[k].b, wire[k].g)}

UnmatchedPort(k) ==
  /\ Switching(k) /\ ~Matched(k)
  /\ Save(StartedRollback)
  /\ UNCHANGED <<nifi, spec, fails, dropped>>

StopFails(k) ==
  /\ Switching(k) /\ Matched(k) /\ CallFails("stop")
  /\ Save(StartedRollback)
  /\ UNCHANGED <<nifi, spec, dropped>>

\* The queue of the connection cannot be read or dropped.
QueueFails(k) ==
  /\ Switching(k) /\ Matched(k)
  /\ StopSource(k)
  /\ (Orig(k) \notin conns /\ CallsSucceed) \/ CallFails("queue")
  /\ Save(StartedRollback)
  /\ UNCHANGED <<groups, wiring, queued, spec, dropped>>

\* Mutant: the start of the drain is not recorded.
AwaitDrainUntimed(k) ==
  /\ Switching(k) /\ Matched(k) /\ Orig(k) \in conns \cap queued
  /\ StopSource(k)
  /\ Save(st)
  /\ UNCHANGED <<groups, wiring, queued, spec, fails, dropped>>

\* The drain timeout cannot have expired on the pass that starts the drain.
AwaitDrain(k) ==
  /\ Switching(k) /\ Matched(k) /\ Orig(k) \in conns \cap queued
  /\ StopSource(k)
  /\ Save([st EXCEPT !.ro.recs[k].draining = TRUE])
  /\ UNCHANGED <<groups, wiring, queued, spec, fails, dropped>>

DrainExpires(k) ==
  /\ Switching(k) /\ Matched(k) /\ Orig(k) \in conns \cap queued
  /\ st.ro.recs[k].draining /\ OnDrainTimeout # "Drop"
  /\ StopSource(k)
  /\ Save(StartedRollback)
  /\ UNCHANGED <<groups, wiring, queued, spec, fails, dropped>>

\* Mutant: the queue is not looked at.
DrainedUnread(k) == Orig(k) \in conns

\* The queue is empty, or has timed out and is dropped.
Drained(k) ==
  /\ Orig(k) \in conns
  /\ Orig(k) \in queued => st.ro.recs[k].draining /\ OnDrainTimeout = "Drop"

\* What becomes of the queue of a connection that is dropped or deleted.
EmptyQueue(c) ==
  /\ queued' = queued \ {c}
  /\ dropped' = (dropped \/ (c \in queued /\ OnDrainTimeout # "Drop"))

\* CreateConnection: a fresh id for boundary b at group g.
Connect(b, g, rest) ==
  /\ wired < MaxConns
  /\ wired' = wired + 1
  /\ conns' = rest \union {wired'}
  /\ wire' = [wire EXCEPT ![wired'] = [b |-> b, g |-> g]]

\* The connection cannot be read or deleted.
DeleteFails(k) ==
  /\ Switching(k) /\ Matched(k) /\ Drained(k)
  /\ StopSource(k)
  /\ EmptyQueue(Orig(k))
  /\ CallFails("delete")
  /\ Save(StartedRollback)
  /\ UNCHANGED <<groups, wiring, spec>>

Switch(k) ==
  /\ Switching(k) /\ Matched(k) /\ Drained(k)
  /\ StopSource(k)
  /\ Connect(wire[k].b, st.ro.cand, conns \ {Orig(k)})
  /\ EmptyQueue(Orig(k))
  /\ Save([st EXCEPT !.ro.recs[k].green = wired', !.ro.recs[k].switched = TRUE])
  /\ UNCHANGED <<groups, spec, fails>>

\* The blue connection is deleted; creating the green one fails or is never reached.
SwitchTorn(k) ==
  /\ Switching(k) /\ Matched(k) /\ Drained(k)
  /\ StopSource(k)
  /\ conns' = conns \ {Orig(k)}
  /\ EmptyQueue(Orig(k))
  /\ \/ CallFails("create") /\ Save(StartedRollback)
     \/ CallsSucceed /\ Crash
  /\ UNCHANGED <<groups, wire, wired, spec>>

-----------------------------------------------------------------------------
(* blueGreenPromote *)

PromoteFails ==
  /\ InPhase("Promoting")
  /\ \/ ~Exists(st.ro.cand) /\ CallsSucceed
     \/ CallFails("candidate") \/ CallFails("start")
  /\ Save(Failed(st))
  /\ UNCHANGED <<nifi, spec, dropped>>

CandidateFound == InPhase("Promoting") /\ Exists(st.ro.cand)

\* Scheduling a group RUNNING starts its output ports too.
StoppedOutside(g) == {s \in stopped : s[2] # g}

\* The candidate is already started and adopted in the status when renaming it fails.
RenameFails ==
  /\ CandidateFound /\ CallFails("rename")
  /\ running' = running \union {st.ro.cand}
  /\ stopped' = StoppedOutside(st.ro.cand)
  /\ Save(Failed([st EXCEPT !.pg = st.ro.cand]))
  /\ UNCHANGED <<group, made, wiring, queued, spec, dropped>>

\* SetComponentRunStatus RUNNING on each of the sources, errors discarded.
Restart(sources, before) ==
  \E left \in SUBSET (sources \cap before) :
    /\ left # {} => MayFail("restart")
    /\ stopped' = (before \ sources) \union left

\* Mutant: the promoted group is the one to retire.
PromoteRetiringGreen ==
  /\ CandidateFound /\ CallsSucceed
  /\ running' = running \union {st.ro.cand}
  /\ stopped' = {}
  /\ Save(InSync([st EXCEPT !.pg = st.ro.cand, !.retiring = st.ro.cand], want))
  /\ UNCHANGED <<group, made, wiring, queued, spec, dropped>>

\* Mutant: blue is deleted by the promotion, not one reconcile later.
PromoteDeletingBlue ==
  /\ CandidateFound /\ CallsSucceed
  /\ DeleteProcessGroup(st.ro.blue, running \union {st.ro.cand})
  /\ stopped' = {}
  /\ Save(InSync([st EXCEPT !.pg = st.ro.cand], want))
  /\ UNCHANGED <<made, wiring, queued, spec, dropped>>

Promote ==
  /\ CandidateFound /\ CallsSucceed
  /\ running' = running \union {st.ro.cand}
  /\ Restart({<<wire[k].b, 0>> : k \in {k \in st.ro.keys : wire[k].b \in Inbound}},
             StoppedOutside(st.ro.cand))
  /\ Save(InSync([st EXCEPT !.pg = st.ro.cand, !.retiring = st.ro.blue], want))
  /\ UNCHANGED <<group, made, wiring, queued, spec, dropped>>

-----------------------------------------------------------------------------
(* blueGreenRollbackTraffic: the first switched record, then the cleanup *)

Restoring(k) == InPhase("RollingBackTraffic") /\ First(k, Switched)
Green(k) == st.ro.recs[k].green

\* The queue of the green connection is dropped whatever the drain policy says.
DropGreen(k) == EmptyQueue(Green(k))

\* Mutant: the connection is restored as it was switched.
RestoreToCandidate(k) ==
  /\ Restoring(k) /\ CallsSucceed
  /\ DropGreen(k)
  /\ Connect(wire[k].b, st.ro.cand, conns \ {Green(k)})
  /\ Save([st EXCEPT !.ro.recs[k] = [NoRecord EXCEPT !.orig = wired']])
  /\ UNCHANGED <<groups, stopped, spec>>

RestoreConnection(k) ==
  /\ Restoring(k) /\ CallsSucceed
  /\ DropGreen(k)
  /\ Connect(wire[k].b, st.ro.blue, conns \ {Green(k)})
  /\ Save([st EXCEPT !.ro.recs[k] = [NoRecord EXCEPT !.orig = wired']])
  /\ UNCHANGED <<groups, stopped, spec>>

\* GetConnection fails, which the code reads as the green connection being gone.
RestoreUnseen(k) ==
  /\ Restoring(k) /\ CallFails("getGreen")
  /\ Connect(wire[k].b, st.ro.blue, conns)
  /\ Save([st EXCEPT !.ro.recs[k] = [NoRecord EXCEPT !.orig = wired']])
  /\ UNCHANGED <<groups, queued, stopped, spec, dropped>>

\* Deleting the green connection fails: requeue without a status write.
RestoreStalls(k) ==
  /\ Restoring(k) /\ Green(k) \in conns /\ CallFails("deleteGreen")
  /\ DropGreen(k)
  /\ UNCHANGED <<groups, wiring, stopped, spec, st, lost>>

\* The green connection is deleted; creating the blue one fails or is never reached.
RestoreTorn(k) ==
  /\ Restoring(k)
  /\ DropGreen(k)
  /\ conns' = conns \ {Green(k)}
  /\ \/ CallFails("restore") /\ Save(Failed(st))
     \/ CallsSucceed /\ Crash
  /\ UNCHANGED <<groups, wire, wired, stopped, spec>>

\* Every connection is back: restart the sources and blue, delete the candidate.
FinishRollback ==
  /\ InPhase("RollingBackTraffic") /\ Switched = {} /\ CallsSucceed
  /\ \E started \in {TRUE, ~MayFail("restart")} :
       /\ Restart({Source(wire[k].b, wire[k].g) : k \in st.ro.keys},
                  IF started THEN StoppedOutside(st.ro.blue) ELSE stopped)
       /\ DeleteProcessGroup(st.ro.cand,
                             IF started THEN running \union {st.ro.blue} ELSE running)
  /\ Save(Failed([st EXCEPT !.lastRb = [gen |-> gen, digest |-> st.ro.target],
                            !.ro = NoRollout]))
  /\ UNCHANGED <<made, wiring, queued, spec, dropped>>

-----------------------------------------------------------------------------
(* The environment *)

\* The user edits the source (a new generation) or the bundle behind it changes.
ChangeSource(digest, bump) ==
  /\ edits < MaxEdits /\ digest # want /\ (Active => mids < MaxMidEdits)
  /\ want' = digest
  /\ gen' = gen + bump
  /\ edits' = edits + 1
  /\ mids' = IF Active THEN mids + 1 ELSE mids
  /\ UNCHANGED <<nifi, cancel, cancels, st, fails, lost, dropped>>

FlipCancel ==
  /\ cancels < MaxCancels
  /\ cancel' = ~cancel
  /\ gen' = gen + 1
  /\ cancels' = cancels + 1
  /\ UNCHANGED <<nifi, want, edits, mids, st, fails, lost, dropped>>

\* A running source puts a flow file on a connection.
Produce(c) ==
  /\ c \in conns \ queued
  /\ Source(wire[c].b, wire[c].g) \notin stopped
  /\ wire[c].b \notin Inbound => wire[c].g \in running
  /\ queued' = queued \union {c}
  /\ UNCHANGED <<groups, wiring, stopped, spec, st, fails, lost, dropped>>

\* The destination takes the flow files off a connection.
Consume(c) ==
  /\ c \in conns \cap queued
  /\ wire[c].b \in Inbound => wire[c].g \in running
  /\ queued' = queued \ {c}
  /\ UNCHANGED <<groups, wiring, stopped, spec, st, fails, lost, dropped>>

\* The ids of the model are used up: nothing more is explored.
BoundReached == (made = MaxGroups \/ wired = MaxConns) /\ UNCHANGED vars

-----------------------------------------------------------------------------
SwitchStep(k) ==
  \/ UnmatchedPort(k) \/ StopFails(k) \/ QueueFails(k) \/ AwaitDrain(k)
  \/ DrainExpires(k) \/ DeleteFails(k) \/ Switch(k) \/ SwitchTorn(k)

RestoreStep(k) ==
  \/ RestoreConnection(k) \/ RestoreUnseen(k) \/ RestoreStalls(k) \/ RestoreTorn(k)

Reconcile ==
  \/ RetireBlue \/ CancelRollout \/ LiveNotFound \/ RequeueBlocked \/ MarkInSync
  \/ StartRollout \/ DeployCandidate
  \/ CandidateReady \/ CandidateUnreachable \/ CandidateExpires
  \/ Inventory \/ InventoryFails \/ PortsFail \/ AllSwitched
  \/ \E k \in ConnIds : SwitchStep(k) \/ RestoreStep(k)
  \/ PromoteFails \/ RenameFails \/ Promote
  \/ FinishRollback

Environment ==
  \/ \E digest \in Digests, bump \in {0, 1} : ChangeSource(digest, bump)
  \/ FlipCancel
  \/ \E c \in ConnIds : Produce(c) \/ Consume(c)

Next == Reconcile \/ Environment \/ BoundReached

Spec == Init /\ [][Next]_vars

\* Every outcome but a settled one requeues the deployment, and every status write
\* triggers it again, so the reconciler never stops; users and flow files may.
FairSpec == Spec /\ WF_vars(Reconcile)

-----------------------------------------------------------------------------
(* Properties *)

Records == [orig : 0..MaxConns, green : 0..MaxConns, switched : BOOLEAN, draining : BOOLEAN]

Rollouts ==
  [phase : Phases, target : Digests, blue : 0..MaxGroups, cand : 0..MaxGroups,
   inv : BOOLEAN, keys : SUBSET ConnIds, recs : [ConnIds -> Records]]

Statuses ==
  [pg : GroupIds, art : Digests, retiring : 0..MaxGroups, ready : BOOLEAN,
   lastRb : [gen : Nat, digest : Digests], ro : Rollouts]

\* Every variable keeps the shape the controller and NiFi give it.
TypeOK ==
  /\ group \in [GroupIds -> Digests \union {Absent}]
  /\ made \in GroupIds
  /\ running \subseteq GroupIds
  /\ conns \subseteq ConnIds
  /\ wire \in [ConnIds -> [b : Boundaries, g : GroupIds]]
  /\ wired \in 0..MaxConns
  /\ queued \subseteq conns
  /\ stopped \subseteq Boundaries \X (0..MaxGroups)
  /\ want \in Digests /\ gen \in Nat /\ cancel \in BOOLEAN
  /\ st \in Statuses
  /\ fails \in 0..MaxFails /\ lost \in 0..MaxLost
  /\ edits \in 0..MaxEdits /\ mids \in 0..MaxMidEdits /\ cancels \in 0..MaxCancels
  /\ dropped \in BOOLEAN

\* The group retireBlueProcessGroup is about to delete is never the live one, and
\* the live group that replaced it exists and runs the recorded artifact.
RetireSafe ==
  st.retiring # 0 => st.retiring # st.pg /\ group[st.pg] = st.art

\* The blue group a rollout would switch back to exists for as long as the rollout
\* is active, whatever call fails and whichever status write is lost.
RollbackTargetExists == Active => Exists(st.ro.blue)

\* A Ready deployment's process group exists and holds the recorded artifact, as
\* long as no rollout was cancelled or given another source on its way.
ReadyMeansDeployed == cancels = 0 /\ mids = 0 /\ st.ready => group[st.pg] = st.art

\* The process group the status calls live exists, as long as no rollout was
\* cancelled: a cancelled promotion deletes the candidate it already made live.
LiveGroupExists == cancels = 0 => Exists(st.pg)

\* Outside a rollout every boundary has exactly one connection, it is attached to the
\* live group, and its source was not left stopped.
QuiescentOnLive ==
  ~Active => \A b \in Boundaries :
               /\ \E c \in conns : /\ wire[c] = [b |-> b, g |-> st.pg]
                                  /\ \A d \in conns : wire[d].b = b => d = c
               /\ Source(b, st.pg) \notin stopped

\* Flow files are discarded only if the drain policy says so.
NoDropUnderFail == ~dropped

\* Every rollout ends, promoted, rolled back or aborted.
RolloutEnds == Active ~> ~Active

-----------------------------------------------------------------------------
(* The abstract traffic switch this rollout implements. *)

\* The group a connection leads to, as TrafficSwitch tells groups apart.
Side(c) == IF wire[c].g = st.pg THEN "live" ELSE "candidate"

\* Where the traffic of a boundary goes.
RouteOf(b) ==
  LET cs == {c \in conns : wire[c].b = b}
  IN  IF cs = {} THEN "none"
      ELSE IF Cardinality(cs) = 1 THEN Side(CHOOSE c \in cs : TRUE)
      ELSE "several"

\* The refinement mapping: a rollout is open as long as it is active.
Traffic == INSTANCE TrafficSwitch
             WITH route <- [b \in Boundaries |-> RouteOf(b)], open <- Active

\* The rollout moves traffic only as TrafficSwitch allows: one boundary at a time, the
\* candidate live only with every boundary on it, and no end with a boundary off live.
SwitchesTraffic == Traffic!Spec

=============================================================================
