# NiFiControl: TLA+ models, checks and proofs

NiFiControl is a Kubernetes operator (controller-runtime, Go) that manages Apache NiFi:
clusters, node groups and autoscaling, registries, users and policies, canvas components,
and above all *flow deployments*: a versioned flow that is imported into NiFi, kept in
sync, rolled out in place or BlueGreen, retried, rolled back and cancelled. This directory
holds TLA+ models of its control logic, TLC configurations that check them on small
instances, and TLAPS proofs of the results that hold for every instance.

Paths below are relative to `src/`; `C/` stands for `internal/controller/`.

## 1. The system

### How every reconciler works

A reconciler is called with the name of a custom resource and runs to the end before it is
called again for that resource (one worker per controller, and a key is never processed
twice at once). It reads the resource, calls the NiFi REST API and the Kubernetes API, and
ends with `Status().Update`. Between two reconciles anything may happen: users edit the
spec or the canvas, NiFi works on asynchronous requests, nodes restart. What a reconcile
remembers is only what the last successful status write holds; if that write fails
(conflict, API server error, operator crash), the NiFi calls it made have happened and the
old status stays. It is called again by an error, a requeue or a watch, and by nothing else.
Most calls that fail end the reconcile with a NotReady status and a requeue; some are best
effort and their errors are discarded. Nearly all hard behaviour of this code comes from
these facts.

### Components

| Component | Code | State | Operations and interactions | Hard behaviour | What makes it correct |
|---|---|---|---|---|---|
| BlueGreen rollout | `C/flow_deployment_bluegreen.go` | `status.activeRollout.blueGreen`: candidate, blue, recorded boundary connections; NiFi groups, connections, queues, sources | deploy a candidate, wait for it, stop and drain each boundary, move its connection, promote, retire blue; roll back, abort, cancel | a move is delete + create + status write; drain timeouts; resume after a lost write | traffic ends on the live group; blue outlives the rollout; nothing is discarded unasked; every rollout ends |
| In-place rollout | `C/flow_snapshot_controller.go`, `C/flow_deployment_rollout.go`, `C/flow_deployment_readiness.go`, `C/flow_deployment_history.go` | pending replace request, active rollout, history, checkpoints in ConfigMaps, last rollback | import, drain, stop, checkpoint, create and poll a replace request, finalize, gate on readiness, retry, roll back, cancel, detect drift | an asynchronous NiFi job observed by polling; source changes in the middle; retries; trimming of checkpoints | a rollback target is kept; no request is lost; Ready tells the truth; rollbacks stay |
| Deployment entry, validation, deletion; flow bundles | `C/phase1_controllers.go` (1810-2067), `C/flow_deployment_validate.go` | temporary group, phase and result of a dry run; ids; finalizer; the bundle's digest | resolve the source, dry run, first import, dispatch to a rollout, delete | bundle and deployment resolve a moving source each for itself; the temporary group leaks; deletion in the middle of a rollout | groups do not pile up; a result is for what was checked; everything ends |
| Canvas and controller components | `C/phase1_controllers.go` | `status.nifiID`, revision, conditions, finalizer | look up, adopt, create, compare, update, set the run state, delete: process groups, processors, ports, connections, funnels, labels, controller services, reporting tasks, parameter providers, registry clients | a created component whose id is not saved; stop-update-start sequences; dependencies that come and go; status writes that are skipped | Ready is true of NiFi; deletion takes what it must and nothing else; the workqueue empties |
| Parameter contexts | `C/phase1_controllers.go` (547-970) | the latest update request | asynchronous updates, polled | the spec changes while a request runs | settled means applied; one request at a time |
| Users, groups, policies | `C/phase1_controllers.go` (985-1340), `C/nifipolicy_controller.go`, `C/tenants.go` | tenant ids, members, granted ids | create, adopt, merge members; groups wait for users, policies for both | two resources share an access policy; tenants made again under other ids | ids follow; what others granted stays; deletion revokes |
| Remote process groups | `C/nifiremoteprocessgroup_controller.go` | id, ports, transmission | create, adopt, configure, start ports, drift policy | the group waits for a connection to its port, the connection for the port | no deadlock, no duplicates |
| Backup, restore | `C/nifibackup_controller.go`, `C/nifirestore_controller.go` | phase, store, digest; ConfigMaps and Secrets owned by backups | download and store; read and import or replace | artifact and status are two writes; stores are shared and collected; polling with a deadline | a succeeded backup keeps what it captured; a restore applies it |
| Scale-down | `C/managed_cluster_scaledown.go`, `C/nifinodegroup_scaledown.go` | `status.scaleDown` | disconnect, offload, delete a node, then shrink | node states move by themselves; timeouts | no pod is removed before its node is offloaded |
| Managed cluster, TLS, authn/z | `C/managed_cluster*.go` | StatefulSet, Services, Secrets, certificates | render and apply | rotation, rolling restart | readiness is truthful |
| Autoscaler | `C/nifiautoscaler_controller.go` | owned HPA or KEDA objects | render one backend, remove the other; the backend sets replicas | replicas change in the middle of a drain | as for scale-down |
| Flow artifacts | `pkg/flowartifact` | none | resolve git, OCI, registry, inline sources | I/O; sources move | |
| NiFi client | `pkg/nifi` | token cache | REST calls | | |

The rollouts interact with the rest through `reconcileSnapshotFlowDeployment`: it is
called with the snapshot, version and digest the source resolves to *now*, and dispatches
in a fixed order: retire blue, cancellation, readiness wait, pending replace request,
import, live group lookup, blocked target, in-sync check, then BlueGreen or in-place
rollout. Several of the results below are about that order. The other resources interact
through watches and through each other's statuses: ids are taken from the status of what is
referred to, and whoever finds it not ready waits for an event.

## 2. Modules

| Module | What it is |
|---|---|
| `BlueGreenRollout` | the BlueGreen state machine with NiFi's groups, connections, queues and sources |
| `TrafficSwitch` | the abstract specification: how traffic may move between the live group and a candidate |
| `FlowRollout` | the in-place rollout, its replace requests, history and checkpoints |
| `FlowEntry` | a deployment from its bundle to its deletion: resolving, dry runs, first import, what the entry sees of both rollouts |
| `ManagedComponent` | one resource of any of eleven kinds, its reconciler, the workqueue and NiFi |
| `ParameterContext` | a parameter context and its asynchronous updates |
| `Access` | users, a group and policies that share an access policy |
| `RemoteGroup` | a remote process group and the connection to its port |
| `BackupRestore` | backups, restores, the stores between them and NiFi's replace requests |
| `ScaleDown` | graceful scale-down of a managed cluster and its node groups, with NiFi's node states and Kubernetes' pods |
| `MC...` | instances of each for TLC |
| `BlueGreenRolloutProofs`, `FlowRolloutProofs`, `FlowEntryProofs`, `ManagedComponentProofs`, `ParameterContextProofs`, `AccessProofs`, `BackupRestoreProofs`, `ScaleDownAndRemoteGroupProofs` | TLAPS proofs |

The two rollouts have the same shape. One reconcile is one step: `Reconcile` is the
disjunction of the handlers, each guarded by the conditions and early returns of the
dispatcher, so that in every state the handlers that can run are the outcomes of the one
reconcile the code would make. A handler that calls NiFi has an action per outcome: it
works, or a call named in `FaultPoints` fails there (`CallFails`). Each ends in `Save(s)`:
the status write lands, or (bounded by `MaxLost`) is lost after the NiFi calls took effect.
A timeout is a choice: the wait goes on or has expired, which covers every timing.
Snapshots are digests; only *whether* two contents differ matters. `want` is the digest the
source resolves to, `gen` the generation; a change of the source may or may not bump it,
as a bundle is another resource.

**BlueGreenRollout.** NiFi is `group` (content per id, ids never reused), `running`, the
connections `conns`/`wire`, `queued` and `stopped` sources (`<<b, 0>>` an external source,
`<<b, g>>` an output port of group `g`). The resource is `want`, `gen`, `cancel` and the
status `st`; `st.ro` is `ActiveRollout` with its records. The model starts with a deployment
in sync. Actions: `RetireBlue`, `CancelRollout`, `LiveNotFound`, `RequeueBlocked`,
`MarkInSync`, `StartRollout`, `DeployCandidate`, `CandidateReady`, `CandidateUnreachable`,
`CandidateExpires`, `Inventory`, `PortsFail`, `AllSwitched`, `UnmatchedPort`, `AwaitDrain`,
`DrainExpires`, `Switch`, `SwitchTorn`, `Promote`, `RenameFails`, `RestoreConnection` and
its failures, `FinishRollback`. The drift policy is Ignore.

**TrafficSwitch.** Boundaries go one at a time from the live group to the candidate and
back; the candidate becomes live only when every boundary is on it; a rollout ends only
with every boundary on the live group. The refinement mapping, `route` and `Traffic`,
is at the end of `BlueGreenRollout`.

**FlowRollout.** NiFi is the live group's `content` (`Foreign` when edited or half
replaced), `running`, `backlog` and the replace requests `reqs`, which NiFi ends by itself,
forgets when it restarts, and keeps until deleted. Kubernetes is `cms`, the digests whose
checkpoint ConfigMap exists. `attempts` and `undone` are history variables: the requests
made, and how far the rollback is, since the source or the spec last changed.

In the other modules about resources a reconcile runs only when `queued` says that the
workqueue holds the resource: edits, watched events, errors and requeues set it, the end of a
reconcile with neither clears it. That makes "whoever waits is woken" something that can
fail. A write of a status that does not change it is not made and wakes nobody, as in the
code. Lost writes and answers, failing calls, edits and changes by others share a bound.

**FlowEntry.** `source` is the content a branch or tag has now; a bundle and the deployment
resolve it each for itself (`ReconcileBundle`, `Matches`), and one that finds another digest
than the other recorded fails without a requeue. `StartFlowValidation`, `Inspect`, `Cleanup`
and `CleanupStale` are the dry run; NiFi validates components when it likes (`Settle`) and a
dry run may be `late`. Rollouts are what the entry sees of them: one step in place; start,
candidate, promotion or abort, retirement in BlueGreen. `ReconcileDelete` is the finalizer.

**ManagedComponent.** `kind` is chosen in Init; every kind has its own `Reconcile...`,
`Existing...`, `...Differs` and `Delete...`, made of the shared steps `Await`, `ById`,
`Adopt`, `Create`, `Update`, `SetState`, `StopUpdate`, `Remove`, `StopRemove` in the order
its reconciler has them. A configuration is one value; a component runs or does not; a
revision is reduced to whether the status still holds NiFi's. Dependencies become ready and
unready (`DependencyReady`, `DependencyUnready`), the cluster is deleted (`ClusterDeleted`),
and `Wakes` says which of them are watched. `known` is a history variable: the ids ever saved.

**ParameterContext.** NiFi's contexts of the name, and its update requests, which run, end,
fail or are forgotten by a restart. `Poll` looks at the pending request; `RequestUpdate` makes
one when `NeedsUpdate`; the end of a request makes the *present* generation Ready.

**Access.** `tenants`, `members`, `groups` and `access` are NiFi's; `identity` and `refs`
what the resources ask for. A reconcile merges: a policy adds its tenants to those of the
access policy (`MergeTenantRefs`), and a deletion takes those its status recorded
(`Remaining`). `Admin` stands for what somebody else granted.

**RemoteGroup.** NiFi discovers the port some time after the group exists (`Discover`); the
group asks again while it waits for ports (`MarkPortsPending`), the connection takes the
port's id from the group's status (`Dependency`). Each reconcile may fail after any of its
calls (`Partial`).

**BackupRestore.** Two controllers with a worker each; a reconcile is two or three steps, as
others act between its writes: `Capture` and `BackupSucceeds`; `ImportProcessGroup` or
`CreateReplaceRequest`, its poll, and `RestoreSucceeds`. A worker holds a copy that is behind
once the resource changes (`Behind`), so that its status write is refused; a reconcile may
also start from a status the cache has not updated (`stale`). `Collect` is Kubernetes'
garbage collection. `did` and `vain` are history variables.

**ScaleDown.** A pool is a StatefulSet: the primary pool of a `NiFiCluster`, or one of a
`NiFiNodeGroup`; `computeOffloadStep` serves both. Pools are reconciled by different
controllers, so here too a reconcile is not atomic but has up to three steps, at the instants
where others can get in: `List` reads the spec, the cached StatefulSet and the node list
(or `Settle` finds nothing to drain); one of `Gone`, `TimesOut`, `ForceRemove`,
`Disconnect`, `Offload`, `Remove`, `AwaitNode`, `Refused`, `CallFails` calls NiFi on what was
read and saves the status (`Save`, which may fail after the call took effect); `Apply`
writes the StatefulSet, or `ApplyFails`. `rec[p]` holds what the reconcile under way has read.
`seen` is the informer's copy of a StatefulSet: a write may reach it late, and CreateOrUpdate
is refused when it is behind. `due` is the workqueue: the pools whose reconcile an error, a
requeue, a change of their StatefulSet or of their own resource has asked for (`Call`). A
reconcile takes its pool off it (`Taken`), and `due` does not keep one from starting, as
something else may always call it; it is what fairness speaks of. The write of a group's
StatefulSet is the one failure that asks for nothing (`ApplyFails`,
`C/nifinodegroup_controller.go:107-110`): the group is called again by the watch when its
status is written, or by the error when that fails, but `setNodeGroupStatus` writes nothing
when the status already says so for this spec (`told`). The next outcome of another kind, a
wait for the cluster (`AwaitCluster`) and an edit (`Respec`) put something else there.

NiFi's nodes move by themselves, pods start, stop and crash,
users reconnect drained nodes; replicas (by users or an autoscaler), `offloadData` and
`onTimeout` change at any time. A node is its address, that is pool and ordinal; `status[p]`
is the address being drained and whether its timeout has passed (`Expire`). `given` is a
history variable: the nodes that were force-removed. Left out: the phase in the status
(shown, never read), reads of the custom resource itself that are behind, and users who
disconnect nodes by hand; also the calls of a group by changes of its cluster and by a status
with a new count of ready pods or another reason, without which a group rests more often than
it does (what holds of the model holds with them). The primary pool counts as due always:
every outcome but a ready cluster requeues (`C/managed_cluster.go:1110-1119`), and what makes
a ready one wrong calls it.

`BoundReached` in the rollouts lets a behaviour stop where an id bound is reached, so that
deadlock checking stays on: no reachable state other than that lacks a reconcile. In the
modules with a workqueue a behaviour may stop: everything is at rest.

## 3. What the runs check

### Runs that pass

| Run | Instance | Shows |
|---|---|---|
| `BlueGreenFaults` | 1 inbound + 1 outbound boundary, 3 digests of which one lacks the output port, 2 failing calls, 2 source changes between rollouts, fairness | outside a rollout each boundary has exactly one connection, on the live group, with its source running (`QuiescentOnLive`); nothing is discarded under Fail (`NoDropUnderFail`); the rollout implements `TrafficSwitch` (`SwitchesTraffic`); every rollout ends (`RolloutEnds`) |
| `BlueGreenAnything` | any call fails once, two lost writes, a source change in the middle of a rollout, cancellation set and withdrawn, policy Drop | blue is retired only when another group is live and holds the recorded artifact (`RetireSafe`), and exists while a rollout is active (`RollbackTargetExists`); unless a rollout was cancelled the live group exists (`LiveGroupExists`), and unless it was also given another target it holds what a Ready status says (`ReadyMeansDeployed`) |
| `FlowHandled` | StopAllThenApply with draining, readiness gate, rollback, one retry, history of one; two failing calls, one lost write, NiFi restarts, a canvas edit, a cancellation, two source changes at any time; three interchangeable digests (symmetry; no liveness is checked) | the checkpoint a rollback needs is kept (`CheckpointKept`); no request is lost track of but by the lost write (`NoStrayRequest`); in sync is true (`InSyncMeansLive`); a rolled back deployment makes no request until something changes (`StaysRolledBack`) |
| `FlowSettles` | drift policy Reconcile, failures stop, fairness | the deployment ends up Ready with the wanted flow, or rolled back from it (`Settles`), and a Ready flow runs (`ReadyMeansRunning`) |
| `FlowEntry` | inline source or bundle, both strategies, two contents of which one is valid, five groups, three events, fairness | groups do not pile up, the status knows those in use, deletion removes them (`GroupsKnown`); valid is said of what was valid (`ValidIsTrue`); deployments, dry runs and deletions end (`ComesToRest`) |
| `Components` | each of the eleven kinds, two components, an edit, a change by others, a fault, fairness | Ready is true of configuration and run state (`StatusIsTrue`); deletion removes every component the status ever named and nothing else is touched (`DeletionIsExact`); an id is not dropped while its component exists (`NeverForgets`); resources become Ready, deletions end and the workqueue empties (`ComesToRest`) |
| `Parameters` | with and without adoption and a context of the name, two contexts, three requests, two edits, two faults, fairness | settled means applied (`StatusIsTrue`); requests do not pile up (`OneRequest`); a deleted context is not brought back by a request under way (`DeletedMeansGone`); `ComesToRest` |
| `Access` | a user in a group and in two policies that share an access policy, the group in one of them; two ids of each, two events, fairness | members and grants follow the ids (`StatusIsTrue`); deletion revokes (`DeletionRevokes`); what others granted stays (`OthersKeepAccess`); `ComesToRest` |
| `RemoteGroup` | all four drift modes, two groups and two connections, two events, fairness | Ready is true of port and configuration (`StatusIsTrue`); waiting makes no second group or connection (`NoDuplicates`); neither set-up nor deletion deadlocks (`ComesToRest`) |
| `Backups` | two backups that want the same store or different ones, one of which a user made; one restore; two versions of the flow, three uids, two imports, two events, fairness | a succeeded backup keeps what it captured (`CapturedIsKept`); a restore applied what its backup says, and once but for lost answers (`RestoredIsCaptured`); all that can succeed do (`ComesToRest`) |
| `ScaleDown` | a primary pool of two and a group of one, two edits, two faults (failing calls and writes, a late cache, crashes, reconnections), fairness | no running pod with flow files is taken away unless it was forced out (`NoStranded`); a pool that grows has no drain timer left (`FreshTimer`); every scale-down ends, or a status reports why not: a timeout, or a group's StatefulSet that could not be written and was not called again (`ScaleDownEnds`); no pool shrinks below its least size (`TypeOK`) |

`HandledFaults` in `MCBlueGreenRollout` leaves out four calls whose failure the rollout
does not recover from (listing the candidate's ports, creating the green connection,
reading it during the rollback, restarting sources); the next section shows what they do.
The runs have between 49,000 (`BlueGreenFaults`) and 1,054,000 (`FlowHandled`) states and
take up to two and a half minutes each with two workers.

### What TLC refutes

`FlowDigest` is a run of its own: `CheckedIsValidated` says what the comment at
`CheckedDigest` (`api/v1alpha1/nififlowdeployment_types.go:186`) says, that it is the digest
that was validated. The source moves during the dry run, and the result of what was imported
is recorded under the new digest.

The same modules show more with other constants (each line changes only what it names, in
the configuration named first):

| From | Change | Refuted | What happens |
|---|---|---|---|
| `BlueGreenFaults` | `FaultPoints <- CreateFaults` | `QuiescentOnLive` | creating the green connection fails after the blue one was deleted; the record is not marked switched, so the rollback does not restore it |
| `BlueGreenFaults` | `FaultPoints <- NoFaults`, `MaxLost = 1` | `QuiescentOnLive` | the write that records a switched connection is lost |
| `BlueGreenFaults` | `FaultPoints <- PortFaults` | `QuiescentOnLive` | listing the candidate's ports fails with a connection already switched: aborted, not rolled back |
| `BlueGreenFaults` | `FaultPoints <- GetGreenFaults` | `QuiescentOnLive` | reading the green connection fails in the rollback: the boundary gets two connections |
| `BlueGreenFaults` | `FaultPoints <- NoFaults`, `MaxMidEdits = 1` | `QuiescentOnLive` | the source goes back to the live digest in the middle of a switch and is marked in sync |
| `BlueGreenFaults` | `FaultPoints <- NoFaults`, `MaxCancels = 1` | `RolloutEnds` | while cancel stays set every reconcile starts the rollback again and none performs it |
| `BlueGreenFaults` | `FaultPoints <- NoFaults`, `MaxLost = 1` | `RolloutEnds` | the write of an abort is lost after the candidate was deleted: it is waited for forever |
| `BlueGreenFaults` | `FaultPoints <- RenameFaults`, `Ports <- PortsMatch`, `MaxCancels = 2` | `NoDropUnderFail` | the rollback of a half-done promotion discards the queues of the green connections whatever the policy |
| `BlueGreenFaults` | `FaultPoints <- NoFaults`, `Ports <- PortsMatch`, `MaxLost = 1`, `MaxCancels = 2` | `NoDropUnderFail` | the same, when the write that ends the promotion is lost |
| `BlueGreenAnything` | none | `Exists(st.pg)`, which is `LiveGroupExists` without its premise | a promotion whose rename failed has already made the candidate the live group; a cancellation then deletes it |
| `FlowSettles` | `RollbackEnabled = FALSE` | `RetryBudget` | the retry counter goes away with the rollout that is given up, and the next reconcile starts a new one |
| `FlowHandled` | `DriftMode = "Ignore"` | `InSyncMeansLive` | the source changes during the readiness wait: what was deployed is recorded as the new digest |
| `FlowHandled` | `DriftMode = "Ignore"`, `ReadinessGate = FALSE` | `InSyncMeansLive` | a replacement fails half way and the source goes back: in sync without a look at the canvas |
| `FlowSettles` | `RollbackEnabled = FALSE`, `MaxRetries = 0`, `MidRolloutEdits = TRUE` | `ReadyMeansRunning` | a given-up rollout leaves the group stopped |
| `FlowSettles` | `FaultPoints <- RestartFaults` | `Settles` | NiFi restarts and forgets the request that is polled |
| `FlowSettles` | `FaultPoints <- NoFaults`, `MidRolloutEdits = TRUE`, `Digests <- ThreeDigests`, `MaxDrifts = 0` | `Settles` | the source changes while queues drain: the new rollout is never saved, its start is always now, the wait never expires |
| `Components` | `Kinds = {"Processor"}`, `Pins = {FALSE}` | `ComesToRest` | a field the spec leaves open is compared with NiFi's default and differs: the processor is updated at every reconcile |
| `Access` | `Policies = {"p1"}`, `Refs <- OneRefs` | `GrantsExactly` | what a policy granted before an edit stays granted, where `C/nifipolicy_controller.go:23-25` says that it "grants exactly those tenants" |
| `RemoteGroup` | `Modes = {"Warn"}`, `MaxMade = 1` | `SpecChangeApplied` | a spec change whose first application failed counts as drift from then on and is not applied, where the comment at `C/nifiremoteprocessgroup_controller.go:191` says it "is always applied" |
| `Backups` | none | `CapturedIsKept` without its premise `~stale` | a reconcile from a cache that has not seen the success captures again, and the refused status write leaves the old digest over the new artifact |
| `ScaleDown` | `JoinsMidway = TRUE` | `NoStranded` | a node is removed while its pod is down; the pod restarts and joins before the StatefulSet shrinks, and is taken away with its flow files |
| `ScaleDown` | none | `ForceEnds` | a node whose drain timed out is connected again; Force only deletes, NiFi deletes no connected node, and nothing disconnects it any more |
| `ScaleDown` | none | `WritesAreRetried`, which is `ScaleDownEnds` without the failing write | offload is switched off and a group scaled from one to none; its StatefulSet cannot be written twice in a row. The second failure returns no error and no requeue and finds its status written (`C/nifinodegroup_controller.go:109`, `275-277`), so the group rests with a size nobody wants until something else calls it |

### What the premises leave out

Liveness properties hold under a premise `Calm`, and some safety properties under counters
of what was lost. What those exclude is behaviour of the code, not of the model:

* *Lost writes leave orphans.* A component, context, tenant, imported group or replace
  request whose id was not saved is made again unless adoption finds it; the first one stays.
  A parameter context is then refused adoption for ever (`AdoptionRequired`).
* *No way back.* A connection, remote group or component of most kinds that disappeared from
  NiFi is an error for ever, except reporting tasks and parameter providers. A parameter
  context waits for ever for a request that a restarted NiFi forgot, and one adopted by name
  whose first update does not end at once never gets its id saved. A deployment that alone
  fails to resolve its source is not called again. A missing Secret is not watched.
* *Refusals.* Running ports are not stopped before they are deleted, nor the live group of a
  deployment, nor a transmitting port for its connection; registry clients, users and groups
  are deleted with the revision of the status, which a change by others makes stale for ever.
* *Sharing.* Deleting one of two policies with a tenant in common takes the access of both,
  until the other is reconciled. A store left by an edit of `spec.storage` stays the backup's
  and blocks others; a user's own ConfigMap without a controller is taken over by a backup
  and collected with it.
* *Waiting for each other.* A processor or port that is to run is invalid until it is
  connected, and not Ready; a connection waits for Ready ends.
* *Never compared.* Sensitive values of parameters and properties, and the digest of what a
  restore reads. (`BackupRestore` lets a restore read the backup's status and the store at one
  instant; the code reads them from two informers, one of which may be behind the other.)

### Bounds

Two boundaries are the least with a partial switch and both directions. Three group ids
allow a rollout, its failure and another; ten connection ids a full switch, a full rollback
and a second switch. One or two failing calls reach every single failure point and its
interplay with a second; the id bounds end behaviours (`BoundReached`) rather than block
them. Two or three digests let the source go away and come back, or go elsewhere. Five to
seven replace requests allow rollout, retry, rollback and another rollout. A primary pool of
two is the least that can shrink, a group of one the least that shrinks to nothing; two
edits make a scale-down and its withdrawal, a scale-down of both pools, or one and a
change of policy; two faults a failure and a crash or reconnection in its recovery. The
timeout needs no bound. `JoinsMidway = FALSE` says that a pod takes longer to start and
join than a reconcile takes from the node list to the StatefulSet.

In the modules about resources, two of what is created are the least with a duplicate, and
two or three events the least for a failure in the recovery from another, an edit in a
deletion, or a tenant deleted and made again while something waits for it. A third policy, user or
backup does only what the second does, as they meet in one access policy or store.
Three requests of a parameter context allow one that fails, one that overlaps an edit and
one that applies it. Five groups of a deployment allow a dry run, its repetition, the flow, a
candidate and one leaked. Three uids let a backup be made again under its name.

### Fairness

`WF_vars(Reconcile)`: in the rollouts every outcome of a reconcile that is not settled returns
`RequeueAfter` or an error, and every status write triggers a reconcile by the watch, so
the reconciler never stops. `FlowRollout` adds `WF_vars(NiFiWorks)`: NiFi ends a replace
request it accepted unless it restarts. `ScaleDown` has `WF` of the
reconcile of a pool that is due or has one under way, and of no other: whether a group is
called again is part of the model, and a group that nobody calls may rest for ever. It has
`WF` of the informer, of NiFi's moves between node states and of pods that stop, and `SF`
of pods that start, since a reconcile under way holds them off under `JoinsMidway = FALSE`,
but the next gap does not.

In the modules with a workqueue a resource that is queued is reconciled in the end (`WF`,
one worker and a FIFO queue); whether it is queued is part of the model. NiFi ends update
requests (`ParameterContext`), validates components (`ManagedComponent`) and discovers ports
(`RemoteGroup`); a dry run need not be validated in time, but its clock goes on (`FlowEntry`).
`BackupRestore` has `SF` of the start of each backup and restore, since the worker is busy
with others again and again but the queue is in order, and `WF` of garbage collection.
Users, queues, dependencies and failures have no fairness. A queue that never drains is
covered, as the timeout is a choice of the reconcile; in fair runs a wait that could expire
for ever does expire, which is what a clock does.

## 4. What is proved

A theorem holds for every value of the constants that the named ASSUMEs of its module allow:
any bounds, fault sets, kinds and policies, and any number of boundaries, pools, users,
policies, backups or restores (finitely many boundaries, backups and restores, as these are
counted). A further hypothesis is in the theorem's statement
and in the tables below; the instances of section 3 satisfy it, and the table of refutations
there shows what happens without it. TLC finds every inductive invariant to hold on the
instance of the run that checks its properties, too.

None of the properties is inductive as it stands, for one reason: a status write may be lost
at any step, after the calls to NiFi took effect. What makes the next reconcile safe must
hold of the status that is saved *and* of the one that was there before. Each proof module
therefore has the same plan: lemmas on the operators that build a status or call NiFi, then
one lemma per handler, then the steps of users, NiFi and Kubernetes, then the theorems.

| Module | Theorem | Property | Hypothesis |
|---|---|---|---|
| `BlueGreenRolloutProofs` | `TypeCorrect` | `TypeOK` | |
| | `RetirementIsSafe` | `RetireSafe` | |
| | `RollbackIsPossible` | `RollbackTargetExists` | |
| | `LiveGroupStays` | `LiveGroupExists` | |
| | `ReadyIsDeployed` | `ReadyMeansDeployed` | |
| | `NothingIsDropped` | `NoDropUnderFail` | `WholePromotions` |
| | `TrafficReturns` | `QuiescentOnLive` | `HandledOnly`, `"restart" \notin FaultPoints` |
| | `RolloutSwitchesTraffic` | `SwitchesTraffic` (refines `TrafficSwitch`) | `HandledOnly` |
| `FlowRolloutProofs` | `TypeCorrect` | `TypeOK` (with the limits of history and retries) | |
| | `CheckpointsAreKept` | `CheckpointKept` | |
| | `RollbacksStay` | `StaysRolledBack` | |
| | `NoStrayRequests` | `NoStrayRequest` | `"forget" \notin FaultPoints` |
| | `InSyncIsLive` | `InSyncMeansLive` | the same, and `DriftMode # "Ignore"` |
| | `ReadyIsRunning` | `ReadyMeansRunning` | `Calm` |
| `FlowEntryProofs` | `GroupsAreKnown` | `GroupsKnown` | |
| | `ValidIsChecked` | `ValidIsTrue` | |
| `ManagedComponentProofs` | `StatusesAreTrue` | `StatusIsTrue` | |
| | `DeletionsAreExact` | `DeletionIsExact` | |
| | `StatusHolds` | `NeverForgets` | |
| `ParameterContextProofs` | `StatusesAreTrue` | `StatusIsTrue` | |
| | `RequestsAreOne` | `OneRequest` | |
| | `DeletionIsFinal` | `DeletedMeansGone` | |
| `AccessProofs` | `StatusesAreTrue` | `StatusIsTrue` | |
| | `DeletionsRevoke` | `DeletionRevokes` | |
| | `OthersAreKept` | `OthersKeepAccess` | |
| `BackupRestoreProofs` | `TypeCorrect` | `TypeOK` | |
| | `CapturesAreKept` | `CapturedIsKept` | |
| | `RestoresAreTrue` | `RestoredIsCaptured` | |
| `ScaleDownAndRemoteGroupProofs` | `TypeCorrect` | `TypeOK` (no pool shrinks below its least size) | |
| | `TimersAreFresh` | `FreshTimer` | |
| | `NothingStranded` | `NoStranded` | `~JoinsMidway` |
| | `RemoteStatusTrue` | `StatusIsTrue` of `RemoteGroup` | |
| | `RemoteNoDuplicates` | `NoDuplicates` of `RemoteGroup` | |

### BlueGreenRolloutProofs

Four invariants:

* `RolloutInv` adds `IdsMade` (no id in the status is one not handed out yet, so an import
  never resurrects a group the status names), `CandidateOwn` (the candidate is not blue, so
  deleting it keeps the rollback target, and it holds the rollout's target or nothing, so
  promoting it makes the recorded artifact true) and `RetiresAfterRollout` (a group to be
  retired and an active rollout never coexist).
* `LiveInv` relates the live group to the rollout: without a cancellation it is blue until
  the promotion (`LiveIsBlue`), so a candidate that is deleted is not it; and it holds the
  recorded artifact but between the two halves of a promotion (`LiveIsRecorded`).
* `IdleInv` says why a rollback discards nothing: as long as the traffic may still go back
  to blue (`MayFallBack`) nothing flows through the candidate (`CandidateIdle`). It does not
  run, the sources that feed it are stopped, and the queues of the green connections, which
  the records name (`GreensKnown`) and the rollback drops unread, are empty. It holds
  whatever call fails, with lost writes and edits at any time. Only a half-done promotion,
  whose rename failed or whose write was lost, runs a candidate that a cancellation may still
  roll back, so `WholePromotions` asks that there are no such promotions or no cancellations;
  section 3 has a counterexample for each kind.
* `TrafficInv` says where each connection is in each phase (`PhaseInv`, `BlueIsLive`,
  `EarlyOnLive`, `Inventoried`, `Placed`): until the inventory all are on the live group;
  after it there is one record for each boundary, and no connection but those the records
  name, a switched one on the candidate and the others on blue. It needs `HandledOnly`: no
  write is lost and the source does not change during a rollout (`MaxLost` and `MaxMidEdits`
  are 0), none of the calls `"ports"`, `"create"`, `"getGreen"` fails, and no rollout is
  cancelled after half a promotion (`MaxCancels` is 0 or the rename does not fail). Section 3
  shows what each of the excluded failures breaks. Restarts of sources may fail, whose errors
  the code discards; then a source may stay stopped, which is why `TrafficReturns` alone
  excludes them.

The refinement maps the state by `route`: a boundary is at the live group, at the candidate,
or in between. A step that leaves connections, candidate and live group alone is a stutter,
and so are the start and the end of a rollout but for `Begin` and `End` (one lemma,
`SameRoutes`, for all of them). `Switch` is a `Move`; `RestoreConnection` a `Return`, and
`RestoreTorn` an `Unplug`; `Promote` and `RenameFails` are the `Commit`.

### FlowRolloutProofs

`RolloutInv` is `TypeOK`, `CheckpointKept` and four facts: the artifacts a status names are
ones the model knows (`Targets`); no request is pending during the readiness wait
(`GateIdle`) nor when Ready (`ReadyIdle`); `undone` says how far a rollback is (`Undone`).
`CheckpointKept` is about `trimFlowDeploymentHistory`: a pending rollback is to the last
successful digest (`Targets`), and the checkpoint of that digest is not trimmed.

`NoStrayRequests` counts `Stray`, the requests that run and are not the one in the status: a
step that adds to it is a lost write. The argument is one of cardinality, for every `MaxReqs`.
With it, a live replacement is the one the status names; `InSyncIsLive` and `ReadyIsRunning`
build on that. `RunInv` for the latter says that a stopped group belongs to an active rollout
(`StoppedInv`) and what the pending request is for (`PendingInv`), so that whoever ends the
rollout starts the group. `Calm` excludes lost writes, cancellations, source changes in the
middle of a rollout and requests that cannot be deleted: with any of them a rollout may end
with the group it stopped.

### FlowEntryProofs

`EntryInv` says of the status that it is sound (`Sound`): ids were made, no two of its roles
share a group, and there is a candidate only in a rollout to something other than the live
digest. Groups are in order of their ids, so that a new one is new. Flows that are not among
the ones the status knows (`FlowsKnown`) are counted: each is a lost write, a leak that the
code accepts, or a candidate forgotten because the source moved on. `KnownBy` drops the
candidate as soon as that happens; this is what makes the count go up before the group is
lost, and the invariant inductive. `TempsKnown` does the same for groups of dry runs.

### ManagedComponentProofs, ParameterContextProofs, AccessProofs

* `ComponentInv`: the only id ever saved that still exists is the one in the status
  (`IdsKnown`); without adoption the component that was there before is not even known (`Foreigns`); Ready implies the
  configuration and the run state of the spec (`ReadyIsTrue`). One lemma per shared step
  (`ById`, `Adopt`, `Create`, `Update`, ...) says what its outcomes are (`Outcome`), and the
  eleven kinds follow from these.
* `ContextInv`: a resource that is Ready for its generation is settled (`SettledIsTrue`), without
  adoption the context that was there before is untouched and no request is for it
  (`Untaken`), and requests that run beside the pending
  one are counted by faults and lost writes (`StraysCounted`).
* `AccessInv`: what a settled policy recorded is what its references resolve to (`Recorded`);
  what a policy recorded it can take back, or another policy names it (`Revocable`, while no
  spec was edited, the premise of `DeletionRevokes`). Two policies share the access policy, so this is where the deletion of
  one meets the grants of the other.

### BackupRestoreProofs

`BackupInv` has four parts. `KeptInv` says that a worker whose copy is current still has the
store it wrote to (`CaptureHeld`), so that a success is never recorded over the artifact of
somebody else. `ReadsInv` says that what a restore read was captured under the uid it read,
and uids are not given twice, so that a backup made again under its name is another one.
`CountInv` counts groups in NiFi: recorded, on the way to be recorded, or in vain.

### ScaleDownAndRemoteGroupProofs

These three are about safety and use no fairness, so they hold whoever is called. The first
two follow from `SizeInv`, which adds to the type invariant what a
reconcile has decided: a drain is of a pool above its least size and takes at most one node
(`UnderWay`); a reconcile without a drain has cleared the timer and shrinks nothing while
offload is on (`Undrained`). `NothingStranded` needs `DrainInv`: what a reconcile found out
about its node is still true when it acts on it, or the pod has stopped (`ListedHolds`); a
StatefulSet is shrunk only over a node that left the cluster (`RemovedIsGone`); an offloaded
node is empty (`OffloadedIsEmpty`); a running node outside the cluster is empty or was forced
out (`GoneIsEmpty`). The step that matters is `Remove`: between the list that showed OFFLOADED
and the delete, the node may have been reconnected, in which case NiFi refuses, or have
stopped, in which case there is no running pod; it cannot have become DISCONNECTED with its
pod running.

The rest of the module is about `RemoteGroup`. The two models have no name in common
(`RemoteInit`, `RemoteNext`, `RemoteSpec`, `statuses`, ...), so that one module extends both.
In `RemoteInv`, what has to be added to `StatusIsTrue` is what it says nothing of: it speaks
of settled states only, not of a status that waits to be read again or of a group that others
changed. The invariant takes apart what a status tells of the port (`PortTold`), which nobody
but the reconcile makes untrue, and of the configuration (`ConfigTold`), which others do. The
step that needs it is a reconcile whose write is lost: the old status stays, and if it tells
anything it was Ready with drift in mode Warn, so by the invariant the port was as the spec
asks, nothing was called (`NothingToDo`) and it is still true. `RemotesCounted` and
`LinksCounted` count what is in NiFi beyond the two statuses: each is a lost write or a lost
answer. While a group may yet be adopted there is at most one.

### Only model-checked

Liveness needs fairness and ENABLED, out of the prover's reach: `RolloutEnds`, `Settles`,
`ComesToRest` and `ScaleDownEnds`, and the other properties of that kind in section 3.
`RetryBudget` without rollback is refuted, not proved.

## 5. Plan

1. Done: `BlueGreenRollout`, `TrafficSwitch`, `FlowRollout`, `FlowEntry`, `ManagedComponent`,
   `ParameterContext`, `Access`, `RemoteGroup`, `BackupRestore`, `ScaleDown`.
2. Done: proofs of the safety invariants and action properties of all of them, and of the
   refinement of `TrafficSwitch`.
3. Next: abstract specifications of the in-place rollout and of scale-down, and what remains
   of `QuiescentOnLive` when a status write is lost (which boundaries are off, and for how long).
4. Certificate rotation of the managed cluster; deletion of node groups; the token cache.

## 6. Not modelled

HTTP, JSON, TLS and the token cache of the client; the contents of snapshots and their
normalisation; rendered manifests (StatefulSets, Services, KEDA and HPA objects), charts,
CRDs and generated code; certificates; events, logs and messages (a message matters where it
decides whether a status write is skipped, and there it is the failure's reason). A
deployment without a flow source is the lifecycle of a process group; adoption of a remote
process group by a given id is the look-up of a recorded one. The autoscaler only writes
objects whose controllers write `spec.replicas`, which `ScaleDown` lets change at any time.
