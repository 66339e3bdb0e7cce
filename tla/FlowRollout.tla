---------------------------- MODULE FlowRollout ----------------------------
(***************************************************************************)
(* The in-place rollout of a NiFiFlowDeployment: import of the flow, drain *)
(* and stop, checkpoint, the asynchronous NiFi replace request, its        *)
(* completion or failure, readiness gate, retries, automatic rollback,     *)
(* cancellation and drift (reconcileSnapshotFlowDeployment and the         *)
(* flow_deployment_{rollout,readiness,history}.go handlers).               *)
(*                                                                         *)
(* One reconcile is one step. NiFi works on a replace request by itself,   *)
(* users edit the resource and the canvas, NiFi calls fail, and the status *)
(* write that ends a reconcile can be lost after its calls took effect.    *)
(* A version names its digest; a failure repeated has the same message.    *)
(***************************************************************************)
EXTENDS Integers, Sequences, FiniteSets

CONSTANTS
  Digests,          \* artifact digests a source can resolve to
  Foreign,          \* live content that is no artifact: edited, or half replaced
  None,             \* no digest
  Strategy,         \* "ApplyOnly" or "StopAllThenApply"
  QueuePolicy,      \* "Off", or what to do when queues do not drain: "Fail", "Drop", "Proceed"
  ReadinessGate,    \* spec.rollout.readiness is set
  RollbackEnabled,  \* spec.rollback.enabled
  MaxRetries,       \* spec.rollout.retry.maxRetries
  HistoryLimit,     \* spec.rollback.historyLimit
  DriftMode,        \* spec.driftPolicy.mode
  FaultPoints,      \* the calls that may fail
  MidRolloutEdits,  \* whether the source may change while a rollout is active
  MaxReqs,          \* bound: replace requests
  MaxFails,         \* bound: failing calls and failing or forgotten requests
  MaxLost,          \* bound: lost status writes
  MaxEdits,         \* bound: changes of the desired digest
  MaxCancels,       \* bound: flips of spec.rollout.cancel
  MaxDrifts         \* bound: edits of the live canvas

\* The calls of the rollout that may fail, named by what they do.
Calls == {"import", "live", "metadata", "drain", "stop", "checkpoint", "create",
          "poll", "refresh", "cleanup", "start", "missing", "compare", "readiness",
          "rollback", "forget", "trim", "nifi"}

ASSUME DigestsAssumption == Foreign \notin Digests /\ None \notin Digests /\ Foreign # None
ASSUME PolicyAssumption ==
  /\ Strategy \in {"ApplyOnly", "StopAllThenApply"}
  /\ QueuePolicy \in {"Off", "Fail", "Drop", "Proceed"}
  /\ DriftMode \in {"Ignore", "Warn", "Fail", "Reconcile"}
  /\ ReadinessGate \in BOOLEAN /\ RollbackEnabled \in BOOLEAN /\ MidRolloutEdits \in BOOLEAN
  /\ FaultPoints \subseteq Calls
ASSUME BoundsAssumption ==
  /\ MaxRetries \in Nat /\ HistoryLimit \in Nat \ {0}
  /\ MaxReqs \in Nat /\ MaxFails \in Nat /\ MaxLost \in Nat
  /\ MaxEdits \in Nat /\ MaxCancels \in Nat /\ MaxDrifts \in Nat

ReqIds == 1..MaxReqs

VARIABLES
  \* NiFi
  content,   \* content of the live process group
  running,   \* the live process group is scheduled RUNNING
  backlog,   \* its queues hold flow files
  reqs,      \* replace requests: operation, target and state
  nreq,      \* number of replace requests created
  \* Kubernetes
  cms,       \* digests whose checkpoint ConfigMap exists
  want,      \* digest the source resolves to
  gen,       \* metadata.generation
  cancel,    \* spec.rollout.cancel
  st,        \* status
  \* bookkeeping of the bounds, and of what was attempted
  fails, lost, edits, cancels, drifts,
  attempts,  \* rollout requests created since the source or the spec last changed
  undone     \* how far the rollback is since the source or the spec last changed

nifi == <<content, running, backlog, reqs, nreq>>
spec == <<want, gen, cancel, edits, cancels>>
ghosts == <<attempts, undone>>
vars == <<nifi, cms, spec, st, fails, lost, drifts, ghosts>>

-----------------------------------------------------------------------------
(* Status *)

\* LatestReplaceRequest; id 0 stands for nil or an emptied ID.
NoReq == [id |-> 0, target |-> None, op |-> "None", complete |-> FALSE, failed |-> FALSE]

\* ActiveRollout; phase "None" stands for nil.
NoRollout == [phase |-> "None", op |-> "None", target |-> None, retries |-> 0]

\* LastRollback; generation 0 stands for nil.
NoRollback == [gen |-> 0, digest |-> None, completed |-> FALSE]

Active == st.ro.phase # "None"

Init ==
  /\ content = None /\ running = TRUE /\ backlog = FALSE
  /\ reqs = [i \in ReqIds |-> [op |-> "None", target |-> None, state |-> "gone"]] /\ nreq = 0
  /\ cms = {}
  /\ want \in Digests /\ gen = 1 /\ cancel = FALSE
  /\ st = [imported |-> FALSE, art |-> None, req |-> NoReq, ro |-> NoRollout,
           hist |-> <<>>, last |-> None, lastRb |-> NoRollback, ready |-> FALSE,
           reason |-> "Accepted", seen |-> 0, sync |-> "Other"]
  /\ fails = 0 /\ lost = 0 /\ edits = 0 /\ cancels = 0 /\ drifts = 0
  /\ attempts = 0 /\ undone = "No"

-----------------------------------------------------------------------------
(* How a reconcile ends *)

\* Status().Update: the write lands, or it is lost and the old status stays.
Save(s) ==
  \/ st' = s /\ UNCHANGED lost
  \/ lost < MaxLost /\ lost' = lost + 1 /\ UNCHANGED st

CallFails(call) == call \in FaultPoints /\ fails < MaxFails /\ fails' = fails + 1
CallsSucceed == UNCHANGED fails

\* MarkNotReady and MarkReady
NotReady(s, reason) == [s EXCEPT !.ready = FALSE, !.reason = reason, !.seen = gen]
Ready(s, reason) == [s EXCEPT !.ready = TRUE, !.reason = reason, !.seen = gen]

\* snapshotDeploymentFailed: the status s the handler built is not written at all if
\* the same failure, with the same message, is already recorded for this generation.
SaveFailed(s, reason) ==
  \/ Save(NotReady(s, reason))
  \/ s.seen = gen /\ ~s.ready /\ s.reason = reason /\ UNCHANGED <<st, lost>>

-----------------------------------------------------------------------------
(* Rollout history and its checkpoints *)

\* appendHistoryEntry
AppendEntry(hist, digest, result) ==
  LET entry == [digest |-> digest, result |-> result]
  IN  IF hist # <<>> /\ hist[Len(hist)] = entry THEN hist ELSE Append(hist, entry)

\* trimFlowDeploymentHistory: what is kept of the history ...
Trimmed(hist) ==
  IF Len(hist) <= HistoryLimit THEN hist
  ELSE SubSeq(hist, Len(hist) - HistoryLimit + 1, Len(hist))

DigestsOf(hist) == {hist[i].digest : i \in 1..Len(hist)}

\* Mutant: the last successful deployment is not retained.
PurgeLast(from, hist, last) == cms' = from \ (DigestsOf(hist) \ DigestsOf(Trimmed(hist)))

\* ... and the checkpoints that go; errors of deleting a ConfigMap are discarded.
Purge(from, hist, last) ==
  LET gone == DigestsOf(hist) \ (DigestsOf(Trimmed(hist)) \union {last})
  IN  \E kept \in SUBSET gone :
        /\ kept # {} => "trim" \in FaultPoints
        /\ cms' = from \ (gone \ kept)

-----------------------------------------------------------------------------
(* markSnapshotDeploymentInSync and markSnapshotDeploymentDrift *)

\* recordSuccessfulFlowDeployment, unless digest is the last successful one already
Recorded(s, digest, result) == AppendEntry(s.hist, digest, result)
HistoryWith(s, digest) ==
  IF s.last = digest THEN s.hist ELSE Recorded(s, digest, "Succeeded")

InSync(s, digest) ==
  Ready([s EXCEPT !.hist = Trimmed(HistoryWith(s, digest)), !.last = digest,
                  !.art = digest, !.sync = "InSync", !.req = NoReq, !.ro = NoRollout,
                  !.lastRb = IF gen > @.gen THEN NoRollback ELSE @],
        "RolloutComplete")

Drifted(s) ==
  LET t == [s EXCEPT !.sync = "Drifted"]
  IN  IF DriftMode = "Fail" THEN NotReady(t, "DriftDetected") ELSE Ready(t, "DriftWarning")

\* The ConfigMaps change before the status is written.
RecordInSync(s, digest) ==
  Purge(IF s.last = digest THEN cms ELSE cms \union {digest}, HistoryWith(s, digest), digest)

SaveInSync(s, digest) == RecordInSync(s, digest) /\ Save(InSync(s, digest))

\* Mutant: the Warn policy does not compare.
LiveUncompared(digest) == DriftMode \in {"Fail", "Reconcile"} /\ content # digest

LiveDiffers(digest) == DriftMode # "Ignore" /\ content # digest

\* finalizeSuccessfulRollout: in sync, then a second write if the live flow differs.
FinalizeRollout(s, digest) ==
  \/ CallFails("compare") /\ SaveFailed(s, "DriftCheckFailed") /\ UNCHANGED cms
  \/ CallsSucceed /\ ~LiveDiffers(digest) /\ SaveInSync(s, digest)
  \/ /\ CallsSucceed /\ LiveDiffers(digest)
     /\ RecordInSync(s, digest)
     /\ \/ st' = Drifted(InSync(s, digest)) /\ UNCHANGED lost
        \/ lost < MaxLost /\ lost' = lost + 1 /\ st' \in {st, InSync(s, digest)}

-----------------------------------------------------------------------------
(* The order in which reconcileSnapshotFlowDeployment looks at its status *)

Cancelling == cancel /\ Active
AwaitingReadiness ==
  ~Cancelling /\ st.ro.op = "Rollout" /\ st.ro.phase = "AwaitingReadiness"
Pending == ~Cancelling /\ ~AwaitingReadiness /\ st.req.id # 0
Idle == ~Cancelling /\ ~AwaitingReadiness /\ st.req.id = 0

\* Mutant: the restored digest is compared, not the failed one.
BlockedRestored == st.lastRb.completed /\ st.lastRb.gen = gen /\ st.art = want

\* rollbackBlocksTarget
Blocked == st.lastRb.completed /\ st.lastRb.gen = gen /\ st.lastRb.digest = want

\* The live group was found and the target is not one that was rolled back.
Mounted == Idle /\ st.imported /\ ~Blocked

\* DeleteProcessGroupReplaceRequest: a running request is cancelled, wherever it got to.
DeleteRequest(id) ==
  /\ reqs' = [reqs EXCEPT ![id].state = "gone"]
  /\ content' \in IF reqs[id].state = "running" THEN {content, Foreign} ELSE {content}

\* CreateProcessGroupReplaceRequest. A request NiFi answers as complete or failed at
\* once is one that ends before it is first polled.
CreateRequest(from, op, target) ==
  /\ nreq < MaxReqs
  /\ nreq' = nreq + 1
  /\ reqs' = [from EXCEPT ![nreq'] = [op |-> op, target |-> target, state |-> "running"]]

Request(op, target) == [NoReq EXCEPT !.id = nreq', !.op = op, !.target = target]

\* markFlowDeploymentReplaceRunning
Replacing(s, req) == NotReady([s EXCEPT !.req = req, !.sync = "Other"], "FlowReplaceRunning")

\* ensureActiveFlowRollout
EnsureActive(op, digest) ==
  IF st.ro.op = op /\ st.ro.target = digest THEN st.ro
  ELSE [phase |-> "Preparing", op |-> op, target |-> digest, retries |-> 0]

-----------------------------------------------------------------------------
(* Cancellation, import and drift *)

\* Mutant: the request is forgotten but not deleted.
CancelUndeleted ==
  /\ Cancelling /\ CallsSucceed
  /\ SaveFailed([st EXCEPT !.req = NoReq, !.ro = NoRollout, !.sync = "Other"],
                "RolloutCancelled")
  /\ UNCHANGED <<nifi, cms>>

\* reconcileRolloutCancellation: an error of deleting the request is discarded.
CancelRollout ==
  /\ Cancelling /\ CallsSucceed
  /\ \/ st.req.id # 0 /\ DeleteRequest(st.req.id)
     \/ (st.req.id = 0 \/ "forget" \in FaultPoints) /\ UNCHANGED <<reqs, content>>
  /\ SaveFailed([st EXCEPT !.req = NoReq, !.ro = NoRollout, !.sync = "Other"],
                "RolloutCancelled")
  /\ UNCHANGED <<running, backlog, nreq, cms>>

Import ==
  /\ Idle /\ ~st.imported
  /\ LET s == [st EXCEPT !.ro = EnsureActive("Rollout", want)]
     IN  \/ /\ CallFails("import") /\ SaveFailed(s, "SnapshotImportFailed")
            /\ UNCHANGED content
         \/ /\ CallsSucceed
            /\ content' = want
            /\ Save(NotReady([s EXCEPT !.imported = TRUE, !.art = want, !.sync = "Other",
                                       !.req = NoReq], "SnapshotMetadataPending"))
  /\ UNCHANGED <<running, backlog, reqs, nreq, cms>>

LiveNotFound ==
  /\ Idle /\ st.imported /\ CallFails("live")
  /\ SaveFailed(st, "NiFiGetFailed")
  /\ UNCHANGED <<nifi, cms>>

RequeueBlocked == Idle /\ st.imported /\ Blocked /\ UNCHANGED <<nifi, cms, st, fails, lost>>

Deployed == Mounted /\ st.art = want

\* markSnapshotDeploymentDrift under the Warn and Fail policies
ReportDrift ==
  /\ Deployed /\ LiveDiffers(want) /\ DriftMode # "Reconcile" /\ CallsSucceed
  /\ Save(Drifted(st))
  /\ UNCHANGED <<nifi, cms>>

NeedsCompletion == st.last # want \/ Active
StatusChanged == ~(st.ready /\ st.seen = gen /\ st.sync = "InSync")

\* Mutant: the group is not started.
StartNothing == UNCHANGED running

\* finalizeFlowRolloutState: only StopAllThenApply starts the group again.
StartGroup == running' = (running \/ Strategy = "StopAllThenApply")

CheckFails ==
  /\ Deployed
  /\ \/ DriftMode # "Ignore" /\ CallFails("compare") /\ SaveFailed(st, "DriftCheckFailed")
     \/ /\ ~LiveDiffers(want) /\ CallFails("metadata")
        /\ SaveFailed(st, "SnapshotMetadataFailed")
     \/ /\ ~LiveDiffers(want) /\ NeedsCompletion /\ Strategy = "StopAllThenApply"
        /\ CallFails("start") /\ SaveFailed(st, "RolloutFinalizeFailed")
  /\ UNCHANGED <<nifi, cms>>

Confirm ==
  /\ Deployed /\ ~LiveDiffers(want) /\ CallsSucceed
  /\ IF NeedsCompletion THEN StartGroup ELSE UNCHANGED running
  /\ IF NeedsCompletion \/ StatusChanged THEN SaveInSync(st, want) ELSE UNCHANGED <<cms, st, lost>>
  /\ UNCHANGED <<content, backlog, reqs, nreq>>

-----------------------------------------------------------------------------
(* prepareFlowRollout and the replace request *)

Outdated == Mounted /\ (st.art # want \/ (DriftMode = "Reconcile" /\ content # want))
Target == EnsureActive("Rollout", want)
StoppingFirst == Outdated /\ Strategy = "StopAllThenApply" /\ Target.phase = "Preparing"
Draining == StoppingFirst /\ QueuePolicy # "Off"

\* Mutant: the wait is timed from the present reconcile.
DrainUntimed == FALSE

\* The wait is timed from the StartedAt of a rollout that was saved: a rollout made
\* by this reconcile starts now.
DrainExpired == st.ro = Target

PrepareFails ==
  /\ StoppingFirst
  /\ \/ QueuePolicy # "Off" /\ CallFails("drain")
     \/ Draining /\ backlog /\ DrainExpired /\ QueuePolicy = "Fail" /\ CallsSucceed
     \/ CallFails("stop")
  /\ SaveFailed([st EXCEPT !.ro = Target], "RolloutPreparationFailed")
  /\ UNCHANGED <<nifi, cms>>

AwaitDrain ==
  /\ Draining /\ backlog /\ CallsSucceed
  /\ IF st.sync = "DrainingQueues" THEN UNCHANGED <<st, lost>>
     ELSE Save(NotReady([st EXCEPT !.ro = Target, !.sync = "DrainingQueues"], "DrainingQueues"))
  /\ UNCHANGED <<nifi, cms>>

\* The queues are empty, or the wait expired and the policy is to drop or ignore them.
Stop ==
  /\ StoppingFirst /\ CallsSucceed
  /\ \/ QueuePolicy = "Off" \/ ~backlog
     \/ DrainExpired /\ QueuePolicy \in {"Drop", "Proceed"}
  /\ backlog' = (backlog /\ QueuePolicy # "Drop")
  /\ running' = FALSE
  /\ Save(NotReady([st EXCEPT !.ro = [Target EXCEPT !.phase = "Prepared"], !.sync = "Other"],
                   "RolloutPrepared"))
  /\ UNCHANGED <<content, reqs, nreq, cms>>

\* persistFlowDeploymentSnapshot, then CreateProcessGroupReplaceRequest
Replace ==
  /\ Outdated /\ ~StoppingFirst
  /\ \/ /\ CallFails("checkpoint") /\ UNCHANGED <<reqs, nreq, cms>>
        /\ SaveFailed([st EXCEPT !.ro = [Target EXCEPT
                         !.phase = IF @ = "Preparing" THEN "Prepared" ELSE @]],
                      "RolloutCheckpointFailed")
     \/ /\ cms' = cms \union {want}
        /\ LET s == [st EXCEPT !.ro = [Target EXCEPT !.phase = "Replacing"]]
           IN  \/ /\ CallFails("create") /\ UNCHANGED <<reqs, nreq>>
                  /\ SaveFailed(s, "FlowReplaceCreateFailed")
               \/ /\ CallsSucceed
                  /\ CreateRequest(reqs, "Rollout", want)
                  /\ Save(Replacing(s, Request("Rollout", want)))
  /\ UNCHANGED <<content, running, backlog>>

-----------------------------------------------------------------------------
(* reconcilePendingFlowReplace *)

Polling == Pending /\ ~st.req.complete /\ ~st.req.failed
Answer == reqs[st.req.id].state

\* The call fails, or NiFi has forgotten the request.
PollFails ==
  /\ Polling
  /\ \/ CallFails("poll")
     \/ Answer = "gone" /\ CallsSucceed
  /\ SaveFailed(st, "FlowReplaceGetFailed")
  /\ UNCHANGED <<nifi, cms>>

Poll ==
  /\ Polling /\ Answer \in {"running", "done"} /\ CallsSucceed
  /\ Save(Replacing(st, [st.req EXCEPT !.complete = (Answer = "done")]))
  /\ UNCHANGED <<nifi, cms>>

-----------------------------------------------------------------------------
(* handleFlowReplaceFailure, for a failure just polled or one that was saved *)

\* retryRolloutIfAllowed
RetryAllowed == st.ro.op = "Rollout" /\ st.ro.retries < MaxRetries
Retrying(s) ==
  NotReady([s EXCEPT !.ro.retries = @ + 1, !.ro.phase = "Preparing", !.req = NoReq,
                     !.sync = "Other"], "RolloutRetrying")

\* recordFailedFlowDeployment; the failed request keeps its id if deleting it failed.
FailedStatus(kept) ==
  [st EXCEPT !.req.failed = TRUE, !.req.id = IF kept THEN @ ELSE 0,
             !.hist = Trimmed(AppendEntry(@, st.req.target, "Failed"))]

CanRollBack == RollbackEnabled /\ st.last # None /\ st.last \in cms

Abandon(s, reason) == SaveFailed([s EXCEPT !.ro = NoRollout], reason)

StartRollback(s, from) ==
  \/ /\ CallFails("rollback") /\ reqs' = from /\ UNCHANGED nreq
     /\ SaveFailed(s, "RollbackCreateFailed")
  \/ /\ CallsSucceed
     /\ CreateRequest(from, "Rollback", st.last)
     /\ Save(Replacing([s EXCEPT
                !.lastRb = [gen |-> gen, digest |-> st.req.target, completed |-> FALSE],
                !.ro = [EnsureActive("Rollback", st.last) EXCEPT !.phase = "RollingBack"]],
              Request("Rollback", st.last)))

HandleFailure ==
  /\ Pending /\ (st.req.failed \/ (~st.req.complete /\ Answer = "failed"))
  /\ Purge(cms, AppendEntry(st.hist, st.req.target, "Failed"), st.last)
  /\ \E kept \in {FALSE, "forget" \in FaultPoints} :
       LET s == FailedStatus(kept)
           left == IF kept THEN reqs ELSE [reqs EXCEPT ![st.req.id].state = "gone"]
       IN  \/ /\ st.req.op = "Rollback" /\ CallsSucceed
              /\ Abandon(s, "RollbackFailed") /\ reqs' = left /\ UNCHANGED nreq
           \/ /\ st.req.op = "Rollout" /\ RetryAllowed /\ CallsSucceed
              /\ Save(Retrying(s)) /\ reqs' = left /\ UNCHANGED nreq
           \/ /\ st.req.op = "Rollout" /\ ~RetryAllowed /\ ~CanRollBack /\ CallsSucceed
              /\ Abandon(s, IF RollbackEnabled THEN "RollbackUnavailable" ELSE "FlowReplaceFailed")
              /\ reqs' = left /\ UNCHANGED nreq
           \/ /\ st.req.op = "Rollout" /\ ~RetryAllowed /\ CanRollBack
              /\ StartRollback(s, left)
  /\ UNCHANGED <<content, running, backlog>>

-----------------------------------------------------------------------------
(* completeFlowReplace *)

Completing == Pending /\ st.req.complete

\* The request is gone from NiFi, and from the status if that is written.
Cleaned == [st EXCEPT !.req.id = 0]
Forget == reqs' = [reqs EXCEPT ![st.req.id].state = "gone"]

CompletionFails ==
  /\ Completing /\ UNCHANGED <<content, backlog, nreq, cms>>
  /\ \/ /\ UNCHANGED <<running, reqs>>
        /\ \/ CallFails("refresh") /\ SaveFailed(st, "NiFiRefreshFailed")
           \/ CallFails("metadata") /\ SaveFailed(st, "SnapshotMetadataFailed")
           \/ CallFails("cleanup") /\ SaveFailed(st, "FlowReplaceCleanupFailed")
     \/ /\ Forget
        /\ \/ /\ CallFails("start") /\ Strategy = "StopAllThenApply" /\ UNCHANGED running
              /\ SaveFailed(Cleaned, "RolloutFinalizeFailed")
           \/ /\ CallFails("missing") \/ (st.req.target \notin cms /\ CallsSucceed)
              /\ StartGroup
              /\ SaveFailed(Cleaned, "RolloutCheckpointMissing")

Complete ==
  /\ Completing /\ st.req.op = "Rollout" /\ st.req.target \in cms
  /\ Forget /\ StartGroup
  /\ IF ReadinessGate
     THEN /\ CallsSucceed /\ UNCHANGED cms
          /\ Save(NotReady([st EXCEPT !.req = NoReq, !.sync = "Other",
                !.ro = [EnsureActive("Rollout", st.req.target) EXCEPT !.phase = "AwaitingReadiness"]],
                "AwaitingReadiness"))
     ELSE FinalizeRollout(Cleaned, st.req.target)
  /\ UNCHANGED <<content, backlog, nreq>>

\* markSnapshotDeploymentRolledBack
CompleteRollback ==
  /\ Completing /\ st.req.op = "Rollback" /\ st.req.target \in cms /\ CallsSucceed
  /\ Forget /\ StartGroup
  /\ LET hist == Recorded(st, st.last, "RolledBack")
     IN  /\ Purge(cms, hist, st.last)
         /\ Save(NotReady([st EXCEPT !.hist = Trimmed(hist), !.art = st.last,
                             !.lastRb.completed = TRUE, !.sync = "RolledBack",
                             !.req = NoReq, !.ro = NoRollout], "RollbackComplete"))
  /\ UNCHANGED <<content, backlog, nreq>>

-----------------------------------------------------------------------------
(* reconcileRolloutReadiness: waiting changes nothing *)

ReadinessFails ==
  /\ AwaitingReadiness
  /\ CallFails("readiness") /\ SaveFailed(st, "ReadinessCheckFailed")
  /\ UNCHANGED <<nifi, cms>>

\* The flow is finalized as what the source resolves to now.
ReadinessPasses ==
  /\ AwaitingReadiness
  /\ FinalizeRollout(st, want)
  /\ UNCHANGED nifi

\* A flow that never gets healthy is a failure of the flow, counted as one.
ReadinessExpires ==
  /\ AwaitingReadiness /\ CallFails("readiness")
  /\ IF RetryAllowed THEN Save(Retrying(st)) ELSE Abandon(st, "ReadinessTimeout")
  /\ UNCHANGED <<nifi, cms>>

-----------------------------------------------------------------------------
(* NiFi and the users *)

Env == UNCHANGED <<cms, st, lost>>

\* A running request replaces the content, or fails and may leave it half replaced.
RequestEnds(id) ==
  /\ reqs[id].state = "running"
  /\ \/ /\ content' = reqs[id].target
        /\ reqs' = [reqs EXCEPT ![id].state = "done"]
        /\ UNCHANGED fails
     \/ /\ fails < MaxFails /\ fails' = fails + 1
        /\ content' \in {content, Foreign}
        /\ reqs' = [reqs EXCEPT ![id].state = "failed"]
  /\ UNCHANGED <<running, backlog, nreq, spec, drifts, ghosts>> /\ Env

\* NiFi restarts: requests live in memory only.
NiFiRestarts ==
  /\ "nifi" \in FaultPoints /\ fails < MaxFails /\ fails' = fails + 1
  /\ \E id \in ReqIds : reqs[id].state # "gone"
  /\ reqs' = [id \in ReqIds |-> [reqs[id] EXCEPT !.state = "gone"]]
  /\ content' \in IF \E id \in ReqIds : reqs[id].state = "running"
                  THEN {content, Foreign} ELSE {content}
  /\ UNCHANGED <<running, backlog, nreq, spec, drifts, ghosts>> /\ Env

QueuesMove ==
  /\ QueuePolicy # "Off" /\ st.imported /\ running
  /\ backlog' = ~backlog
  /\ UNCHANGED <<content, running, reqs, nreq, spec, fails, drifts, ghosts>> /\ Env

EditCanvas ==
  /\ st.imported /\ drifts < MaxDrifts /\ drifts' = drifts + 1
  /\ content' = Foreign
  /\ UNCHANGED <<running, backlog, reqs, nreq, spec, fails, ghosts>> /\ Env

\* The rollout reached an end: nothing is active and nothing is about to start.
Settled == ~Active /\ st.req.id = 0 /\ (st.ready \/ Blocked)

ChangeSource(digest, bump) ==
  /\ edits < MaxEdits /\ edits' = edits + 1
  /\ digest # want /\ (MidRolloutEdits \/ Settled)
  /\ want' = digest /\ gen' = gen + bump
  /\ attempts' = 0 /\ undone' = "No"
  /\ UNCHANGED <<nifi, cancel, cancels, fails, drifts>> /\ Env

FlipCancel ==
  /\ cancels < MaxCancels /\ cancels' = cancels + 1
  /\ cancel' = ~cancel /\ gen' = gen + 1
  /\ attempts' = 0 /\ undone' = "No"
  /\ UNCHANGED <<nifi, want, edits, fails, drifts>> /\ Env

\* The request ids of the model are used up: nothing more is explored.
BoundReached == nreq = MaxReqs /\ UNCHANGED vars

-----------------------------------------------------------------------------
Handler ==
  \/ CancelRollout \/ Import \/ LiveNotFound \/ RequeueBlocked
  \/ ReportDrift \/ CheckFails \/ Confirm
  \/ PrepareFails \/ AwaitDrain \/ Stop \/ Replace
  \/ PollFails \/ Poll \/ HandleFailure
  \/ CompletionFails \/ Complete \/ CompleteRollback
  \/ ReadinessFails \/ ReadinessPasses \/ ReadinessExpires

MaxAttempts == MaxRetries + 2

\* Bookkeeping of the rollout requests made ...
TrackAttempts ==
  attempts' = IF nreq' > nreq /\ reqs'[nreq'].op = "Rollout" /\ attempts < MaxAttempts
              THEN attempts + 1 ELSE attempts

\* ... and of a rollback from what is wanted.
TrackUndone ==
  undone' = IF nreq' > nreq /\ reqs'[nreq'].op = "Rollback" /\ st.req.target = want
            THEN "Started"
            ELSE IF undone = "Started" /\ st'.sync = "RolledBack" /\ st.sync # "RolledBack"
            THEN "Yes" ELSE undone

Reconcile ==
  /\ Handler
  /\ TrackAttempts /\ TrackUndone
  /\ UNCHANGED <<spec, drifts>>

NiFiWorks == \E id \in ReqIds : RequestEnds(id)

Environment ==
  \/ NiFiRestarts \/ QueuesMove \/ EditCanvas \/ FlipCancel
  \/ \E digest \in Digests, bump \in {0, 1} : ChangeSource(digest, bump)

Next == Reconcile \/ NiFiWorks \/ Environment \/ BoundReached

Spec == Init /\ [][Next]_vars

\* Every handler requeues the deployment, and NiFi ends the requests it accepted.
FairSpec == Spec /\ WF_vars(Reconcile) /\ WF_vars(NiFiWorks)

-----------------------------------------------------------------------------
(* Properties *)

Ops == {"None", "Rollout", "Rollback"}
Phases == {"None", "Preparing", "Prepared", "Replacing", "AwaitingReadiness", "RollingBack"}
States == {"running", "done", "failed", "gone"}
Known == Digests \union {None}
Syncs == {"InSync", "Drifted", "DrainingQueues", "RolledBack", "Other"}
Reasons ==
  {"Accepted", "RolloutComplete", "DriftDetected", "DriftWarning", "DriftCheckFailed",
   "FlowReplaceRunning", "RolloutCancelled", "SnapshotImportFailed", "SnapshotMetadataPending",
   "NiFiGetFailed", "SnapshotMetadataFailed", "RolloutFinalizeFailed",
   "RolloutPreparationFailed", "DrainingQueues", "RolloutPrepared", "RolloutCheckpointFailed",
   "FlowReplaceCreateFailed", "FlowReplaceGetFailed", "RolloutRetrying",
   "RollbackCreateFailed", "RollbackFailed", "RollbackUnavailable", "FlowReplaceFailed",
   "NiFiRefreshFailed", "FlowReplaceCleanupFailed", "RolloutCheckpointMissing",
   "AwaitingReadiness", "RollbackComplete", "ReadinessCheckFailed", "ReadinessTimeout"}

\* The types of the status: LatestReplaceRequest, ActiveRollout, History, LastRollback.
Requests == [id : 0..MaxReqs, target : Known, op : Ops, complete : BOOLEAN, failed : BOOLEAN]
Rollouts == [phase : Phases, op : Ops, target : Known, retries : 0..MaxRetries]
Entries == [digest : Digests, result : {"Succeeded", "Failed", "RolledBack"}]
Rollbacks == [gen : Nat, digest : Known, completed : BOOLEAN]
Statuses ==
  [imported : BOOLEAN, art : Known, req : Requests, ro : Rollouts, hist : Seq(Entries),
   last : Known, lastRb : Rollbacks, ready : BOOLEAN, reason : Reasons, seen : Nat,
   sync : Syncs]

\* NiFi's replace requests.
NifiRequests == [op : Ops, target : Known, state : States]

\* Every variable keeps the shape the controller and NiFi give it; the history stays
\* within its limit and the retries within their budget.
TypeOK ==
  /\ content \in Known \union {Foreign} /\ running \in BOOLEAN /\ backlog \in BOOLEAN
  /\ nreq \in 0..MaxReqs /\ reqs \in [ReqIds -> NifiRequests]
  /\ cms \subseteq Digests
  /\ want \in Digests /\ gen \in Nat /\ cancel \in BOOLEAN
  /\ st \in Statuses /\ Len(st.hist) <= HistoryLimit /\ st.seen <= gen
  /\ fails \in 0..MaxFails /\ lost \in 0..MaxLost /\ edits \in 0..MaxEdits
  /\ cancels \in 0..MaxCancels /\ drifts \in 0..MaxDrifts
  /\ attempts \in Nat /\ undone \in {"No", "Started", "Yes"}

\* The checkpoint of the last successful deployment, which a rollback would restore,
\* is never trimmed away, however many failed rollouts follow it. (Trimming comes before the
\* status write: if that is lost, the old status may name a trimmed checkpoint.)
CheckpointKept == lost = 0 /\ st.last # None => st.last \in cms

\* NiFi never works on a replace request the status has lost track of: two requests
\* never replace the same group at once, and none ends unobserved. (The write that would have
\* recorded it may be lost.)
NoStrayRequest ==
  Cardinality({id \in ReqIds : reqs[id].state = "running" /\ st.req.id # id}) <= lost

\* A deployment reported Ready and in sync has, unless a user edited the canvas, the
\* artifact its status names as its live content.
InSyncMeansLive ==
  st.ready /\ st.sync = "InSync" /\ drifts = 0 /\ lost = 0 => content = st.art

\* The flow of a deployment reported Ready is running.
ReadyMeansRunning == st.ready => running

\* Once the failed rollout was rolled back no replace request is made until the
\* source or the deployment changes.
StaysRolledBack == [][nreq' > nreq => undone # "Yes"]_vars

\* A rollout is attempted once and then retried at most MaxRetries times until the
\* source or the deployment changes.
RetryBudget == attempts <= 1 + MaxRetries

\* When nothing changes or fails any more the deployment ends up Ready with the
\* wanted flow, or rolled back from it.
Settles == <>[](Blocked \/ (st.ready /\ content = want))

=============================================================================
