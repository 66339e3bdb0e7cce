------------------------------ MODULE FlowEntry ------------------------------
(***************************************************************************)
(* A NiFiFlowDeployment from its source to its end: the NiFiFlowBundle it  *)
(* may take its source from, resolving the source, the dry run of          *)
(* validateOnly, the first import, the rollouts, and deletion.             *)
(*                                                                         *)
(* The source moves (a branch, a tag, a registry's latest version): its    *)
(* contents are numbered, and the number stands for the digest. Bundle and *)
(* deployment resolve it each for itself, and a deployment that finds      *)
(* another digest than its bundle recorded fails without a requeue.        *)
(*                                                                         *)
(* A rollout is what the entry sees of it: in place it is one step, and in *)
(* BlueGreen one to start, one to import the candidate, one to promote it  *)
(* or give it up and one to retire the old group. The steps between, and   *)
(* connections, are in FlowRollout and BlueGreenRollout. A reconcile is    *)
(* one step, any of its calls may fail, and its status write may be lost.  *)
(***************************************************************************)
EXTENDS Integers, FiniteSets

CONSTANTS
  MaxContent,   \* bound: contents the source has one after the other
  Valid,        \* the contents whose components are all valid
  MaxMade,      \* bound: process groups there ever are in NiFi
  MaxEvents     \* bound: edits, deletions, changes of the cluster, failing calls and lost
                \* writes, together

ASSUME ContentAssumption == MaxContent \in Nat \ {0} /\ Valid \subseteq 1..MaxContent
ASSUME BoundsAssumption == MaxMade \in Nat \ {0} /\ MaxEvents \in Nat

Contents == 1..MaxContent
Ids == 1..MaxMade
None == 0

VARIABLES
  source,    \* the content the source has now
  inline,    \* spec.source: inline, otherwise a bundle
  strategy,  \* spec.rollout.strategy: "InPlace" (one of those) or "BlueGreen"
  dry,       \* spec.validateOnly
  purge,     \* spec.deletionPolicy is Delete: chosen when the deployment is deleted
  bundle,    \* the NiFiFlowBundle's status
  life, status, queued,   \* of the deployment
  late,      \* the dry run has taken longer than flowValidationSettleTimeout
  cluster,   \* the NiFiCluster: "ready", "unready" or "gone"
  groups,    \* NiFi: the process groups
  made,      \* NiFi: how many there ever were
  checked,   \* history: the content the last dry run looked at
  missed,    \* history: the deployment failed to resolve the source
  events, losses, leaks   \* how much of the bound is used up: losses are writes and answers
                          \* to imports, leaks deletions whose failure is not looked at

fixed == <<inline, strategy>>
nifi == <<groups, made>>
vars == <<source, fixed, dry, purge, bundle, life, status, queued, late, cluster, nifi,
          checked, missed, events, losses, leaks>>

NoGroup == [use |-> "none", content |-> None, settled |-> FALSE]
NoResult == [digest |-> None, valid |-> FALSE]

\* "none" is the empty string: no reason or no phase yet.
Bundles == [why : {"none", "Ready", "Failed", "gone"}, digest : 0..MaxContent]
Results == [digest : 0..MaxContent, valid : BOOLEAN]
Reasons == {"none", "Ready", "Waiting", "Failed", "InvalidFlowSnapshot", "ValidateOnlyConflict",
            "Validating", "ValidationFailed", "Rollout"}
Statuses ==
  [pg : 0..MaxMade, digest : 0..MaxContent, target : 0..MaxContent, candidate : 0..MaxMade,
   retiring : 0..MaxMade, seen : BOOLEAN, temp : 0..MaxMade,
   phase : {"none", "Validating", "Cleanup"}, result : Results, why : Reasons]
Groups == [use : {"none", "flow", "temp"}, content : 0..MaxContent, settled : BOOLEAN]

TypeOK ==
  /\ source \in Contents /\ inline \in BOOLEAN /\ strategy \in {"InPlace", "BlueGreen"}
  /\ dry \in BOOLEAN /\ purge \in BOOLEAN
  /\ bundle \in Bundles /\ status \in Statuses
  /\ life \in {"live", "deleting", "gone"} /\ queued \in BOOLEAN /\ late \in BOOLEAN
  /\ cluster \in {"ready", "unready", "gone"}
  /\ groups \in [Ids -> Groups]
  /\ made \in 0..MaxMade /\ checked \in 0..MaxContent /\ missed \in BOOLEAN
  /\ events \in 0..MaxEvents /\ losses \in 0..MaxEvents /\ leaks \in 0..MaxEvents
  \* A dry run has a group exactly while it is under way; groups have one role each.
  /\ status.phase = "none" <=> status.temp = None
  /\ status.candidate # None => status.candidate \notin {status.pg, status.retiring, status.temp}
  /\ status.retiring # None => status.retiring # status.pg

Init ==
  /\ source = 1 /\ inline \in BOOLEAN /\ strategy \in {"InPlace", "BlueGreen"}
  /\ dry \in BOOLEAN /\ purge = FALSE
  /\ bundle = [why |-> "none", digest |-> None]
  /\ life = "live" /\ queued = TRUE /\ late = FALSE
  /\ status = [pg |-> None, digest |-> None, target |-> None, candidate |-> None,
       retiring |-> None, seen |-> FALSE, temp |-> None, phase |-> "none",
       result |-> NoResult, why |-> "none"]
  /\ cluster = "ready"
  /\ groups = [id \in Ids |-> NoGroup] /\ made = 0
  /\ checked = None /\ missed = FALSE
  /\ events = 0 /\ losses = 0 /\ leaks = 0

-----------------------------------------------------------------------------
(* Faults and writes *)

Happens == events' = events + 1
Lost == losses' = losses + 1
\* Every action that may use one of them up ends with this.
Bounded == events' + losses' + leaks' <= MaxEvents

\* Written, which is an event, or the write fails and the reconcile is called again; a
\* reconcile that writes nothing is called again if it asked for it.
Save(s, again) ==
  \/ s = status /\ queued' = again /\ UNCHANGED <<status, losses>>
  \/ s # status /\ status' = s /\ queued' = TRUE /\ UNCHANGED losses
  \/ s # status /\ Lost /\ UNCHANGED <<status, queued>>

Mark(why) == [status EXCEPT !.why = why, !.seen = TRUE]

\* A group is imported; or the call fails, with the group there all the same or not.
Import(before, use, recorded) ==
  LET there == [before EXCEPT ![made + 1] = [use |-> use, content |-> source, settled |-> FALSE]] IN
  \/ /\ made < MaxMade /\ made' = made + 1 /\ groups' = there
     /\ Save(recorded, TRUE) /\ UNCHANGED events
  \/ /\ made < MaxMade /\ made' = made + 1 /\ groups' = there
     /\ Lost /\ status' = Mark("Failed") /\ queued' = TRUE /\ UNCHANGED events
  \/ /\ groups' = before /\ Happens /\ Save(Mark("Failed"), TRUE) /\ UNCHANGED made

Without(ids) == [id \in Ids |-> IF id \in ids THEN NoGroup ELSE groups[id]]

-----------------------------------------------------------------------------
(* The bundle *)

\* Mutant: the deployment does not watch the bundle.
RequestsForFlowBundleNone == FALSE
RequestsForFlowBundle == ~inline /\ life # "gone"

MarkBundle(s) ==
  IF s = bundle THEN UNCHANGED <<bundle, queued>>
  ELSE bundle' = s /\ queued' = (queued \/ RequestsForFlowBundle)

\* Called every five minutes, or 30 seconds after the source could not be resolved.
ReconcileBundle ==
  /\ ~inline /\ bundle.why # "gone"
  /\ \/ MarkBundle([why |-> "Ready", digest |-> source]) /\ UNCHANGED events
     \/ Happens /\ MarkBundle([bundle EXCEPT !.why = "Failed"])
  /\ UNCHANGED <<source, fixed, dry, purge, life, status, late, cluster, nifi, checked, missed, losses, leaks>> /\ Bounded

\* It keeps nothing outside, so its finalizer is dropped at once.
DeleteBundle ==
  /\ ~inline /\ bundle.why # "gone" /\ Happens
  /\ MarkBundle([bundle EXCEPT !.why = "gone"])
  /\ UNCHANGED <<source, fixed, dry, purge, life, status, late, cluster, nifi, checked, missed, losses, leaks>> /\ Bounded

-----------------------------------------------------------------------------
(* The dry run *)

Temps == {id \in Ids : groups[id].use = "temp"}

\* Groups of earlier attempts, known by their name, are deleted, if that succeeds: what is
\* left, and whether it failed.
CleanupStale ==
  {<<Without(Temps), 0>>} \cup (IF Temps # {} THEN {<<groups, 1>>} ELSE {})

\* The content was validated for this generation.
AlreadyChecked == status.result.digest = source /\ status.seen

StartFlowValidation ==
  \/ AlreadyChecked /\ queued' = FALSE /\ UNCHANGED <<status, nifi, late, events, losses, leaks>>
  \/ /\ ~AlreadyChecked
     /\ \E rest \in CleanupStale :
          /\ Import(rest[1], "temp", [Mark("Validating") EXCEPT !.temp = made + 1, !.phase = "Validating"])
          /\ leaks' = leaks + rest[2]
     /\ late' = FALSE

\* Mutant: a component that was not validated in time is not invalid.
BuildFlowValidationResultLate(g) == [digest |-> source, valid |-> ~g.settled \/ g.content \in Valid]
\* With the digest the source has now. Without invalid components, and all in time.
BuildFlowValidationResult(g) == [digest |-> source, valid |-> g.settled /\ g.content \in Valid]

\* The components of the group are polled until NiFi has validated them or it is late.
Inspect ==
  LET g == groups[status.temp] IN
  \/ Happens /\ Save(Mark("Failed"), TRUE) /\ UNCHANGED <<checked, leaks>>
  \/ /\ ~g.settled /\ ~late /\ queued' = TRUE
     /\ UNCHANGED <<status, checked, events, losses, leaks>>
  \/ /\ g.settled \/ late
     /\ Save([status EXCEPT !.phase = "Cleanup", !.result = BuildFlowValidationResult(g)], TRUE)
     /\ checked' = IF status' = status THEN checked ELSE g.content
     /\ UNCHANGED <<events, leaks>>

\* Until the group is gone; then the result is made known.
Finalized ==
  [Mark(IF status.result.valid THEN "Ready" ELSE "ValidationFailed") EXCEPT !.temp = None, !.phase = "none"]
Cleanup ==
  /\ \/ Happens /\ queued' = TRUE /\ UNCHANGED <<groups, status, losses>>
     \/ groups' = Without({status.temp}) /\ Save(Finalized, FALSE) /\ UNCHANGED events
  /\ UNCHANGED leaks

\* Not for a deployment that has a live group.
ReconcileFlowValidation ==
  \/ /\ status.pg # None /\ Save(Mark("ValidateOnlyConflict"), FALSE)
     /\ UNCHANGED <<nifi, late, checked, events, leaks>>
  \/ status.pg = None /\ status.phase = "none" /\ StartFlowValidation /\ UNCHANGED checked
  \/ status.pg = None /\ status.phase = "Validating" /\ Inspect /\ UNCHANGED <<nifi, late>>
  \/ status.pg = None /\ status.phase = "Cleanup" /\ Cleanup /\ UNCHANGED <<made, late, checked>>

-----------------------------------------------------------------------------
(* Deployment *)

\* A group is deleted and forgotten, whether deleting it succeeded or not.
BestEffort(id, s) ==
  /\ \/ groups' = Without({id}) /\ UNCHANGED leaks
     \/ leaks' = leaks + 1 /\ UNCHANGED groups
  /\ Save(s, TRUE)
  /\ UNCHANGED <<made, events>>

\* Mutant: the group is forgotten.
RetireForgets == Save([status EXCEPT !.retiring = None], TRUE) /\ UNCHANGED <<nifi, events, leaks>>
Retire == BestEffort(status.retiring, [status EXCEPT !.retiring = None])

ImportFlow ==
  Import(groups, "flow", [Mark("Rollout") EXCEPT !.pg = made + 1, !.digest = source]) /\ UNCHANGED leaks

InSync == [Mark("Ready") EXCEPT !.digest = source, !.target = None, !.candidate = None]

\* The live flow is looked at again and again.
Poll == Save(InSync, TRUE) /\ UNCHANGED <<nifi, events, leaks>>

RolloutInPlace ==
  /\ \/ groups' = [groups EXCEPT ![status.pg].content = source] /\ Save(InSync, TRUE) /\ UNCHANGED events
     \/ Happens /\ Save(Mark("Failed"), TRUE) /\ UNCHANGED groups
  /\ UNCHANGED <<made, leaks>>

\* For another target than before the rollout starts again and the candidate is forgotten.
\* A candidate that is gone (the write after giving it up was lost) is an error.
RolloutBlueGreen ==
  \/ /\ status.target # source
     /\ Save([Mark("Rollout") EXCEPT !.target = source, !.candidate = None], TRUE)
     /\ UNCHANGED <<nifi, events, leaks>>
  \/ /\ status.target = source /\ status.candidate = None
     /\ Import(groups, "flow", [status EXCEPT !.candidate = made + 1]) /\ UNCHANGED leaks
  \/ /\ status.target = source /\ status.candidate # None
     /\ \/ /\ groups[status.candidate].use = "flow"
           /\ Save([InSync EXCEPT !.pg = status.candidate, !.retiring = status.pg], TRUE)
           /\ UNCHANGED <<nifi, events, leaks>>
        \/ /\ groups[status.candidate].use = "none"
           /\ Save(Mark("Failed"), TRUE) /\ UNCHANGED <<nifi, events, leaks>>
        \/ BestEffort(status.candidate, [Mark("Failed") EXCEPT !.target = None, !.candidate = None])

ReconcileSnapshotFlowDeployment ==
  /\ \/ status.retiring # None /\ Retire
     \/ /\ status.retiring = None
        /\ \/ status.pg = None /\ ImportFlow
           \/ status.pg # None /\ status.digest = source /\ Poll
           \/ status.pg # None /\ status.digest # source /\ strategy = "InPlace" /\ RolloutInPlace
           \/ status.pg # None /\ status.digest # source /\ strategy = "BlueGreen" /\ RolloutBlueGreen
  /\ UNCHANGED <<late, checked>>

Dependencies == inline \/ bundle.why = "Ready"
Matches == inline \/ bundle.digest = source

\* The source cannot be resolved, or is not what the bundle recorded: no requeue.
InvalidFlowSnapshot ==
  /\ \/ Happens /\ missed' = TRUE
     \/ ~Matches /\ UNCHANGED <<events, missed>>
  /\ Save(Mark("InvalidFlowSnapshot"), FALSE)
  /\ UNCHANGED <<nifi, late, checked, leaks>>

ReconcileDeployment ==
  /\ life = "live" /\ queued
  /\ \/ /\ cluster # "ready" \/ ~Dependencies
        /\ Save(Mark("Waiting"), FALSE)
        /\ UNCHANGED <<nifi, late, checked, missed, events, leaks>>
     \/ /\ cluster = "ready" /\ Dependencies
        /\ \/ InvalidFlowSnapshot
           \/ Matches /\ dry /\ ReconcileFlowValidation /\ UNCHANGED missed
           \/ Matches /\ ~dry /\ ReconcileSnapshotFlowDeployment /\ UNCHANGED missed
  /\ Bounded
  /\ UNCHANGED <<source, fixed, dry, purge, bundle, life, cluster>>

-----------------------------------------------------------------------------
(* Deletion *)

DropFinalizer ==
  \/ life' = "gone" /\ queued' = FALSE /\ UNCHANGED losses
  \/ Lost /\ UNCHANGED <<life, queued>>
Again == UNCHANGED <<life, queued, losses>>

\* The group of a dry run goes whatever deletionPolicy says, if deleting it succeeds.
TempToDelete == status.temp
FlowToDelete == IF purge THEN status.pg ELSE None

\* NiFi deletes it or it is gone already; or the call fails.
DeleteFlow(temps) ==
  \/ groups' = Without({FlowToDelete} \cup temps) /\ DropFinalizer /\ UNCHANGED events
  \/ Happens /\ groups' = Without(temps) /\ Again

ReconcileDelete ==
  /\ life = "deleting" /\ queued
  /\ \/ /\ {TempToDelete, FlowToDelete} = {None} \/ cluster = "gone"
        /\ DropFinalizer /\ UNCHANGED <<groups, events, leaks>>
     \/ /\ {TempToDelete, FlowToDelete} # {None} /\ cluster = "ready"
        /\ \E temps \in {{TempToDelete}, {}} :
             /\ leaks' = leaks + (IF TempToDelete \in temps \/ TempToDelete = None THEN 0 ELSE 1)
             /\ IF FlowToDelete = None
                THEN groups' = Without(temps) /\ DropFinalizer /\ UNCHANGED events
                ELSE DeleteFlow(temps)
  /\ Bounded
  /\ UNCHANGED <<source, fixed, dry, purge, bundle, status, late, cluster, made, checked, missed>>

-----------------------------------------------------------------------------
(* Users, the source, NiFi and time *)

SourceMoves ==
  /\ source < MaxContent /\ source' = source + 1
  /\ UNCHANGED <<fixed, dry, purge, bundle, life, status, queued, late, cluster, nifi, checked, missed, events, losses, leaks>>

Edit ==
  /\ life = "live" /\ Happens
  /\ dry' = ~dry /\ status' = [status EXCEPT !.seen = FALSE] /\ queued' = TRUE
  /\ UNCHANGED <<source, fixed, purge, bundle, life, late, cluster, nifi, checked, missed, losses, leaks>> /\ Bounded

RequestDelete ==
  /\ life = "live" /\ Happens
  /\ life' = "deleting" /\ queued' = TRUE /\ purge' \in BOOLEAN
  /\ UNCHANGED <<source, fixed, dry, bundle, status, late, cluster, nifi, checked, missed, losses, leaks>> /\ Bounded

ClusterChanges(to) ==
  /\ cluster # to /\ cluster # "gone"
  /\ IF to = "ready" THEN UNCHANGED events ELSE Happens
  /\ cluster' = to /\ queued' = (life # "gone")
  /\ UNCHANGED <<source, fixed, dry, purge, bundle, life, status, late, nifi, checked, missed, losses, leaks>> /\ Bounded

\* NiFi has validated the components of a group.
Settle(id) ==
  /\ groups[id].use = "temp" /\ ~groups[id].settled
  /\ groups' = [groups EXCEPT ![id].settled = TRUE]
  /\ UNCHANGED <<source, fixed, dry, purge, bundle, life, status, queued, late, cluster, made, checked, missed, events, losses, leaks>>

Timeout ==
  /\ status.phase = "Validating" /\ ~late /\ late' = TRUE
  /\ UNCHANGED <<source, fixed, dry, purge, bundle, life, status, queued, cluster, nifi, checked, missed, events, losses, leaks>>

Next ==
  \/ ReconcileBundle \/ DeleteBundle \/ ReconcileDeployment \/ ReconcileDelete
  \/ SourceMoves \/ Edit \/ RequestDelete \/ Timeout
  \/ \E to \in {"ready", "unready", "gone"} : ClusterChanges(to)
  \/ \E id \in Ids : Settle(id)

Spec == Init /\ [][Next]_vars

\* The workqueues call for what they hold or were told to call later for; time passes. It is
\* not assumed that NiFi ever finishes validating.
FairSpec ==
  /\ Spec
  /\ WF_vars(ReconcileBundle) /\ WF_vars(ReconcileDeployment \/ ReconcileDelete) /\ WF_vars(Timeout)

-----------------------------------------------------------------------------
(* Properties *)

Flows == {id \in Ids : groups[id].use = "flow"}
Recorded == {status.pg, status.candidate, status.retiring}

\* Dry runs that are interrupted, fail or are repeated do not pile up groups in NiFi: there
\* is one, and one more for each time that a deletion failed.
DryRunsBounded == Cardinality(Temps) <= 1 + leaks

\* The flow is not imported twice: every group of the deployment is one its status knows,
\* apart from one for each lost write or answer, for each deletion that failed and for each
\* time the source moved again (which makes a rollout to the content before forget its
\* candidate).
Forgotten == Cardinality(3..source)
FlowsRecorded ==
  life # "gone" => Cardinality(Flows \ Recorded) <= losses + leaks + Forgotten

\* A flow that is reported valid was valid: all components were found so, in time.
ValidIsTrue == status.result.valid => checked \in Valid

\* Deletion in the middle of anything: the group of a dry run goes whatever the
\* deletionPolicy, and with Delete so does the live group. Of a BlueGreen rollout the
\* candidate or the retiring group stays.
DeletedMeansGone ==
  life = "gone" /\ cluster # "gone" =>
    /\ losses + leaks = 0 => Temps = {}
    /\ purge => status.pg \notin Flows
    /\ purge /\ losses + leaks + Forgotten = 0 => Flows \subseteq {status.candidate, status.retiring}

\* The resources are there, and the deployment never failed alone to resolve the source:
\* it is not called again for that. Whether a BlueGreen rollout succeeds is not for the entry
\* to say (BlueGreenRollout's RolloutEnds is about that). The bound on groups is not reached.
Calm == /\ cluster = "ready" /\ life = "live" /\ bundle.why # "gone" /\ ~missed
        /\ (~dry => strategy = "InPlace") /\ (made = MaxMade => status.pg # None)

\* Whatever order bundle and deployment see the source move in, in the end the live flow is
\* the source's; a dry run ends and is not repeated (an inline source is not polled for one).
Converges ==
  <>[]Calm =>
    /\ <>[](~dry => status.why = "Ready" /\ status.digest = source /\ groups[status.pg].content = source)
    /\ <>[](dry /\ status.pg = None =>
              /\ status.phase = "none" /\ Cardinality(Temps) <= losses + leaks /\ ~queued
              /\ inline \/ status.result.digest = source)

\* A deletion ends, though its last write may be lost and it starts again.
DeletionEnds == []<>~(life = "deleting" /\ cluster # "unready")

\* Groups do not pile up in NiFi, the status knows those that are in use, and deletion
\* removes them.
GroupsKnown == TypeOK /\ DryRunsBounded /\ FlowsRecorded /\ DeletedMeansGone

\* Deployments, dry runs and deletions come to an end.
ComesToRest == Converges /\ DeletionEnds

\* What the comment at CheckedDigest says: it is the digest that was validated.
CheckedIsValidated == status.result # NoResult => status.result.digest = checked

=============================================================================
