-------------------------- MODULE ManagedComponent --------------------------
(***************************************************************************)
(* One custom resource that stands for one component of NiFi (a process    *)
(* group, controller service, processor, port, connection, funnel, label,  *)
(* reporting task, parameter provider or registry client), the reconciler  *)
(* of its kind, the workqueue that decides when the reconciler runs, and   *)
(* NiFi's components of that kind.                                         *)
(*                                                                         *)
(* A reconcile is one step: it reads the resource, calls NiFi, and saves   *)
(* the status. Any of its calls may fail, a create may take effect although *)
(* its answer is lost, and the status may not be saved (a conflict with an *)
(* edit made in the meantime is such a loss). `queued` is the workqueue:   *)
(* a reconcile runs only when an event, an error or a requeue asks for it. *)
(*                                                                         *)
(* A configuration is a value; a component runs or does not ("on" stands   *)
(* for RUNNING, ENABLED and ENABLING); the revision of the status is       *)
(* reduced to whether it still is NiFi's. A ready cluster has an endpoint  *)
(* and a ready group an id, so the guards on missing ones are left out.    *)
(***************************************************************************)
EXTENDS Integers, FiniteSets

CONSTANTS
  Kinds,       \* the kinds of resource considered
  Pins,        \* whether the spec gives every field NiFi fills with a default
  MaxMade,     \* bound: components the operator creates
  MaxEdits,    \* bound: changes of the spec
  MaxMeddles,  \* bound: changes made in NiFi or to a dependency by others
  MaxFaults    \* bound: failing calls to NiFi and failing writes to Kubernetes

Running == {"Processor", "ControllerService", "InputPort", "OutputPort", "ReportingTask"}
AllKinds == Running \cup {"ProcessGroup", "Connection", "Funnel", "Label",
                          "ParameterProvider", "RegistryClient"}

ASSUME KindsAssumption == Kinds \subseteq AllKinds /\ Pins \subseteq BOOLEAN
ASSUME BoundsAssumption ==
  /\ MaxMade \in Nat /\ MaxEdits \in Nat /\ MaxMeddles \in Nat
  /\ MaxFaults \in Nat

VARIABLES
  kind,      \* the kind of the resource
  spec,      \* its spec and generation
  life,      \* "new" without finalizer, "live", "deleting" or "gone"
  status,    \* its status
  unready,   \* the dependencies that are not ready
  gone,      \* the NiFiCluster is deleted or being deleted
  queued,    \* the workqueue holds the resource
  fresh,     \* the status holds the revision NiFi has for the component
  nifi,      \* NiFi's components; 1 is one that was there before
  made,      \* how many components the operator created
  known,     \* history: the components whose id was ever saved
  edits, meddles, faults, losses

resource == <<kind, spec, life>>
world == <<unready, gone, edits, meddles>>
vars == <<resource, status, world, queued, fresh, nifi, made, known, faults, losses>>

-----------------------------------------------------------------------------
(* Components, specs and statuses *)

None == 0
Foreign == 1
Ids == 1..(MaxMade + 1)
Deps == {"NiFiCluster", "NiFiProcessGroup", "NiFiParameterContext", "Connectable", "Secret"}

Components == [cfg : 0..2, run : {"absent", "off", "on"},
               valid : {"VALID", "INVALID", "VALIDATING"}]
Absent == [cfg |-> 0, run |-> "absent", valid |-> "VALID"]
Verdicts == IF kind \in Running THEN {"VALID", "INVALID", "VALIDATING"} ELSE {"VALID"}
Exists(id) == nifi[id].run # "absent"

Specs == [gen : 0..MaxEdits, cfg : {1, 2}, run : {"off", "on"}, pins : BOOLEAN,
          delete : BOOLEAN, adopt : BOOLEAN, secret : BOOLEAN]

Reasons == {"", "Ready", "WaitingForDependencies", "INVALID", "VALIDATING", "AdoptionFailed",
            "NiFiGetFailed", "NiFiCreateFailed", "NiFiUpdateFailed", "NiFiStateFailed"}

Statuses == [id : 0..(MaxMade + 1), gen : -1..MaxEdits, ready : BOOLEAN,
             waiting : SUBSET Deps, why : Reasons]

\* Kinds whose reconciler implements adoptionPolicy AdoptById.
Adopters == AllKinds \ {"InputPort", "OutputPort", "Connection", "Funnel", "Label"}

\* Kinds with sensitive properties taken from Secrets.
Secretive == {"ControllerService", "ReportingTask", "ParameterProvider", "RegistryClient"}

TypeOK ==
  /\ kind \in Kinds /\ spec \in Specs /\ life \in {"new", "live", "deleting", "gone"}
  /\ status \in Statuses /\ unready \subseteq Deps
  /\ gone \in BOOLEAN /\ queued \in BOOLEAN /\ fresh \in BOOLEAN
  /\ nifi \in [Ids -> Components] /\ made \in 0..MaxMade /\ known \subseteq Ids
  /\ edits \in 0..MaxEdits /\ meddles \in 0..MaxMeddles
  /\ faults \in 0..MaxFaults /\ losses \in 0..MaxFaults

\* The resource has just been created; NiFi holds one component of somebody else.
Init ==
  /\ kind \in Kinds
  /\ spec \in [gen : {0}, cfg : {1},
               run : IF kind \in Running THEN {"off", "on"} ELSE {"off"}, pins : Pins,
               delete : BOOLEAN,
               adopt : IF kind \in Adopters THEN BOOLEAN ELSE {FALSE},
               secret : IF kind \in Secretive THEN BOOLEAN ELSE {FALSE}]
  /\ life = "new"
  /\ status = [id |-> None, gen |-> -1, ready |-> FALSE, waiting |-> {}, why |-> ""]
  /\ unready \in {{}, {"NiFiCluster"}}
  /\ gone = FALSE /\ queued = TRUE /\ fresh = FALSE
  /\ nifi = [id \in Ids |-> IF id = Foreign THEN [Absent EXCEPT !.run = "off"] ELSE Absent]
  /\ made = 0 /\ known = {}
  /\ edits = 0 /\ meddles = 0 /\ faults = 0 /\ losses = 0

-----------------------------------------------------------------------------
(* Writes to Kubernetes *)

Lost == faults + losses < MaxFaults /\ losses' = losses + 1
Failing == faults + losses < MaxFaults /\ faults' = faults + 1

\* Mutant: the status is written whether or not it changed.
SaveAlways(s, again, wrote) ==
  /\ status' = s /\ queued' = TRUE /\ fresh' = (s.ready \/ (fresh /\ ~wrote))
  /\ known' = known \cup ({s.id} \ {None})
  /\ UNCHANGED losses

\* The status is written if it or the revision changed, which is an event; a write may
\* fail, which is an error. Otherwise the reconcile asks to be called again or does not.
\* `wrote` says that the component was written to.
Save(s, again, wrote) ==
  LET current == fresh /\ ~wrote
      same == s = status /\ (s.ready => current) IN
  \/ /\ same
     /\ queued' = again /\ fresh' = current
     /\ UNCHANGED <<status, known, losses>>
  \/ /\ ~same
     /\ status' = s /\ queued' = TRUE /\ fresh' = (s.ready \/ current)
     /\ known' = known \cup ({s.id} \ {None})
     /\ UNCHANGED losses
  \/ /\ ~same
     /\ Lost /\ queued' = TRUE /\ fresh' = current
     /\ UNCHANGED <<status, known>>

MarkReady(id) == [id |-> id, gen |-> spec.gen, ready |-> TRUE, waiting |-> {}, why |-> "Ready"]

\* Mutant: the status is built anew, without the id.
MarkNotReadyAnew(why) == [id |-> None, gen |-> spec.gen, ready |-> FALSE, waiting |-> {}, why |-> why]

\* What shouldMark...NotReady finds to be there already is not written again.
MarkNotReady(why) == [status EXCEPT !.gen = spec.gen, !.ready = FALSE, !.waiting = {}, !.why = why]

MarkWaiting(deps) == [status EXCEPT !.gen = spec.gen, !.ready = FALSE, !.waiting = deps,
                                    !.why = "WaitingForDependencies"]

\* Dependencies are waited for without a requeue: a watch has to report them.
Await(deps) ==
  /\ unready \cap deps # {}
  /\ Save(MarkWaiting(unready \cap deps), FALSE, FALSE)
  /\ UNCHANGED <<nifi, made, faults>>

AddFinalizer ==
  /\ life = "new" /\ queued
  /\ \/ life' = "live" /\ UNCHANGED losses
     \/ Lost /\ UNCHANGED life
  /\ UNCHANGED <<kind, spec, status, world, queued, fresh, nifi, made, known, faults>>

-----------------------------------------------------------------------------
(* Calls to NiFi on a component: what it is after them, how they ended, whether *)
(* one of them failed, and whether one of them wrote.                           *)

It == nifi[status.id]
Theirs == nifi[Foreign]

Ends(c, why, wrote) == {[c |-> c, why |-> why, bad |-> FALSE, wrote |-> wrote]}
Fails(c, why, wrote) == {[c |-> c, why |-> why, bad |-> TRUE, wrote |-> wrote]}

Configured(c) == {[c EXCEPT !.cfg = spec.cfg, !.valid = v] : v \in Verdicts}

\* NiFi's answer to a create: a component that does not run.
Created == {[cfg |-> spec.cfg, run |-> "off", valid |-> v] : v \in Verdicts}

\* Fields that the spec leaves open are compared with NiFi's defaults, and differ.
ComparesAll(c) == c.cfg # spec.cfg \/ ~spec.pins
\* Only fields that the spec gives are compared.
ComparesGiven(c) == c.cfg # spec.cfg

\* A component without a run state is updated in place.
Update(c, differs) ==
  IF differs
  THEN Fails(c, "NiFiUpdateFailed", FALSE) \cup
       UNION {Ends(d, "Ready", TRUE) : d \in Configured(c)}
  ELSE Ends(c, "Ready", FALSE)

\* Mutant: the run state is left to the update.
SetStateLeft(c, wrote) == Ends(c, "Ready", wrote)

\* The run state is changed by a call of its own, once NiFi found the component valid.
SetState(c, wrote) ==
  IF c.run = spec.run THEN Ends(c, "Ready", wrote)
  ELSE IF spec.run = "on" /\ c.valid # "VALID" THEN Ends(c, c.valid, wrote)
  ELSE Fails(c, "NiFiStateFailed", wrote) \cup Ends([c EXCEPT !.run = spec.run], "Ready", TRUE)

\* A reporting task that is to run must be valid even if it runs.
SetReportingTaskState(c, wrote) ==
  IF spec.run = "on" /\ c.valid # "VALID" THEN Ends(c, c.valid, wrote) ELSE SetState(c, wrote)

SetRunState(c, wrote) ==
  IF kind = "ReportingTask" THEN SetReportingTaskState(c, wrote) ELSE SetState(c, wrote)

\* A component with a run state is stopped before it is updated, and started after.
StopUpdate(c, differs) ==
  IF ~differs THEN SetRunState(c, FALSE)
  ELSE LET d == [c EXCEPT !.run = "off"] IN
       (IF c.run = "on" THEN Fails(c, "NiFiUpdateFailed", FALSE) ELSE {}) \cup
       Fails(d, "NiFiUpdateFailed", c.run = "on") \cup
       UNION {SetRunState(e, TRUE) : e \in Configured(d)}

\* The end of a reconcile: Ready with the id, NotReady with a requeue but without the id,
\* or nothing but a requeue while NiFi is validating.
Conclude(id, o) ==
  LET wrote == o.wrote /\ id = status.id IN
  /\ IF o.bad THEN Failing ELSE UNCHANGED faults
  /\ CASE o.why = "Ready" -> Save(MarkReady(id), FALSE, wrote)
       [] o.why = "VALIDATING" /\ kind \notin {"InputPort", "OutputPort"} ->
            /\ queued' = TRUE /\ fresh' = (fresh /\ ~wrote)
            /\ UNCHANGED <<status, known, losses>>
       [] OTHER -> Save(MarkNotReady(o.why), TRUE, wrote)

Apply(id, outcomes) ==
  \E o \in outcomes :
    /\ nifi' = [nifi EXCEPT ![id] = o.c]
    /\ Conclude(id, o)
    /\ UNCHANGED made

NotReady(why) == Save(MarkNotReady(why), TRUE, FALSE) /\ UNCHANGED <<nifi, made>>

GetFails(why) == Failing /\ NotReady(why)

\* The component whose id is in the status; one that is gone is an error for ever.
ById(outcomes) ==
  /\ status.id # None
  /\ \/ Exists(status.id) /\ Apply(status.id, outcomes)
     \/ ~Exists(status.id) /\ NotReady("NiFiGetFailed") /\ UNCHANGED faults
     \/ GetFails("NiFiGetFailed")

\* The same, but one that is gone is looked for and made again.
ByIdIfThere(outcomes) ==
  /\ status.id # None
  /\ \/ Exists(status.id) /\ Apply(status.id, outcomes)
     \/ GetFails("NiFiGetFailed")

NoId == status.id = None
NoneThere == IF NoId THEN TRUE ELSE ~Exists(status.id)

Adopt(outcomes) ==
  /\ spec.adopt
  /\ \/ Exists(Foreign) /\ Apply(Foreign, outcomes)
     \/ ~Exists(Foreign) /\ NotReady("AdoptionFailed") /\ UNCHANGED faults
     \/ GetFails("AdoptionFailed")

\* Create component `c` and go on with it. A failed create may have made it.
Create(c, outcomes) ==
  /\ made < MaxMade
  /\ \/ GetFails("NiFiCreateFailed")
     \/ /\ made' = made + 1
        /\ \/ \E o \in outcomes :
                nifi' = [nifi EXCEPT ![made + 2] = o.c] /\ Conclude(made + 2, o)
           \/ /\ Failing
              /\ nifi' = [nifi EXCEPT ![made + 2] = c]
              /\ Save(MarkNotReady("NiFiCreateFailed"), TRUE, FALSE)

Done(c) == Ends(c, "Ready", FALSE)

Turn(k) == kind = k /\ life = "live" /\ queued
Clear(deps) == unready \cap deps = {}
Secrets == IF spec.secret THEN {"Secret"} ELSE {}

-----------------------------------------------------------------------------
(* Kinds without a run state: create saves the id *)

ProcessGroupDiffers(c) == ComparesAll(c)
ConnectionDiffers(c) == ComparesGiven(c)
FunnelDiffers(c) == ComparesAll(c)
LabelDiffers(c) == ComparesAll(c)
RegistryClientDiffers(c) == ComparesGiven(c)
ParameterProviderDiffers(c) == ComparesGiven(c)

ExistingProcessGroup(c) == Update(c, ProcessGroupDiffers(c))
\* A connection keeps the ends it was made with.
ExistingConnection(c) == Update(c, ConnectionDiffers(c))
ExistingFunnel(c) == Update(c, FunnelDiffers(c))
ExistingLabel(c) == Update(c, LabelDiffers(c))
ExistingRegistryClient(c) == Update(c, RegistryClientDiffers(c))
ExistingParameterProvider(c) == Update(c, ParameterProviderDiffers(c))

ProcessGroupDeps == {"NiFiCluster", "NiFiProcessGroup", "NiFiParameterContext"}
ConnectionDeps == {"NiFiCluster", "NiFiProcessGroup", "Connectable"}
GroupDeps == {"NiFiCluster", "NiFiProcessGroup"}

ReconcileProcessGroup ==
  /\ Turn("ProcessGroup")
  /\ \/ Await(ProcessGroupDeps)
     \/ /\ Clear(ProcessGroupDeps)
        /\ \/ ById(ExistingProcessGroup(It))
           \/ NoId /\ Adopt(ExistingProcessGroup(Theirs))
           \/ NoId /\ ~spec.adopt /\ \E c \in Created : Create(c, Done(c))
  /\ UNCHANGED <<resource, world>>

ReconcileConnection ==
  /\ Turn("Connection")
  /\ \/ Await(ConnectionDeps)
     \/ Clear(ConnectionDeps) /\ (ById(ExistingConnection(It)) \/ (NoId /\ \E c \in Created : Create(c, Done(c))))
  /\ UNCHANGED <<resource, world>>

ReconcileFunnel ==
  /\ Turn("Funnel")
  /\ \/ Await(GroupDeps)
     \/ Clear(GroupDeps) /\ (ById(ExistingFunnel(It)) \/ (NoId /\ \E c \in Created : Create(c, Done(c))))
  /\ UNCHANGED <<resource, world>>

ReconcileLabel ==
  /\ Turn("Label")
  /\ \/ Await(GroupDeps)
     \/ Clear(GroupDeps) /\ (ById(ExistingLabel(It)) \/ (NoId /\ \E c \in Created : Create(c, Done(c))))
  /\ UNCHANGED <<resource, world>>

\* Secrets are looked at when the cluster is there.
ReconcileRegistryClient ==
  /\ Turn("RegistryClient")
  /\ \/ Await({"NiFiCluster"})
     \/ /\ Clear({"NiFiCluster"})
        /\ \/ Await(Secrets)
           \/ /\ Clear(Secrets)
              /\ \/ ById(ExistingRegistryClient(It))
                 \/ NoId /\ Adopt(ExistingRegistryClient(Theirs))
                 \/ NoId /\ ~spec.adopt /\ \E c \in Created : Create(c, Done(c))
  /\ UNCHANGED <<resource, world>>

ReconcileParameterProvider ==
  /\ Turn("ParameterProvider")
  /\ \/ Await({"NiFiCluster"})
     \/ /\ Clear({"NiFiCluster"})
        /\ \/ Await(Secrets)
           \/ /\ Clear(Secrets)
              /\ \/ ByIdIfThere(ExistingParameterProvider(It))
                 \/ NoneThere /\ Adopt(ExistingParameterProvider(Theirs))
                 \/ NoneThere /\ ~spec.adopt /\ \E c \in Created : Create(c, ExistingParameterProvider(c))
  /\ UNCHANGED <<resource, world>>

-----------------------------------------------------------------------------
(* Kinds with a run state: what create made goes through the path of an existing *)
(* component, and its id is saved only at the end of that path.                  *)

ProcessorDiffers(c) == ComparesAll(c)
PortDiffers(c) == ComparesAll(c)
ControllerServiceDiffers(c) == ComparesGiven(c)
ReportingTaskDiffers(c) == ComparesGiven(c)

ExistingProcessor(c) == StopUpdate(c, ProcessorDiffers(c))
ExistingInputPort(c) == StopUpdate(c, PortDiffers(c))
ExistingOutputPort(c) == StopUpdate(c, PortDiffers(c))
ExistingControllerService(c) == StopUpdate(c, ControllerServiceDiffers(c))
ExistingReportingTask(c) == StopUpdate(c, ReportingTaskDiffers(c))

ControllerServiceDeps == ProcessGroupDeps

ReconcileProcessor ==
  /\ Turn("Processor")
  /\ \/ Await(GroupDeps)
     \/ /\ Clear(GroupDeps)
        /\ \/ ById(ExistingProcessor(It))
           \/ NoId /\ Adopt(ExistingProcessor(Theirs))
           \/ NoId /\ ~spec.adopt /\ \E c \in Created : Create(c, ExistingProcessor(c))
  /\ UNCHANGED <<resource, world>>

ReconcileInputPort ==
  /\ Turn("InputPort")
  /\ \/ Await(GroupDeps)
     \/ Clear(GroupDeps) /\ (ById(ExistingInputPort(It)) \/ (NoId /\ \E c \in Created : Create(c, ExistingInputPort(c))))
  /\ UNCHANGED <<resource, world>>

ReconcileOutputPort ==
  /\ Turn("OutputPort")
  /\ \/ Await(GroupDeps)
     \/ Clear(GroupDeps) /\ (ById(ExistingOutputPort(It)) \/ (NoId /\ \E c \in Created : Create(c, ExistingOutputPort(c))))
  /\ UNCHANGED <<resource, world>>

ReconcileControllerService ==
  /\ Turn("ControllerService")
  /\ \/ Await(ControllerServiceDeps)
     \/ /\ Clear(ControllerServiceDeps)
        /\ \/ Await(Secrets)
           \/ /\ Clear(Secrets)
              /\ \/ ById(ExistingControllerService(It))
                 \/ NoId /\ Adopt(ExistingControllerService(Theirs))
                 \/ NoId /\ ~spec.adopt /\ \E c \in Created : Create(c, ExistingControllerService(c))
  /\ UNCHANGED <<resource, world>>

ReconcileReportingTask ==
  /\ Turn("ReportingTask")
  /\ \/ Await({"NiFiCluster"})
     \/ /\ Clear({"NiFiCluster"})
        /\ \/ Await(Secrets)
           \/ /\ Clear(Secrets)
              /\ \/ ByIdIfThere(ExistingReportingTask(It))
                 \/ NoneThere /\ Adopt(ExistingReportingTask(Theirs))
                 \/ NoneThere /\ ~spec.adopt /\ \E c \in Created : Create(c, ExistingReportingTask(c))
  /\ UNCHANGED <<resource, world>>

-----------------------------------------------------------------------------
(* Deletion *)

Deleting(k) == kind = k /\ life = "deleting" /\ queued

\* The finalizer is removed, or that fails and is tried again.
DropFinalizer ==
  \/ life' = "gone" /\ queued' = FALSE /\ UNCHANGED losses
  \/ Lost /\ UNCHANGED <<life, queued>>

\* Mutant: a cluster that is not ready is taken for one that is gone.
KeepsUnready == ~spec.delete \/ status.id = None \/ gone \/ "NiFiCluster" \in unready

\* Nothing to delete, or nothing to delete it from.
Keeps == ~spec.delete \/ status.id = None \/ gone

\* Deletion: drop what is kept, wait for a cluster that is not ready, or call NiFi, which
\* deletes the component (whether or not it is still there) or fails.
Delete(outcomes) ==
  /\ \/ Keeps /\ DropFinalizer /\ UNCHANGED <<nifi, faults, fresh>>
     \/ /\ ~Keeps /\ "NiFiCluster" \notin unready
        /\ \E o \in outcomes :
             /\ nifi' = [nifi EXCEPT ![status.id] = o.c]
             /\ fresh' = (fresh /\ ~o.wrote)
             /\ IF o.bad THEN Failing ELSE UNCHANGED faults
             /\ IF o.why = "Deleted" THEN DropFinalizer ELSE UNCHANGED <<life, queued, losses>>
  /\ UNCHANGED <<kind, spec, status, world, made, known>>

\* A running component is refused by NiFi.
Remove(c) == IF c.run = "on" THEN Ends(c, "Refused", FALSE)
             ELSE Fails(c, "Failed", FALSE) \cup Ends(Absent, "Deleted", TRUE)

\* Stop it if it runs, then delete it.
StopRemove(c) ==
  IF c.run = "on"
  THEN Fails(c, "Failed", FALSE) \cup Fails([c EXCEPT !.run = "off"], "Failed", TRUE)
         \cup Ends(Absent, "Deleted", TRUE)
  ELSE Remove(c)

\* With the revision of the status, which may be out of date; one that is not there is
\* not found, and that is an error too.
RemoveAsSeen(c) ==
  IF fresh /\ c.run # "absent" THEN Remove(c) ELSE Ends(c, "Refused", FALSE)

DeleteProcessGroup == Deleting("ProcessGroup") /\ Delete(Remove(It))
DeleteConnection == Deleting("Connection") /\ Delete(Remove(It))
DeleteFunnel == Deleting("Funnel") /\ Delete(Remove(It))
DeleteLabel == Deleting("Label") /\ Delete(Remove(It))
DeleteParameterProvider == Deleting("ParameterProvider") /\ Delete(Remove(It))
DeleteRegistryClient == Deleting("RegistryClient") /\ Delete(RemoveAsSeen(It))
\* Ports are not stopped first.
DeleteInputPort == Deleting("InputPort") /\ Delete(Remove(It))
DeleteOutputPort == Deleting("OutputPort") /\ Delete(Remove(It))
DeleteProcessor == Deleting("Processor") /\ Delete(StopRemove(It))
DeleteControllerService == Deleting("ControllerService") /\ Delete(StopRemove(It))
DeleteReportingTask == Deleting("ReportingTask") /\ Delete(StopRemove(It))

-----------------------------------------------------------------------------
(* Others. Nothing more is followed once the resource is gone. *)

Meddling == meddles < MaxMeddles /\ meddles' = meddles + 1

\* The user changes the spec.
Edit ==
  /\ life \in {"new", "live"} /\ edits < MaxEdits
  /\ edits' = edits + 1 /\ queued' = TRUE
  /\ \/ spec' = [spec EXCEPT !.gen = @ + 1, !.cfg = 3 - @]
     \/ /\ kind \in Running
        /\ spec' = [spec EXCEPT !.gen = @ + 1, !.run = IF @ = "on" THEN "off" ELSE "on"]
  /\ UNCHANGED <<kind, life, status, unready, gone, fresh, nifi, made, known, meddles, faults, losses>>

\* The user deletes the resource; without a finalizer it is gone at once.
RequestDelete ==
  /\ life \in {"new", "live"}
  /\ life' = (IF life = "new" THEN "gone" ELSE "deleting")
  /\ queued' = (life = "live")
  /\ UNCHANGED <<kind, spec, status, world, fresh, nifi, made, known, faults, losses>>

WatchesCluster == AllKinds
WatchesParameterContext == {"ProcessGroup", "ControllerService"}
WatchesProcessGroup == {"ProcessGroup", "ControllerService", "Processor", "InputPort",
                        "OutputPort", "Connection", "Funnel", "Label"}
WatchesConnectable == {"Connection"}

\* Whether an event of such an object puts the resource into the workqueue. No reconciler
\* of these kinds watches Secrets.
Wakes(dep) == kind \in CASE dep = "NiFiCluster" -> WatchesCluster
                         [] dep = "NiFiProcessGroup" -> WatchesProcessGroup
                         [] dep = "NiFiParameterContext" -> WatchesParameterContext
                         [] dep = "Connectable" -> WatchesConnectable
                         [] OTHER -> {}

Needs == CASE kind = "ProcessGroup" -> ProcessGroupDeps
           [] kind = "ControllerService" -> ControllerServiceDeps \cup Secrets
           [] kind = "Connection" -> ConnectionDeps
           [] kind \in {"Processor", "InputPort", "OutputPort", "Funnel", "Label"} -> GroupDeps
           [] OTHER -> {"NiFiCluster"} \cup Secrets

\* A dependency becomes ready or stops being ready.
DependencyReady(dep) ==
  /\ life # "gone" /\ dep \in unready /\ ~(dep = "NiFiCluster" /\ gone)
  /\ unready' = unready \ {dep}
  /\ queued' = (queued \/ Wakes(dep))
  /\ UNCHANGED <<resource, status, gone, edits, meddles, fresh, nifi, made, known, faults, losses>>

DependencyUnready(dep) ==
  /\ life # "gone" /\ dep \in Needs \ unready
  /\ Meddling
  /\ unready' = unready \cup {dep}
  /\ queued' = (queued \/ Wakes(dep))
  /\ UNCHANGED <<resource, status, gone, edits, fresh, nifi, made, known, faults, losses>>

\* The NiFiCluster is deleted.
ClusterDeleted ==
  /\ life # "gone" /\ ~gone /\ Meddling
  /\ gone' = TRUE /\ unready' = unready \cup {"NiFiCluster"}
  /\ queued' = TRUE
  /\ UNCHANGED <<resource, status, edits, fresh, nifi, made, known, faults, losses>>

\* NiFi decides about a component it is validating, or decides anew when what surrounds
\* the component changed.
Validated(id) ==
  /\ life # "gone" /\ Exists(id) /\ nifi[id].valid # "VALID"
  /\ nifi' = [nifi EXCEPT ![id].valid = "VALID"]
  /\ UNCHANGED <<resource, status, world, queued, fresh, made, known, faults, losses>>

\* Somebody changes, starts, stops or deletes the component in NiFi.
Meddle ==
  /\ life # "gone" /\ status.id # None /\ Exists(status.id) /\ Meddling
  /\ \E c \in {Absent, [It EXCEPT !.cfg = 0], [It EXCEPT !.run = "off"],
               [It EXCEPT !.run = IF kind \in Running THEN "on" ELSE @]} \ {It} :
       nifi' = [nifi EXCEPT ![status.id] = c]
  /\ fresh' = FALSE
  /\ UNCHANGED <<resource, status, unready, gone, edits, queued, made, known, faults, losses>>

Reconcile ==
  \/ AddFinalizer
  \/ ReconcileProcessGroup \/ ReconcileConnection \/ ReconcileFunnel \/ ReconcileLabel
  \/ ReconcileRegistryClient \/ ReconcileParameterProvider
  \/ ReconcileProcessor \/ ReconcileInputPort \/ ReconcileOutputPort
  \/ ReconcileControllerService \/ ReconcileReportingTask
  \/ DeleteProcessGroup \/ DeleteConnection \/ DeleteFunnel \/ DeleteLabel
  \/ DeleteRegistryClient \/ DeleteParameterProvider
  \/ DeleteProcessor \/ DeleteInputPort \/ DeleteOutputPort
  \/ DeleteControllerService \/ DeleteReportingTask

Others ==
  \/ Edit \/ RequestDelete \/ Meddle \/ ClusterDeleted
  \/ \E dep \in Deps : DependencyReady(dep) \/ DependencyUnready(dep)
  \/ \E id \in Ids : Validated(id)

Next == Reconcile \/ Others

Spec == Init /\ [][Next]_vars

\* The workqueue calls the reconciler of what it holds; NiFi finishes validation.
FairSpec == Spec /\ WF_vars(Reconcile) /\ \A id \in Ids : WF_vars(Validated(id))

-----------------------------------------------------------------------------
(* Properties *)

\* Once a resource with deletionPolicy Delete is gone, so is every component whose id its
\* status ever held, through lost writes, failing calls, a cluster that comes and goes and
\* a component that was replaced; unless the cluster itself was deleted.
DeletedMeansGone ==
  life = "gone" /\ spec.delete /\ ~gone => \A id \in known : ~Exists(id)

\* What the spec does not own stays: with deletionPolicy Orphan the operator deletes no
\* component, and without adoption it writes to none that it did not make.
OthersPreserved ==
  /\ ~spec.delete /\ meddles = 0 => \A id \in known : Exists(id)
  /\ ~(spec.adopt /\ kind \in Adopters) => nifi[Foreign] = [Absent EXCEPT !.run = "off"]

\* A resource that says Ready for its generation, and whose revision is NiFi's, has in NiFi
\* the configuration and the run state its spec asks for, after any failed or repeated
\* sequence of stopping, updating and starting.
ReadyIsTrue ==
  status.ready /\ status.gen = spec.gen /\ fresh => It.cfg = spec.cfg /\ It.run = spec.run

\* The status never lets go of a component that is still in NiFi: it would be lost there.
NeverForgets ==
  [][status.id # None /\ status'.id # status.id => ~Exists(status.id)]_vars

\* As far as the design lets it: every dependency is ready and none is a Secret, the component is
\* not to be started (it and its connection may wait for each other), it is still there if
\* its kind insists, and the bound leaves room to create it.
Calm ==
  /\ life = "live" /\ unready = {} /\ ~spec.secret
  /\ spec.run = "off"
  /\ IF status.id = None THEN made < MaxMade /\ (spec.adopt => Exists(Foreign))
     ELSE Exists(status.id)

\* A resource whose dependencies are ready in the end becomes Ready for its last
\* generation: whatever it waited for, an event puts it back into the workqueue.
Converges == <>[]Calm => <>[](status.ready /\ status.gen = spec.gen)

\* NiFi refuses for ever: a port that runs, a registry client deleted or changed by others.
Refused ==
  /\ ~Keeps
  /\ \/ kind \in {"InputPort", "OutputPort"} /\ It.run = "on"
     \/ kind = "RegistryClient" /\ ~(fresh /\ Exists(status.id))

\* A deletion ends: no resource is for ever being deleted while its cluster is ready or
\* deleted and NiFi does not refuse.
DeletionEnds ==
  []<>~(life = "deleting" /\ (gone \/ "NiFiCluster" \notin unready) /\ ~Refused)

\* A resource that stays Ready is left alone: the workqueue gets rid of it, and the
\* component is not updated again and again.
Settles == <>[](life = "live" /\ status.ready /\ Exists(status.id)) => <>[]~queued

\* What a status and its reconciler say of NiFi is well formed and true.
StatusIsTrue == TypeOK /\ ReadyIsTrue

\* A deletion takes what it must and nothing else.
DeletionIsExact == DeletedMeansGone /\ OthersPreserved

\* Whatever is asked for is done in the end, and then the reconciler rests.
ComesToRest == Converges /\ DeletionEnds /\ Settles

=============================================================================
