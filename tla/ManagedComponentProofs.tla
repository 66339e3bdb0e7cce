------------------------ MODULE ManagedComponentProofs ------------------------
(***************************************************************************)
(* Proofs about ManagedComponent, for every kind of resource: a status     *)
(* that says Ready is true of NiFi, a deletion takes all components the    *)
(* resource ever had and nothing else, and the status never lets go of a   *)
(* component that is still there.                                          *)
(***************************************************************************)
EXTENDS ManagedComponent, TLAPS

\* The status names a component that it was saved with, the last of them: those before
\* are gone. The operator makes components one after the other.
IdsKnown ==
  /\ status.id \in known \cup {None} /\ known \subseteq 1..(made + 1)
  /\ status.ready => status.id # None
  /\ life = "new" => known = {}
  /\ \A id \in known \ {status.id} : ~Exists(id)

\* A status is never for a generation that is still to come.
Gens == status.gen <= spec.gen /\ spec.gen = edits

\* What has no run state does not run.
Runs == kind \notin Running => spec.run = "off" /\ \A id \in Ids : nifi[id].run # "on"

\* Without adoption the resource does not even know what was there before.
Foreigns ==
  /\ spec.adopt => kind \in Adopters
  /\ ~spec.adopt => Foreign \notin known /\ nifi[Foreign] = [Absent EXCEPT !.run = "off"]

ComponentInv == TypeOK /\ IdsKnown /\ Gens /\ Runs /\ Foreigns /\ ReadyIsTrue /\ DeletionIsExact

-----------------------------------------------------------------------------
(* What calls to NiFi make of a component *)

There(c) == c \in Components /\ c.run # "absent" /\ (kind \notin Running => c.run # "on")

\* An outcome of calls on component c: it is still there; as it was, if nothing was
\* written; and as the spec asks for, if the outcome is Ready.
Outcome(c, o) ==
  /\ There(o.c) /\ o.why \in Reasons /\ o.bad \in BOOLEAN /\ o.wrote \in BOOLEAN
  /\ ~o.wrote => o.c = c
  /\ o.why = "Ready" => o.c.cfg = spec.cfg /\ o.c.run = spec.run

Outcomes(c, O) == \A o \in O : Outcome(c, o)

\* The spec asks for a configuration and a run state that a component can have.
LEMMA SpecTypes ==
  ASSUME TypeOK, Runs
  PROVE  /\ spec \in Specs /\ spec.cfg \in 0..2 /\ spec.run \in {"off", "on"}
         /\ spec.gen \in 0..MaxEdits
         /\ spec.pins \in BOOLEAN /\ spec.adopt \in BOOLEAN /\ spec.delete \in BOOLEAN
         /\ kind \notin Running => spec.run = "off"
BY DEF TypeOK, Specs, Runs

\* A single outcome of the calls that Ends and Fails describe.
LEMMA OneOutcome ==
  ASSUME NEW c, NEW d, There(d), NEW why \in Reasons, NEW wrote \in BOOLEAN, ~wrote => d = c,
         why = "Ready" => d.cfg = spec.cfg /\ d.run = spec.run
  PROVE  Outcomes(c, Ends(d, why, wrote)) /\ Outcomes(c, Fails(d, why, wrote))
BY DEF Outcomes, Outcome, Ends, Fails

\* The run state is set on a component that has the spec's configuration.
LEMMA RunStateOutcomes ==
  ASSUME TypeOK, Runs, NEW c, NEW d, There(d), NEW wrote \in BOOLEAN, ~wrote => d = c,
         d.cfg = spec.cfg
  PROVE  Outcomes(c, SetRunState(d, wrote))
<1>1. d \in Components /\ d.run \in {"off", "on"} /\ d.valid \in {"VALID", "INVALID", "VALIDATING"}
  BY DEF There, Components
<1>2. There([d EXCEPT !.run = spec.run])
  BY <1>1, SpecTypes DEF There, Components
<1>3. [d EXCEPT !.run = spec.run].cfg = spec.cfg /\ [d EXCEPT !.run = spec.run].run = spec.run
  BY <1>1 DEF Components
<1>4. d.valid # "VALID" => Outcomes(c, Ends(d, d.valid, wrote))
  <2>1. SUFFICES ASSUME d.valid # "VALID"
                 PROVE  Outcomes(c, Ends(d, d.valid, wrote))
    OBVIOUS
  <2>2. d.valid \in Reasons /\ d.valid # "Ready"
    BY <1>1, <2>1 DEF Reasons
  <2>3. QED
    BY <2>2, OneOutcome
<1>5. d.run = spec.run => Outcomes(c, Ends(d, "Ready", wrote))
  <2>1. "Ready" \in Reasons
    BY DEF Reasons
  <2>2. QED
    BY <2>1, OneOutcome
<1>6. Outcomes(c, Fails(d, "NiFiStateFailed", wrote) \cup Ends([d EXCEPT !.run = spec.run], "Ready", TRUE))
  <2>1. "Ready" \in Reasons /\ "NiFiStateFailed" \in Reasons
    BY DEF Reasons
  <2>2. Outcomes(c, Fails(d, "NiFiStateFailed", wrote))
    BY <2>1, OneOutcome
  <2>3. Outcomes(c, Ends([d EXCEPT !.run = spec.run], "Ready", TRUE))
    BY <1>2, <1>3, <2>1, OneOutcome
  <2>4. QED
    BY <2>2, <2>3 DEF Outcomes
<1>7. Outcomes(c, SetState(d, wrote))
  BY <1>4, <1>5, <1>6 DEF SetState
<1>8. Outcomes(c, SetReportingTaskState(d, wrote))
  BY <1>4, <1>7 DEF SetReportingTaskState
<1>9. QED
  BY <1>7, <1>8 DEF SetRunState

\* A configured component has the spec's configuration and its old run state.
LEMMA ConfiguredIs ==
  ASSUME TypeOK, Runs, NEW c, There(c), NEW d \in Configured(c)
  PROVE  There(d) /\ d.cfg = spec.cfg /\ d.run = c.run
<1>1. PICK v \in Verdicts : d = [c EXCEPT !.cfg = spec.cfg, !.valid = v]
  BY DEF Configured
<1>2. v \in {"VALID", "INVALID", "VALIDATING"}
  BY DEF Verdicts
<1>3. QED
  BY <1>1, <1>2, SpecTypes DEF There, Components

\* An update in place, of a kind without run state.
LEMMA UpdateOutcomes ==
  ASSUME TypeOK, Runs, kind \notin Running, NEW c, There(c), NEW differs \in BOOLEAN,
         ~differs => c.cfg = spec.cfg
  PROVE  Outcomes(c, Update(c, differs))
<1>0. "Ready" \in Reasons /\ "NiFiUpdateFailed" \in Reasons
  BY DEF Reasons
<1>1. c.run = spec.run
  BY SpecTypes DEF There, Components
<1>2. Outcomes(c, Fails(c, "NiFiUpdateFailed", FALSE))
  BY <1>0, OneOutcome
<1>3. ~differs => Outcomes(c, Ends(c, "Ready", FALSE))
  BY <1>0, <1>1, OneOutcome
<1>4. \A d \in Configured(c) : Outcomes(c, Ends(d, "Ready", TRUE))
  BY <1>0, <1>1, ConfiguredIs, OneOutcome
<1>5. QED
  BY <1>2, <1>3, <1>4 DEF Update, Outcomes

\* Stopping, updating and starting.
LEMMA StopUpdateOutcomes ==
  ASSUME TypeOK, Runs, NEW c, There(c), NEW differs \in BOOLEAN, ~differs => c.cfg = spec.cfg
  PROVE  Outcomes(c, StopUpdate(c, differs))
<1>0. "NiFiUpdateFailed" \in Reasons
  BY DEF Reasons
<1>1. ~differs => Outcomes(c, SetRunState(c, FALSE))
  BY RunStateOutcomes
<1> DEFINE d == [c EXCEPT !.run = "off"]
<1>2. There(d) /\ (c.run # "on" => d = c)
  BY DEF There, Components
<1>3. Outcomes(c, Fails(c, "NiFiUpdateFailed", FALSE))
  BY <1>0, OneOutcome
<1>4. Outcomes(c, Fails(d, "NiFiUpdateFailed", c.run = "on"))
  <2>1. (c.run = "on") \in BOOLEAN
    OBVIOUS
  <2> HIDE DEF d
  <2>2. ~(c.run = "on") => d = c
    BY <1>2
  <2>3. QED
    BY <1>0, <1>2, <2>1, <2>2, OneOutcome
<1>5. \A e \in Configured(d) : Outcomes(c, SetRunState(e, TRUE))
  BY <1>2, ConfiguredIs, RunStateOutcomes
<1>6. CASE ~differs
  BY <1>1, <1>6 DEF StopUpdate
<1>7. CASE differs
  <2> DEFINE failed == Fails(d, "NiFiUpdateFailed", c.run = "on")
             stopping == IF c.run = "on" THEN Fails(c, "NiFiUpdateFailed", FALSE) ELSE {}
             updated == UNION {SetRunState(e, TRUE) : e \in Configured(d)}
  <2>1. StopUpdate(c, differs) = stopping \cup failed \cup updated
    BY <1>7, Zenon DEF StopUpdate
  <2>2. Outcomes(c, stopping)
    BY <1>3 DEF Outcomes
  <2>3. Outcomes(c, updated)
    BY <1>5 DEF Outcomes
  <2>4. Outcomes(c, failed)
    BY <1>4
  <2> HIDE DEF stopping, failed, updated
  <2>5. QED
    BY <2>1, <2>2, <2>3, <2>4 DEF Outcomes
<1>8. QED
  BY <1>6, <1>7

\* The path of an existing component, for every kind.
LEMMA ExistingOutcomes ==
  ASSUME TypeOK, Runs, NEW c, There(c)
  PROVE  /\ kind = "ProcessGroup" => Outcomes(c, ExistingProcessGroup(c))
         /\ kind = "Connection" => Outcomes(c, ExistingConnection(c))
         /\ kind = "Funnel" => Outcomes(c, ExistingFunnel(c))
         /\ kind = "Label" => Outcomes(c, ExistingLabel(c))
         /\ kind = "RegistryClient" => Outcomes(c, ExistingRegistryClient(c))
         /\ kind = "ParameterProvider" => Outcomes(c, ExistingParameterProvider(c))
         /\ Outcomes(c, ExistingProcessor(c))
         /\ Outcomes(c, ExistingInputPort(c)) /\ Outcomes(c, ExistingOutputPort(c))
         /\ Outcomes(c, ExistingControllerService(c)) /\ Outcomes(c, ExistingReportingTask(c))
<1>1. ComparesAll(c) \in BOOLEAN /\ (~ComparesAll(c) => c.cfg = spec.cfg)
  BY SpecTypes DEF ComparesAll
<1>2. ComparesGiven(c) \in BOOLEAN /\ (~ComparesGiven(c) => c.cfg = spec.cfg)
  BY DEF ComparesGiven
<1>3. kind \in {"ProcessGroup", "Connection", "Funnel", "Label", "RegistryClient", "ParameterProvider"}
        => kind \notin Running
  BY DEF Running
<1>4. kind \notin Running => /\ Outcomes(c, Update(c, ComparesAll(c)))
                             /\ Outcomes(c, Update(c, ComparesGiven(c)))
  BY <1>1, <1>2, UpdateOutcomes
<1>5. Outcomes(c, StopUpdate(c, ComparesAll(c))) /\ Outcomes(c, StopUpdate(c, ComparesGiven(c)))
  BY <1>1, <1>2, StopUpdateOutcomes
<1>6. QED
  BY <1>3, <1>4, <1>5
     DEF ExistingProcessGroup, ExistingConnection, ExistingFunnel, ExistingLabel,
         ExistingRegistryClient, ExistingParameterProvider, ExistingProcessor,
         ExistingInputPort, ExistingOutputPort, ExistingControllerService,
         ExistingReportingTask, ProcessGroupDiffers, ConnectionDiffers, FunnelDiffers,
         LabelDiffers, RegistryClientDiffers, ParameterProviderDiffers, ProcessorDiffers,
         PortDiffers, ControllerServiceDiffers, ReportingTaskDiffers

\* What NiFi answers to a create is there, and configured.
LEMMA CreatedIs ==
  ASSUME TypeOK, Runs, NEW c \in Created
  PROVE  There(c) /\ (kind \notin Running => Outcomes(c, Done(c)))
<1>1. PICK v \in Verdicts : c = [cfg |-> spec.cfg, run |-> "off", valid |-> v]
  BY DEF Created
<1>2. v \in {"VALID", "INVALID", "VALIDATING"}
  BY DEF Verdicts
<1>3. There(c) /\ c.cfg = spec.cfg /\ c.run = "off"
  BY <1>1, <1>2, SpecTypes DEF There, Components
<1>4. "Ready" \in Reasons
  BY DEF Reasons
<1>5. kind \notin Running => Outcomes(c, Ends(c, "Ready", FALSE))
  BY <1>3, <1>4, SpecTypes, OneOutcome
<1>6. QED
  BY <1>3, <1>5 DEF Done

-----------------------------------------------------------------------------
(* What a reconcile does to the status and to NiFi *)

\* The types, and that every id that is saved is known.
Typed ==
  /\ status' \in Statuses /\ queued' \in BOOLEAN /\ fresh' \in BOOLEAN
  /\ faults' \in 0..MaxFaults /\ losses' \in 0..MaxFaults
  /\ known' = known \cup ({status'.id} \ {None})

\* The status says for this generation why the resource is not ready.
Unreadied == status'.id = status.id /\ ~status'.ready /\ status'.gen = spec.gen

\* NiFi is left alone.
Rested ==
  /\ Typed /\ UNCHANGED <<nifi, made>>
  /\ Unreadied \/ (status' = status /\ (status.ready /\ fresh' => fresh))

\* The component that is written to: that of the status, one that is adopted or one that is
\* made, while the status names none that is there.
Touched(id) ==
  \/ id = status.id /\ Exists(id) /\ made' = made
  \/ spec.adopt /\ id = Foreign /\ Exists(id) /\ NoneThere /\ made' = made
  \/ id = made + 2 /\ made < MaxMade /\ made' = made + 1 /\ NoneThere

\* It becomes d, and the status is Ready with it, or not Ready, or not saved: then its
\* revision is no longer NiFi's if d is another.
Worked(id, d) ==
  /\ Typed /\ There(d) /\ nifi' = [nifi EXCEPT ![id] = d] /\ Touched(id)
  /\ \/ status' = MarkReady(id) /\ d.cfg = spec.cfg /\ d.run = spec.run
     \/ Unreadied
     \/ status' = status /\ (status.ready /\ fresh' => fresh /\ (id = status.id => d = nifi[id]))

Advanced == Rested \/ \E id \in Ids : \E d : Worked(id, d)

\* A status that is saved, or not: what it leaves.
LEMMA SaveDoes ==
  ASSUME TypeOK, IdsKnown, NEW s \in Statuses, NEW again \in BOOLEAN, NEW wrote \in BOOLEAN,
         Save(s, again, wrote)
  PROVE  /\ status' \in Statuses /\ queued' \in BOOLEAN /\ fresh' \in BOOLEAN
         /\ losses' \in 0..MaxFaults
         /\ known' = known \cup ({status'.id} \ {None})
         /\ \/ status' = s
            \/ status' = status /\ (status.ready /\ fresh' => fresh /\ ~wrote)
<1>1. status \in Statuses /\ fresh \in BOOLEAN /\ losses \in 0..MaxFaults /\ faults \in 0..MaxFaults
  BY DEF TypeOK
<1>2. known = known \cup ({status.id} \ {None})
  BY DEF IdsKnown
<1>3. (fresh /\ ~wrote) \in BOOLEAN /\ s.ready \in BOOLEAN /\ (s.ready \/ (fresh /\ ~wrote)) \in BOOLEAN
  BY <1>1, Zenon DEF Statuses
<1> DEFINE current == fresh /\ ~wrote
<1>4. current \in BOOLEAN /\ (current => fresh /\ ~wrote)
  BY <1>3
<1>5. CASE s = status /\ queued' = again /\ fresh' = current /\ UNCHANGED <<status, known, losses>>
  BY <1>1, <1>2, <1>3, <1>5
<1>6. CASE /\ status' = s /\ queued' = TRUE /\ fresh' = (s.ready \/ current)
           /\ known' = known \cup ({s.id} \ {None}) /\ UNCHANGED losses
  BY <1>1, <1>3, <1>6
<1>7. CASE Lost /\ queued' = TRUE /\ fresh' = current /\ UNCHANGED <<status, known>>
  <2>1. losses' \in 0..MaxFaults
    BY <1>1, <1>7, BoundsAssumption DEF Lost
  <2>2. QED
    BY <1>1, <1>2, <1>3, <1>7, <2>1
<1>8. QED
  BY <1>5, <1>6, <1>7, Zenon DEF Save

\* The statuses that are written.
LEMMA MarkTypes ==
  ASSUME TypeOK, Runs, Gens
  PROVE  /\ \A id \in Ids : /\ MarkReady(id) \in Statuses /\ MarkReady(id).id = id
                            /\ MarkReady(id).gen = spec.gen /\ MarkReady(id).ready
         /\ \A why \in Reasons : /\ MarkNotReady(why) \in Statuses
                                 /\ MarkNotReady(why).id = status.id
                                 /\ MarkNotReady(why).gen = spec.gen /\ ~MarkNotReady(why).ready
         /\ \A deps \in SUBSET Deps : /\ MarkWaiting(deps) \in Statuses
                                      /\ MarkWaiting(deps).id = status.id
                                      /\ MarkWaiting(deps).gen = spec.gen /\ ~MarkWaiting(deps).ready
<1>1. status \in Statuses /\ spec.gen \in 0..MaxEdits /\ spec.gen \in -1..MaxEdits
  BY SpecTypes, BoundsAssumption DEF TypeOK
<1>2. \A id \in Ids : id \in 0..(MaxMade + 1)
  BY BoundsAssumption DEF Ids
<1>3. "Ready" \in Reasons /\ "WaitingForDependencies" \in Reasons
  BY DEF Reasons
<1>4. QED
  BY <1>1, <1>2, <1>3 DEF Statuses, MarkReady, MarkNotReady, MarkWaiting

\* A fault is counted.
LEMMA FailingTypes ==
  ASSUME TypeOK, Failing \/ UNCHANGED faults
  PROVE  faults' \in 0..MaxFaults
BY BoundsAssumption DEF TypeOK, Failing

\* Waiting, and an error without a call that wrote, leave NiFi alone.
LEMMA Rests ==
  ASSUME TypeOK, IdsKnown, Runs, Gens,
         \/ \E deps : Await(deps)
         \/ \E why \in Reasons : NotReady(why) /\ (Failing \/ UNCHANGED faults)
  PROVE  Rested
<1>1. CASE \E deps : Await(deps)
  <2>1. PICK deps : Await(deps)
    BY <1>1
  <2>2. Save(MarkWaiting(unready \cap deps), FALSE, FALSE) /\ UNCHANGED <<nifi, made, faults>>
    BY <2>1 DEF Await
  <2>3. unready \cap deps \in SUBSET Deps
    BY DEF TypeOK
  <2> DEFINE s == MarkWaiting(unready \cap deps)
  <2>4. s \in Statuses /\ s.id = status.id /\ s.gen = spec.gen /\ ~s.ready
    BY <2>3, MarkTypes
  <2> HIDE DEF s
  <2>5. Save(s, FALSE, FALSE)
    BY <2>2 DEF s
  <2>6. QED
    BY <2>2, <2>4, <2>5, SaveDoes DEF Rested, Typed, Unreadied, TypeOK
<1>2. CASE \E why \in Reasons : NotReady(why) /\ (Failing \/ UNCHANGED faults)
  <2>1. PICK why \in Reasons : NotReady(why) /\ (Failing \/ UNCHANGED faults)
    BY <1>2
  <2> DEFINE s == MarkNotReady(why)
  <2>2. s \in Statuses /\ s.id = status.id /\ s.gen = spec.gen /\ ~s.ready
    BY MarkTypes
  <2>3. Save(s, TRUE, FALSE) /\ UNCHANGED <<nifi, made>>
    BY <2>1 DEF NotReady
  <2>4. faults' \in 0..MaxFaults
    BY <2>1, FailingTypes
  <2> HIDE DEF s
  <2>5. QED
    BY <2>2, <2>3, <2>4, SaveDoes DEF Rested, Typed, Unreadied
<1>3. QED
  BY <1>1, <1>2

\* The end of a reconcile that has called NiFi for component id.
LEMMA ConcludeDoes ==
  ASSUME TypeOK, IdsKnown, Runs, Gens, NEW id \in Ids, NEW o, Outcome(nifi[id], o),
         Conclude(id, o), nifi' = [nifi EXCEPT ![id] = o.c], Touched(id)
  PROVE  Worked(id, o.c)
<1>1. There(o.c) /\ o.why \in Reasons /\ o.bad \in BOOLEAN /\ o.wrote \in BOOLEAN
  BY DEF Outcome
<1>2. (~o.wrote => o.c = nifi[id]) /\ (o.why = "Ready" => o.c.cfg = spec.cfg /\ o.c.run = spec.run)
  BY DEF Outcome
<1>3. faults' \in 0..MaxFaults
  BY FailingTypes DEF Conclude
<1> DEFINE wrote == o.wrote /\ id = status.id
<1>4. wrote \in BOOLEAN /\ (~wrote => (id = status.id => o.c = nifi[id]))
  BY <1>1, <1>2, Zenon
<1>5. CASE o.why = "Ready" /\ Save(MarkReady(id), FALSE, wrote)
  <2>1. MarkReady(id) \in Statuses
    BY MarkTypes
  <2> HIDE DEF wrote
  <2>2. QED
    BY <1>1, <1>2, <1>3, <1>4, <1>5, <2>1, SaveDoes DEF Worked, Typed
<1>6. CASE queued' = TRUE /\ fresh' = (fresh /\ ~wrote) /\ UNCHANGED <<status, known, losses>>
  <2>1. known' = known \cup ({status'.id} \ {None})
    BY <1>6 DEF IdsKnown
  <2>2. fresh \in BOOLEAN /\ status' \in Statuses /\ losses' \in 0..MaxFaults
    BY <1>6 DEF TypeOK
  <2> HIDE DEF wrote
  <2>3. fresh' \in BOOLEAN /\ (fresh' => fresh /\ ~wrote)
    BY <1>6
  <2>4. QED
    BY <1>1, <1>3, <1>4, <1>6, <2>1, <2>2, <2>3 DEF Worked, Typed
<1>7. CASE Save(MarkNotReady(o.why), TRUE, wrote)
  <2> DEFINE s == MarkNotReady(o.why)
  <2>1. s \in Statuses /\ s.id = status.id /\ s.gen = spec.gen /\ ~s.ready
    BY <1>1, MarkTypes
  <2> HIDE DEF s, wrote
  <2>2. Save(s, TRUE, wrote)
    BY <1>7 DEF s
  <2>3. QED
    BY <1>1, <1>3, <1>4, <2>1, <2>2, SaveDoes DEF Worked, Typed, Unreadied
<1>8. QED
  BY <1>5, <1>6, <1>7 DEF Conclude

\* The status's component, if it is there, can be worked on.
LEMMA IdTypes ==
  ASSUME TypeOK, IdsKnown, Runs
  PROVE  /\ status.id # None => status.id \in Ids /\ status.id # made + 2
         /\ Foreign \in Ids /\ \A id \in Ids : Exists(id) => There(nifi[id])
         /\ made < MaxMade => made + 2 \in Ids /\ made + 1 \in 0..MaxMade
<1>1. made \in 0..MaxMade
  BY DEF TypeOK
<1>2. status.id \in 1..(made + 1) \cup {None}
  BY DEF IdsKnown
<1>3. nifi \in [Ids -> Components]
  BY DEF TypeOK
<1>4. QED
  BY <1>1, <1>2, <1>3, BoundsAssumption DEF Ids, Foreign, None, There, Exists, Runs

\* Each of the outcomes of calls ends the reconcile as ConcludeDoes says.
LEMMA ApplyDoes ==
  ASSUME TypeOK, IdsKnown, Runs, Gens, NEW id \in Ids, NEW O, Outcomes(nifi[id], O),
         Apply(id, O), made' = made => Touched(id)
  PROVE  Advanced
<1>1. PICK o \in O : nifi' = [nifi EXCEPT ![id] = o.c] /\ Conclude(id, o) /\ made' = made
  BY DEF Apply
<1>2. Outcome(nifi[id], o)
  BY DEF Outcomes
<1>3. Worked(id, o.c)
  BY <1>1, <1>2, ConcludeDoes
<1>4. QED
  BY <1>3 DEF Advanced

\* The reconcile of a component with an id advances.
LEMMA ByIdDoes ==
  ASSUME TypeOK, IdsKnown, Runs, Gens, NEW O, There(It) => Outcomes(It, O),
         ById(O) \/ ByIdIfThere(O)
  PROVE  Advanced
<1>0. status.id \in Ids
  BY IdTypes DEF ById, ByIdIfThere
<1>1. "NiFiGetFailed" \in Reasons
  BY DEF Reasons
<1>2. CASE Exists(status.id) /\ Apply(status.id, O)
  <2>1. Outcomes(nifi[status.id], O)
    BY <1>0, <1>2, IdTypes DEF It
  <2>2. made' = made => Touched(status.id)
    BY <1>2 DEF Touched
  <2>3. QED
    BY <1>0, <1>2, <2>1, <2>2, ApplyDoes
<1>3. CASE NotReady("NiFiGetFailed") /\ (Failing \/ UNCHANGED faults)
  BY <1>1, <1>3, Rests DEF Advanced
<1>4. QED
  BY <1>2, <1>3 DEF ById, ByIdIfThere, GetFails

\* Adoption advances.
LEMMA AdoptDoes ==
  ASSUME TypeOK, IdsKnown, Runs, Gens, NEW O, There(Theirs) => Outcomes(Theirs, O),
         NoId \/ NoneThere, Adopt(O)
  PROVE  Advanced
<1>1. "AdoptionFailed" \in Reasons
  BY DEF Reasons
<1>2. NoneThere
  BY DEF NoneThere, NoId
<1>3. CASE Exists(Foreign) /\ Apply(Foreign, O)
  <2>1. Foreign \in Ids /\ Outcomes(nifi[Foreign], O)
    BY <1>3, IdTypes DEF Theirs
  <2>2. made' = made => Touched(Foreign)
    BY <1>2, <1>3 DEF Touched, Adopt
  <2>3. QED
    BY <1>3, <2>1, <2>2, ApplyDoes
<1>4. CASE NotReady("AdoptionFailed") /\ (Failing \/ UNCHANGED faults)
  BY <1>1, <1>4, Rests DEF Advanced
<1>5. QED
  BY <1>3, <1>4 DEF Adopt, GetFails

\* A create advances, though its answer may be lost. What it made is another component
\* than was at its place: its outcomes are those of the new one.
LEMMA CreateDoes ==
  ASSUME TypeOK, IdsKnown, Runs, Gens, NEW c \in Created, NEW O, Outcomes(c, O),
         NoId \/ NoneThere, Create(c, O)
  PROVE  Advanced
<1>1. "NiFiCreateFailed" \in Reasons
  BY DEF Reasons
<1>2. NoneThere /\ made < MaxMade /\ There(c)
  BY CreatedIs DEF NoneThere, NoId, Create
<1>3. made + 2 \in Ids /\ made + 2 # status.id
  BY <1>2, BoundsAssumption, IdTypes DEF None, TypeOK
<1>4. CASE GetFails("NiFiCreateFailed")
  BY <1>1, <1>4, Rests DEF Advanced, GetFails
<1>5. ASSUME made' = made + 1, NEW o \in O, nifi' = [nifi EXCEPT ![made + 2] = o.c],
             Conclude(made + 2, o)
      PROVE  Advanced
  <2> DEFINE id == made + 2
  <2>1. There(o.c) /\ o.why \in Reasons /\ o.bad \in BOOLEAN /\ o.wrote \in BOOLEAN
        /\ (o.why = "Ready" => o.c.cfg = spec.cfg /\ o.c.run = spec.run)
    BY DEF Outcomes, Outcome
  <2>2. Touched(id)
    BY <1>2, <1>5 DEF Touched
  <2>3. faults' \in 0..MaxFaults
    BY <1>5, FailingTypes DEF Conclude
  <2>4. (o.wrote /\ id = status.id) = FALSE
    BY <1>3
  <2>5. \/ o.why = "Ready" /\ Save(MarkReady(id), FALSE, FALSE)
        \/ queued' = TRUE /\ fresh' = (fresh /\ ~FALSE) /\ UNCHANGED <<status, known, losses>>
        \/ Save(MarkNotReady(o.why), TRUE, FALSE)
    BY <1>5, <2>4 DEF Conclude
  <2>6. CASE o.why = "Ready" /\ Save(MarkReady(id), FALSE, FALSE)
    <3>1. MarkReady(id) \in Statuses
      BY <1>3, MarkTypes
    <3>2. QED
      BY <1>3, <1>5, <2>1, <2>2, <2>3, <2>6, <3>1, SaveDoes DEF Worked, Typed, Advanced
  <2>7. CASE queued' = TRUE /\ fresh' = (fresh /\ ~FALSE) /\ UNCHANGED <<status, known, losses>>
    <3>1. known' = known \cup ({status'.id} \ {None})
      BY <2>7 DEF IdsKnown
    <3>2. fresh \in BOOLEAN /\ status' \in Statuses /\ losses' \in 0..MaxFaults
      BY <2>7 DEF TypeOK
    <3>3. QED
      BY <1>3, <1>5, <2>1, <2>2, <2>3, <2>7, <3>1, <3>2 DEF Worked, Typed, Advanced
  <2>8. CASE Save(MarkNotReady(o.why), TRUE, FALSE)
    <3> DEFINE s == MarkNotReady(o.why)
    <3>1. s \in Statuses /\ s.id = status.id /\ s.gen = spec.gen /\ ~s.ready
      BY <2>1, MarkTypes
    <3> HIDE DEF s
    <3>2. Save(s, TRUE, FALSE)
      BY <2>8 DEF s
    <3>3. QED
      BY <1>3, <1>5, <2>1, <2>2, <2>3, <3>1, <3>2, SaveDoes DEF Worked, Typed, Unreadied, Advanced
  <2>9. QED
    BY <2>5, <2>6, <2>7, <2>8
<1>6. CASE /\ made' = made + 1 /\ Failing /\ nifi' = [nifi EXCEPT ![made + 2] = c]
           /\ Save(MarkNotReady("NiFiCreateFailed"), TRUE, FALSE)
  <2>1. Touched(made + 2)
    BY <1>2, <1>6 DEF Touched
  <2> DEFINE s == MarkNotReady("NiFiCreateFailed")
  <2>2. s \in Statuses /\ s.id = status.id /\ s.gen = spec.gen /\ ~s.ready
    BY <1>1, MarkTypes
  <2>3. faults' \in 0..MaxFaults
    BY <1>6, FailingTypes
  <2> HIDE DEF s
  <2>4. Save(s, TRUE, FALSE)
    BY <1>6 DEF s
  <2>5. QED
    BY <1>2, <1>3, <1>6, <2>1, <2>2, <2>3, <2>4, SaveDoes DEF Worked, Typed, Unreadied, Advanced
<1>7. QED
  BY <1>4, <1>5, <1>6 DEF Create

-----------------------------------------------------------------------------
(* The reconcilers and the deletions of every kind *)

\* Reconcilers of kinds without a run state advance.
LEMMA PlainReconcilers ==
  ASSUME TypeOK, IdsKnown, Runs, Gens,
         \/ ReconcileProcessGroup \/ ReconcileConnection \/ ReconcileFunnel
         \/ ReconcileLabel \/ ReconcileRegistryClient \/ ReconcileParameterProvider
  PROVE  Advanced /\ life = "live" /\ UNCHANGED <<resource, world>>
<1>0. /\ kind = "ProcessGroup" => kind \notin Running
      /\ kind = "Connection" => kind \notin Running
      /\ kind = "Funnel" => kind \notin Running
      /\ kind = "Label" => kind \notin Running
      /\ kind = "RegistryClient" => kind \notin Running
      /\ kind = "ParameterProvider" => kind \notin Running
  BY DEF Running
<1>a. (\E deps : Await(deps)) => Advanced
  BY Rests DEF Advanced
<1>b. \A c \in Created : kind \notin Running => Outcomes(c, Done(c))
  BY CreatedIs
<1>1. CASE ReconcileProcessGroup
  <2>1. kind = "ProcessGroup" /\ life = "live" /\ UNCHANGED <<resource, world>>
    BY <1>1 DEF ReconcileProcessGroup, Turn
  <2>2. /\ There(It) => Outcomes(It, ExistingProcessGroup(It))
        /\ There(Theirs) => Outcomes(Theirs, ExistingProcessGroup(Theirs))
    BY <2>1, ExistingOutcomes
  <2>3. \A c \in Created : Outcomes(c, Done(c))
    BY <1>0, <1>b, <2>1
  <2>4. \/ \E deps : Await(deps)
        \/ ById(ExistingProcessGroup(It))
        \/ NoId /\ Adopt(ExistingProcessGroup(Theirs))
        \/ NoId /\ \E c \in Created : Create(c, Done(c))
    BY <1>1 DEF ReconcileProcessGroup
  <2>5. QED
    BY <1>a, <2>1, <2>2, <2>3, <2>4, ByIdDoes, AdoptDoes, CreateDoes
<1>2. CASE ReconcileConnection
  <2>1. kind = "Connection" /\ life = "live" /\ UNCHANGED <<resource, world>>
    BY <1>2 DEF ReconcileConnection, Turn
  <2>2. There(It) => Outcomes(It, ExistingConnection(It))
    BY <2>1, ExistingOutcomes
  <2>3. \A c \in Created : Outcomes(c, Done(c))
    BY <1>0, <1>b, <2>1
  <2>4. \/ \E deps : Await(deps)
        \/ ById(ExistingConnection(It))
        \/ NoId /\ \E c \in Created : Create(c, Done(c))
    BY <1>2 DEF ReconcileConnection
  <2>5. QED
    BY <1>a, <2>1, <2>2, <2>3, <2>4, ByIdDoes, CreateDoes
<1>3. CASE ReconcileFunnel
  <2>1. kind = "Funnel" /\ life = "live" /\ UNCHANGED <<resource, world>>
    BY <1>3 DEF ReconcileFunnel, Turn
  <2>2. There(It) => Outcomes(It, ExistingFunnel(It))
    BY <2>1, ExistingOutcomes
  <2>3. \A c \in Created : Outcomes(c, Done(c))
    BY <1>0, <1>b, <2>1
  <2>4. \/ \E deps : Await(deps)
        \/ ById(ExistingFunnel(It))
        \/ NoId /\ \E c \in Created : Create(c, Done(c))
    BY <1>3 DEF ReconcileFunnel
  <2>5. QED
    BY <1>a, <2>1, <2>2, <2>3, <2>4, ByIdDoes, CreateDoes
<1>4. CASE ReconcileLabel
  <2>1. kind = "Label" /\ life = "live" /\ UNCHANGED <<resource, world>>
    BY <1>4 DEF ReconcileLabel, Turn
  <2>2. There(It) => Outcomes(It, ExistingLabel(It))
    BY <2>1, ExistingOutcomes
  <2>3. \A c \in Created : Outcomes(c, Done(c))
    BY <1>0, <1>b, <2>1
  <2>4. \/ \E deps : Await(deps)
        \/ ById(ExistingLabel(It))
        \/ NoId /\ \E c \in Created : Create(c, Done(c))
    BY <1>4 DEF ReconcileLabel
  <2>5. QED
    BY <1>a, <2>1, <2>2, <2>3, <2>4, ByIdDoes, CreateDoes
<1>5. CASE ReconcileRegistryClient
  <2>1. kind = "RegistryClient" /\ life = "live" /\ UNCHANGED <<resource, world>>
    BY <1>5 DEF ReconcileRegistryClient, Turn
  <2>2. /\ There(It) => Outcomes(It, ExistingRegistryClient(It))
        /\ There(Theirs) => Outcomes(Theirs, ExistingRegistryClient(Theirs))
    BY <2>1, ExistingOutcomes
  <2>3. \A c \in Created : Outcomes(c, Done(c))
    BY <1>0, <1>b, <2>1
  <2>4. \/ \E deps : Await(deps)
        \/ ById(ExistingRegistryClient(It))
        \/ NoId /\ Adopt(ExistingRegistryClient(Theirs))
        \/ NoId /\ \E c \in Created : Create(c, Done(c))
    BY <1>5 DEF ReconcileRegistryClient
  <2>5. QED
    BY <1>a, <2>1, <2>2, <2>3, <2>4, ByIdDoes, AdoptDoes, CreateDoes
<1>6. CASE ReconcileParameterProvider
  <2>1. kind = "ParameterProvider" /\ life = "live" /\ UNCHANGED <<resource, world>>
    BY <1>6 DEF ReconcileParameterProvider, Turn
  <2>2. \A c : There(c) => Outcomes(c, ExistingParameterProvider(c))
    BY <2>1, ExistingOutcomes
  <2>3. \A c \in Created : Outcomes(c, ExistingParameterProvider(c))
    BY <2>2, CreatedIs
  <2>4. \/ \E deps : Await(deps)
        \/ ByIdIfThere(ExistingParameterProvider(It))
        \/ NoneThere /\ Adopt(ExistingParameterProvider(Theirs))
        \/ NoneThere /\ \E c \in Created : Create(c, ExistingParameterProvider(c))
    BY <1>6 DEF ReconcileParameterProvider
  <2>5. QED
    BY <1>a, <2>1, <2>2, <2>3, <2>4, ByIdDoes, AdoptDoes, CreateDoes
<1>7. QED
  BY <1>1, <1>2, <1>3, <1>4, <1>5, <1>6

\* Reconcilers of kinds with a run state advance.
LEMMA RunningReconcilers ==
  ASSUME TypeOK, IdsKnown, Runs, Gens,
         \/ ReconcileProcessor \/ ReconcileInputPort \/ ReconcileOutputPort
         \/ ReconcileControllerService \/ ReconcileReportingTask
  PROVE  Advanced /\ life = "live" /\ UNCHANGED <<resource, world>>
<1>a. (\E deps : Await(deps)) => Advanced
  BY Rests DEF Advanced
<1>b. \A c \in Created : There(c)
  BY CreatedIs
<1>c. \A c : There(c) =>
        /\ Outcomes(c, ExistingProcessor(c))
        /\ Outcomes(c, ExistingInputPort(c)) /\ Outcomes(c, ExistingOutputPort(c))
        /\ Outcomes(c, ExistingControllerService(c)) /\ Outcomes(c, ExistingReportingTask(c))
  BY ExistingOutcomes
<1>1. CASE ReconcileProcessor
  <2>1. life = "live" /\ UNCHANGED <<resource, world>>
    BY <1>1 DEF ReconcileProcessor, Turn
  <2>2. \/ \E deps : Await(deps)
        \/ ById(ExistingProcessor(It))
        \/ NoId /\ Adopt(ExistingProcessor(Theirs))
        \/ NoId /\ \E c \in Created : Create(c, ExistingProcessor(c))
    BY <1>1 DEF ReconcileProcessor
  <2>3. QED
    BY <1>a, <1>b, <1>c, <2>1, <2>2, ByIdDoes, AdoptDoes, CreateDoes
<1>2. CASE ReconcileInputPort
  <2>1. life = "live" /\ UNCHANGED <<resource, world>>
    BY <1>2 DEF ReconcileInputPort, Turn
  <2>2. \/ \E deps : Await(deps)
        \/ ById(ExistingInputPort(It))
        \/ NoId /\ \E c \in Created : Create(c, ExistingInputPort(c))
    BY <1>2 DEF ReconcileInputPort
  <2>3. QED
    BY <1>a, <1>b, <1>c, <2>1, <2>2, ByIdDoes, CreateDoes
<1>3. CASE ReconcileOutputPort
  <2>1. life = "live" /\ UNCHANGED <<resource, world>>
    BY <1>3 DEF ReconcileOutputPort, Turn
  <2>2. \/ \E deps : Await(deps)
        \/ ById(ExistingOutputPort(It))
        \/ NoId /\ \E c \in Created : Create(c, ExistingOutputPort(c))
    BY <1>3 DEF ReconcileOutputPort
  <2>3. QED
    BY <1>a, <1>b, <1>c, <2>1, <2>2, ByIdDoes, CreateDoes
<1>4. CASE ReconcileControllerService
  <2>1. life = "live" /\ UNCHANGED <<resource, world>>
    BY <1>4 DEF ReconcileControllerService, Turn
  <2>2. \/ \E deps : Await(deps)
        \/ ById(ExistingControllerService(It))
        \/ NoId /\ Adopt(ExistingControllerService(Theirs))
        \/ NoId /\ \E c \in Created : Create(c, ExistingControllerService(c))
    BY <1>4 DEF ReconcileControllerService
  <2>3. QED
    BY <1>a, <1>b, <1>c, <2>1, <2>2, ByIdDoes, AdoptDoes, CreateDoes
<1>5. CASE ReconcileReportingTask
  <2>1. life = "live" /\ UNCHANGED <<resource, world>>
    BY <1>5 DEF ReconcileReportingTask, Turn
  <2>2. \/ \E deps : Await(deps)
        \/ ByIdIfThere(ExistingReportingTask(It))
        \/ NoneThere /\ Adopt(ExistingReportingTask(Theirs))
        \/ NoneThere /\ \E c \in Created : Create(c, ExistingReportingTask(c))
    BY <1>5 DEF ReconcileReportingTask
  <2>3. QED
    BY <1>a, <1>b, <1>c, <2>1, <2>2, ByIdDoes, AdoptDoes, CreateDoes
<1>6. QED
  BY <1>1, <1>2, <1>3, <1>4, <1>5

\* An outcome of the calls that delete component c: it is not made again, and it is gone if
\* the outcome is that it was deleted.
Removal(c, o) ==
  /\ o.c \in Components /\ (kind \notin Running => o.c.run # "on")
  /\ o.c.run # "absent" => c.run # "absent"
  /\ o.wrote \in BOOLEAN /\ (~o.wrote => o.c = c)
  /\ o.why = "Deleted" => o.c = Absent

Removals(c, O) == \A o \in O : Removal(c, o)

\* The calls that delete, for every kind.
LEMMA RemoveOutcomes ==
  ASSUME NEW c \in Components, kind \notin Running => c.run # "on"
  PROVE  Removals(c, Remove(c)) /\ Removals(c, StopRemove(c)) /\ Removals(c, RemoveAsSeen(c))
<1>1. Absent \in Components /\ Absent.run = "absent"
  BY DEF Absent, Components
<1>2. [c EXCEPT !.run = "off"] \in Components /\ [c EXCEPT !.run = "off"].run = "off"
  BY DEF Components
<1>3. /\ Removals(c, Ends(c, "Refused", FALSE)) /\ Removals(c, Fails(c, "Failed", FALSE))
      /\ Removals(c, Ends(Absent, "Deleted", TRUE))
      /\ c.run = "on" => Removals(c, Fails([c EXCEPT !.run = "off"], "Failed", TRUE))
  BY <1>1, <1>2 DEF Removals, Removal, Ends, Fails
<1>4. Removals(c, Remove(c))
  BY <1>3 DEF Remove, Removals
<1>5. Removals(c, StopRemove(c))
  BY <1>3, <1>4 DEF StopRemove, Removals
<1>6. Removals(c, RemoveAsSeen(c))
  BY <1>3, <1>4 DEF RemoveAsSeen
<1>7. QED
  BY <1>4, <1>5, <1>6

\* What a reconcile of a resource that is being deleted does: nothing but drop what is
\* kept; or take out the component, and it is gone before the resource is.
Cleared ==
  /\ life = "deleting" /\ UNCHANGED <<kind, spec, status, world, made, known>>
  /\ queued' \in BOOLEAN /\ fresh' \in BOOLEAN /\ life' \in {"deleting", "gone"}
  /\ faults' \in 0..MaxFaults /\ losses' \in 0..MaxFaults
  /\ fresh' => fresh
  /\ \/ nifi' = nifi /\ (life' = "gone" => Keeps)
     \/ /\ spec.delete /\ status.id # None
        /\ \E o : /\ Removal(It, o) /\ nifi' = [nifi EXCEPT ![status.id] = o.c]
                  /\ fresh' => o.c = It
                  /\ life' = "gone" => o.c = Absent

\* Delete does so.
LEMMA DeleteDoes ==
  ASSUME TypeOK, life = "deleting", NEW O, status.id # None => Removals(It, O), Delete(O)
  PROVE  Cleared
<1>1. UNCHANGED <<kind, spec, status, world, made, known>>
  BY DEF Delete
<1>2. queued \in BOOLEAN /\ fresh \in BOOLEAN /\ losses \in 0..MaxFaults /\ faults \in 0..MaxFaults
  BY DEF TypeOK
<1>3. (DropFinalizer \/ UNCHANGED <<life, queued, losses>>) =>
        /\ queued' \in BOOLEAN /\ life' \in {"deleting", "gone"}
        /\ losses' \in 0..MaxFaults
  <2>1. Lost => losses' \in 0..MaxFaults
    BY <1>2, BoundsAssumption DEF Lost
  <2>2. QED
    BY <1>2, <2>1 DEF DropFinalizer
<1>4. CASE Keeps /\ DropFinalizer /\ UNCHANGED <<nifi, faults, fresh>>
  BY <1>1, <1>2, <1>3, <1>4 DEF Cleared
<1>5. CASE /\ ~Keeps
           /\ \E o \in O :
                /\ nifi' = [nifi EXCEPT ![status.id] = o.c]
                /\ fresh' = (fresh /\ ~o.wrote)
                /\ IF o.bad THEN Failing ELSE UNCHANGED faults
                /\ IF o.why = "Deleted" THEN DropFinalizer ELSE UNCHANGED <<life, queued, losses>>
  <2>1. PICK o \in O :
          /\ nifi' = [nifi EXCEPT ![status.id] = o.c]
          /\ fresh' = (fresh /\ ~o.wrote)
          /\ IF o.bad THEN Failing ELSE UNCHANGED faults
          /\ IF o.why = "Deleted" THEN DropFinalizer ELSE UNCHANGED <<life, queued, losses>>
    BY <1>5
  <2>2. spec.delete /\ status.id # None
    BY <1>5 DEF Keeps
  <2>3. Removal(It, o)
    BY <2>2 DEF Removals
  <2>4. o.wrote \in BOOLEAN /\ (~o.wrote => o.c = It) /\ (o.why = "Deleted" => o.c = Absent)
    BY <2>3 DEF Removal
  <2>5. fresh' \in BOOLEAN /\ (fresh' => fresh /\ ~o.wrote)
    BY <1>2, <2>1, <2>4
  <2>6. faults' \in 0..MaxFaults
    BY <2>1, FailingTypes
  <2>7. life' = "gone" => o.why = "Deleted"
    BY <2>1
  <2>8. QED
    BY <1>1, <1>3, <2>1, <2>2, <2>3, <2>4, <2>5, <2>6, <2>7 DEF Cleared
<1>6. QED
  BY <1>4, <1>5 DEF Delete

\* Deletions of every kind.
LEMMA Deletions ==
  ASSUME TypeOK, IdsKnown, Runs,
         \/ DeleteProcessGroup \/ DeleteConnection \/ DeleteFunnel \/ DeleteLabel
         \/ DeleteRegistryClient \/ DeleteParameterProvider
         \/ DeleteProcessor \/ DeleteInputPort \/ DeleteOutputPort
         \/ DeleteControllerService \/ DeleteReportingTask
  PROVE  Cleared
<1>1. status.id # None => It \in Components /\ (kind \notin Running => It.run # "on")
  BY IdTypes DEF It, TypeOK, Runs
<1>2. status.id # None => /\ Removals(It, Remove(It)) /\ Removals(It, StopRemove(It))
                          /\ Removals(It, RemoveAsSeen(It))
  BY <1>1, RemoveOutcomes
<1>3. life = "deleting"
  BY DEF DeleteProcessGroup, DeleteConnection, DeleteFunnel, DeleteLabel, DeleteRegistryClient,
    DeleteParameterProvider, DeleteProcessor, DeleteInputPort, DeleteOutputPort,
    DeleteControllerService, DeleteReportingTask, Deleting
<1>4. Delete(Remove(It)) \/ Delete(StopRemove(It)) \/ Delete(RemoveAsSeen(It))
  BY DEF DeleteProcessGroup, DeleteConnection, DeleteFunnel, DeleteLabel, DeleteRegistryClient,
    DeleteParameterProvider, DeleteProcessor, DeleteInputPort, DeleteOutputPort,
    DeleteControllerService, DeleteReportingTask
<1>5. QED
  BY <1>2, <1>3, <1>4, DeleteDoes

-----------------------------------------------------------------------------
(* The invariant is kept *)

\* The status never lets go of a component that is there.
Holds == status.id # None /\ status'.id # status.id => ~Exists(status.id)

\* Reconciles keep the invariant.
LEMMA ReconcilesKeep ==
  ASSUME ComponentInv, Advanced, life = "live", UNCHANGED <<resource, world>>
  PROVE  ComponentInv' /\ Holds
<1> USE DEF ComponentInv
<1>0. /\ UNCHANGED <<kind, spec, life, unready, gone, edits, meddles>>
      /\ nifi \in [Ids -> Components] /\ made \in 0..MaxMade
  BY DEF resource, world, TypeOK
<1>1. CASE Rested
  <2>1. Typed /\ UNCHANGED <<nifi, made>> /\ status'.id = status.id
    BY <1>1 DEF Rested, Unreadied
  <2>2. known' = known
    BY <2>1 DEF Typed, IdsKnown
  <2>3. TypeOK'
    BY <1>0, <2>1, <2>2 DEF TypeOK, Typed
  <2>4. Unreadied \/ (status' = status /\ (status.ready /\ fresh' => fresh))
    BY <1>1 DEF Rested
  <2>5. IdsKnown'
    BY <1>0, <2>1, <2>2, <2>4 DEF IdsKnown, Unreadied, Exists
  <2>6. Gens' /\ Runs' /\ Foreigns'
    BY <1>0, <2>1, <2>2, <2>4, SpecTypes DEF Gens, Runs, Foreigns, Unreadied
  <2>7. ReadyIsTrue'
    BY <1>0, <2>1, <2>4 DEF ReadyIsTrue, Unreadied, It
  <2>8. DeletionIsExact'
    BY <1>0, <2>1, <2>2 DEF DeletionIsExact, DeletedMeansGone, OthersPreserved, Exists
  <2>9. QED
    BY <2>1, <2>3, <2>5, <2>6, <2>7, <2>8 DEF Holds
<1>2. ASSUME NEW id \in Ids, NEW d, Worked(id, d)
      PROVE  ComponentInv' /\ Holds
  <2>1. Typed /\ There(d) /\ nifi' = [nifi EXCEPT ![id] = d] /\ Touched(id)
    BY <1>2 DEF Worked
  <2>2. \/ status' = MarkReady(id) /\ d.cfg = spec.cfg /\ d.run = spec.run
        \/ Unreadied
        \/ status' = status /\ (status.ready /\ fresh' => fresh /\ (id = status.id => d = nifi[id]))
    BY <1>2 DEF Worked
  <2>3. /\ MarkReady(id).id = id /\ MarkReady(id).gen = spec.gen /\ MarkReady(id).ready
        /\ id # None
    BY MarkTypes DEF Ids, None
  <2>4. status'.id \in {status.id, id} /\ known' = known \cup ({status'.id} \ {None})
    BY <2>1, <2>2, <2>3 DEF Unreadied, Typed
  <2>5. made' \in 0..MaxMade /\ made' >= made /\ (id = status.id => made' = made)
    BY <1>0, <2>1, <2>3, IdTypes DEF Touched
  <2>6. d \in Components /\ d.run # "absent" /\ (kind \notin Running => d.run # "on")
    BY <2>1 DEF There
  <2>7. nifi' \in [Ids -> Components] /\ nifi'[id] = d
        /\ \A i \in Ids \ {id} : nifi'[i] = nifi[i]
    BY <1>0, <2>1, <2>6
  <2>8. TypeOK'
    <3>1. known' \subseteq Ids
      BY <2>4, IdTypes DEF TypeOK
    <3>2. QED
      BY <1>0, <2>1, <2>5, <2>7, <3>1 DEF TypeOK, Typed
  <2>9. id # status.id => NoneThere
    BY <2>1 DEF Touched
  <2>10. Holds
    BY <2>4, <2>9 DEF Holds, NoneThere, NoId
  <2>11. id \in 1..(made' + 1)
    <3>1. CASE made' = made /\ id \in known \cup {Foreign}
      <4>1. id \in 1..(made + 1)
        BY <1>0, <3>1 DEF Foreign, IdsKnown
      <4>2. QED
        BY <3>1, <4>1
    <3>2. CASE made' = made + 1 /\ id = made + 2
      <4>1. id \in 1..((made + 1) + 1)
        BY <1>0, <3>2
      <4>2. QED
        BY <3>2, <4>1
    <3>3. QED
      BY <2>1, <2>3, <3>1, <3>2 DEF Touched, IdsKnown
  <2>12. \A i \in known \ {id} : i \in Ids /\ nifi'[i] = nifi[i]
    BY <2>7 DEF TypeOK
  <2>13. id \in known => Exists(id) /\ made' = made
    BY <1>0, <2>1 DEF Touched, IdsKnown
  <2>14. IdsKnown'
    <3>1. status'.id \in known' \cup {None}
      BY <2>4
    <3>2. known' \subseteq 1..(made' + 1)
      <4>1. made' = made \/ made' = made + 1
        BY <2>1 DEF Touched
      <4>2. known \subseteq 1..(made + 1) /\ known \subseteq 1..((made + 1) + 1)
        BY <1>0 DEF IdsKnown
      <4>3. known \subseteq 1..(made' + 1)
        BY <4>1, <4>2
      <4>4. QED
        BY <2>4, <2>11, <4>3 DEF IdsKnown
    <3>3. status'.ready => status'.id # None
      BY <2>2, <2>3 DEF IdsKnown, Unreadied
    <3>4. ASSUME NEW i \in known' \ {status'.id}
          PROVE  nifi'[i].run = "absent"
      <4>1. i \in known
        BY <2>4, <3>4
      <4>2. CASE i = status.id
        <5>1. status'.id # status.id
          BY <3>4, <4>2
        <5>2. id # status.id /\ status.id # None
          BY <2>4, <4>1, <4>2, <5>1 DEF IdsKnown, None
        <5>3. ~Exists(status.id)
          BY <2>9, <5>2 DEF NoneThere, NoId
        <5>4. QED
          BY <2>12, <4>1, <4>2, <5>2, <5>3 DEF Exists
      <4>3. CASE i # status.id
        <5>1. ~Exists(i)
          BY <4>1, <4>3 DEF IdsKnown
        <5>2. i # id
          BY <2>13, <4>1, <5>1
        <5>3. QED
          BY <2>12, <4>1, <5>1, <5>2 DEF Exists
      <4>4. QED
        BY <4>2, <4>3
    <3>5. QED
      BY <1>0, <3>1, <3>2, <3>3, <3>4 DEF IdsKnown, Exists
  <2>15. Gens'
    BY <1>0, <2>2, <2>3, SpecTypes DEF Gens, Unreadied
  <2>16. Runs'
    BY <1>0, <2>6, <2>7 DEF Runs
  <2>17. ~spec.adopt => id # Foreign
    BY <1>0, <2>1 DEF Touched, Foreigns, Foreign, IdsKnown, None
  <2>18. Foreigns'
    BY <1>0, <2>4, <2>7, <2>17, IdTypes DEF Foreigns, IdsKnown, Foreign, None
  <2>19. ReadyIsTrue'
    <3>1. SUFFICES ASSUME status'.ready, status'.gen = spec.gen, fresh'
                   PROVE  nifi'[status'.id].cfg = spec.cfg /\ nifi'[status'.id].run = spec.run
      BY <1>0 DEF ReadyIsTrue, It
    <3>2. CASE status' = MarkReady(id) /\ d.cfg = spec.cfg /\ d.run = spec.run
      BY <2>3, <2>7, <3>2
    <3>3. CASE status' = status /\ fresh /\ (id = status.id => d = nifi[id])
      <4>1. status.id \in Ids
        BY <3>1, <3>3, IdTypes DEF IdsKnown
      <4>2. nifi[status.id].cfg = spec.cfg /\ nifi[status.id].run = spec.run
        BY <3>1, <3>3 DEF ReadyIsTrue, It
      <4>3. QED
        BY <2>7, <3>3, <4>1, <4>2
    <3>4. QED
      BY <2>2, <3>1, <3>2, <3>3 DEF Unreadied
  <2>20. DeletionIsExact'
    <3>1. DeletedMeansGone'
      BY <1>0 DEF DeletedMeansGone
    <3>2. ~spec.delete /\ meddles = 0 => \A i \in known : Exists(i)
      BY DEF DeletionIsExact, OthersPreserved
    <3>3. ASSUME ~spec.delete, meddles = 0, NEW i \in known'
          PROVE  nifi'[i].run # "absent"
      <4>1. CASE i = id
        BY <2>6, <2>7, <4>1
      <4>2. CASE i # id
        <5>1. i \in known
          BY <2>4, <3>3, <4>2 DEF IdsKnown
        <5>2. QED
          BY <2>12, <3>2, <3>3, <4>2, <5>1 DEF Exists
      <4>3. QED
        BY <4>1, <4>2
    <3>4. ~(spec.adopt /\ kind \in Adopters) => nifi'[Foreign] = [Absent EXCEPT !.run = "off"]
      BY <1>0, <2>18 DEF Foreigns
    <3>5. QED
      BY <1>0, <3>1, <3>3, <3>4 DEF DeletionIsExact, OthersPreserved, Exists
  <2>21. QED
    BY <2>8, <2>10, <2>14, <2>15, <2>16, <2>18, <2>19, <2>20
<1>3. QED
  BY <1>1, <1>2 DEF Advanced

\* Reconciles of a resource that is being deleted keep it.
LEMMA DeletionsKeep ==
  ASSUME ComponentInv, Cleared
  PROVE  ComponentInv' /\ Holds
<1> USE DEF ComponentInv
<1>1. /\ life = "deleting"
      /\ UNCHANGED <<kind, spec, status, unready, gone, edits, meddles, made, known>>
      /\ queued' \in BOOLEAN /\ fresh' \in BOOLEAN /\ life' \in {"deleting", "gone"}
      /\ faults' \in 0..MaxFaults /\ losses' \in 0..MaxFaults
      /\ fresh' => fresh
  BY DEF Cleared, world
<1>2. Holds
  BY <1>1 DEF Holds
<1>3. status.id \in known \cup {None} /\ \A i \in known \ {status.id} : ~Exists(i)
  BY DEF IdsKnown
<1>4. CASE nifi' = nifi /\ (life' = "gone" => Keeps)
  <2>1. TypeOK'
    BY <1>1, <1>4 DEF TypeOK
  <2>2. IdsKnown' /\ Gens' /\ Runs' /\ Foreigns' /\ ReadyIsTrue'
    BY <1>1, <1>4 DEF IdsKnown, Gens, Runs, Foreigns, ReadyIsTrue, It, Exists
  <2>3. life' = "gone" /\ spec.delete /\ ~gone => status.id = None
    BY <1>4 DEF Keeps
  <2>4. None \notin known
    BY DEF TypeOK, Ids, None
  <2>5. life' = "gone" /\ spec.delete /\ ~gone => \A i \in known : ~Exists(i)
    BY <1>3, <2>3, <2>4
  <2>6. DeletionIsExact'
    BY <1>1, <1>4, <2>5 DEF DeletionIsExact, DeletedMeansGone, OthersPreserved, Exists
  <2>7. QED
    BY <1>2, <2>1, <2>2, <2>6
<1>5. ASSUME spec.delete, status.id # None, NEW o, Removal(It, o),
             nifi' = [nifi EXCEPT ![status.id] = o.c], fresh' => o.c = It,
             life' = "gone" => o.c = Absent
      PROVE  ComponentInv' /\ Holds
  <2>0. status.id \in Ids /\ status.id \in known /\ nifi \in [Ids -> Components] /\ known \subseteq Ids
    BY <1>5, IdTypes DEF IdsKnown, TypeOK
  <2>1. /\ o.c \in Components /\ (kind \notin Running => o.c.run # "on")
        /\ o.c.run # "absent" => Exists(status.id)
    BY <1>5 DEF Removal, It, Exists
  <2>2. nifi' \in [Ids -> Components] /\ nifi'[status.id] = o.c
        /\ \A i \in Ids \ {status.id} : nifi'[i] = nifi[i]
    BY <1>5, <2>0, <2>1
  <2>3. TypeOK'
    BY <1>1, <2>2 DEF TypeOK
  <2>4. \A i \in known \ {status.id} : nifi'[i].run = "absent"
    BY <1>3, <2>0, <2>2 DEF Exists
  <2>5. IdsKnown'
    BY <1>1, <2>4 DEF IdsKnown, Exists
  <2>6. Gens' /\ Runs'
    BY <1>1, <2>1, <2>2 DEF Gens, Runs
  <2>7. ~spec.adopt => status.id # Foreign
    BY <2>0 DEF Foreigns
  <2>8. Foreigns'
    BY <1>1, <2>2, <2>7, IdTypes DEF Foreigns
  <2>9. ReadyIsTrue'
    BY <1>1, <1>5, <2>2 DEF ReadyIsTrue, It
  <2>10. life' = "gone" => \A i \in known : nifi'[i].run = "absent"
    BY <1>5, <2>2, <2>4 DEF Absent
  <2>11. spec.delete
    BY <1>5
  <2>12. DeletionIsExact'
    BY <1>1, <2>8, <2>10, <2>11 DEF DeletionIsExact, DeletedMeansGone, OthersPreserved, Exists, Foreigns
  <2>13. QED
    BY <1>2, <2>3, <2>5, <2>6, <2>8, <2>9, <2>12
<1>6. QED
  BY <1>4, <1>5 DEF Cleared

\* Steps that leave the status and what NiFi holds alone keep it.
LEMMA QuietKeeps ==
  ASSUME ComponentInv, TypeOK', UNCHANGED <<kind, status, nifi, made, known>>,
         spec' = spec \/ spec'.gen = spec.gen + 1,
         spec'.gen = edits', spec'.adopt = spec.adopt, spec'.delete = spec.delete,
         kind \notin Running => spec'.run = "off",
         fresh' => fresh,
         life' = "new" => life = "new",
         life' = "gone" => life = "gone" \/ known = {},
         gone => gone',
         meddles' = 0 => meddles = 0
  PROVE  ComponentInv' /\ Holds
<1> USE DEF ComponentInv
<1>1. Holds
  BY DEF Holds
<1>2. spec.gen \in Nat /\ status.gen \in Int /\ status.gen <= spec.gen
  BY SpecTypes, BoundsAssumption DEF TypeOK, Gens, Statuses
<1>3. Gens'
  BY <1>2 DEF Gens
<1>4. IdsKnown'
  BY DEF IdsKnown, Exists
<1>5. Runs'
  BY DEF Runs
<1>6. Foreigns'
  BY DEF Foreigns
<1>7. ReadyIsTrue'
  <2>1. CASE spec' = spec
    BY <2>1 DEF ReadyIsTrue, It
  <2>2. CASE spec'.gen = spec.gen + 1
    BY <1>2, <2>2 DEF ReadyIsTrue
  <2>3. QED
    BY <2>1, <2>2
<1>8. DeletionIsExact'
  BY DEF DeletionIsExact, DeletedMeansGone, OthersPreserved, Exists
<1>9. QED
  BY <1>1, <1>3, <1>4, <1>5, <1>6, <1>7, <1>8

\* Finalizers, edits, requests for deletion and changes of dependencies keep it.
LEMMA ResourceKeeps ==
  ASSUME ComponentInv,
         \/ AddFinalizer \/ Edit \/ RequestDelete \/ ClusterDeleted
         \/ \E dep \in Deps : DependencyReady(dep) \/ DependencyUnready(dep)
  PROVE  ComponentInv' /\ Holds
<1> USE DEF ComponentInv
<1>0. /\ spec.gen = edits /\ (kind \notin Running => spec.run = "off")
      /\ queued \in BOOLEAN /\ unready \subseteq Deps /\ meddles \in 0..MaxMeddles
      /\ edits \in 0..MaxEdits
  BY DEF Gens, Runs, TypeOK
<1>1. CASE AddFinalizer
  <2>1. /\ life = "new" /\ life' \in {"new", "live"} /\ losses' \in 0..MaxFaults
        /\ UNCHANGED <<kind, spec, status, unready, gone, edits, meddles, queued, fresh, nifi, made,
                       known, faults>>
    BY <1>1, BoundsAssumption DEF AddFinalizer, Lost, TypeOK, world
  <2>2. TypeOK'
    BY <2>1 DEF TypeOK
  <2>3. QED
    BY <1>0, <2>1, <2>2, QuietKeeps
<1>2. CASE Edit
  <2>1. /\ edits < MaxEdits /\ edits' = edits + 1 /\ queued' = TRUE
        /\ UNCHANGED <<kind, life, status, unready, gone, fresh, nifi, made, known, meddles, faults, losses>>
    BY <1>2 DEF Edit
  <2>2. \/ spec' = [spec EXCEPT !.gen = @ + 1, !.cfg = 3 - @]
        \/ /\ kind \in Running
           /\ spec' = [spec EXCEPT !.gen = @ + 1, !.run = IF @ = "on" THEN "off" ELSE "on"]
    BY <1>2 DEF Edit
  <2>3. edits' \in 0..MaxEdits
    BY <1>0, <2>1, BoundsAssumption
  <2>4. /\ spec.gen \in 0..MaxEdits /\ spec.gen + 1 \in 0..MaxEdits
        /\ spec.cfg \in {1, 2} /\ 3 - spec.cfg \in {1, 2}
    BY <1>0, <2>1, <2>3 DEF TypeOK, Specs
  <2>5. spec' \in Specs
    BY <2>2, <2>4 DEF TypeOK, Specs
  <2>6. /\ spec'.gen = spec.gen + 1 /\ spec'.adopt = spec.adopt /\ spec'.delete = spec.delete
        /\ kind \notin Running => spec'.run = "off"
    BY <1>0, <2>2 DEF TypeOK, Specs
  <2>7. TypeOK'
    BY <2>1, <2>3, <2>5 DEF TypeOK
  <2>8. QED
    BY <1>0, <2>1, <2>6, <2>7, QuietKeeps
<1>3. CASE RequestDelete
  <2>1. /\ life \in {"new", "live"} /\ life' \in {"deleting", "gone"} /\ queued' \in BOOLEAN
        /\ life' = "gone" => life = "new"
        /\ UNCHANGED <<kind, spec, status, unready, gone, edits, meddles, fresh, nifi, made, known,
                       faults, losses>>
    BY <1>3 DEF RequestDelete, world
  <2>2. TypeOK'
    BY <2>1 DEF TypeOK
  <2>3. life' = "gone" => known = {}
    BY <2>1 DEF IdsKnown
  <2>4. QED
    BY <1>0, <2>1, <2>2, <2>3, QuietKeeps
<1>a. Meddling => meddles' \in 0..MaxMeddles /\ meddles' # 0
  BY <1>0, BoundsAssumption DEF Meddling
<1>4. CASE ClusterDeleted
  <2>1. /\ gone' = TRUE /\ unready' = unready \cup {"NiFiCluster"} /\ queued' = TRUE
        /\ meddles' \in 0..MaxMeddles /\ meddles' # 0
        /\ UNCHANGED <<kind, spec, life, status, edits, fresh, nifi, made, known, faults, losses>>
    BY <1>4, <1>a DEF ClusterDeleted, resource
  <2>2. unready' \subseteq Deps
    BY <1>0, <2>1 DEF Deps
  <2>3. TypeOK'
    BY <2>1, <2>2 DEF TypeOK
  <2>4. QED
    BY <1>0, <2>1, <2>3, QuietKeeps
<1>5. ASSUME NEW dep \in Deps, DependencyReady(dep) \/ DependencyUnready(dep)
      PROVE  ComponentInv' /\ Holds
  <2>1. /\ unready' \subseteq Deps /\ queued' = (queued \/ Wakes(dep))
        /\ meddles' \in 0..MaxMeddles /\ (meddles' = 0 => meddles = 0)
        /\ UNCHANGED <<kind, spec, life, status, gone, edits, fresh, nifi, made, known, faults, losses>>
    BY <1>0, <1>5, <1>a DEF DependencyReady, DependencyUnready, resource
  <2>2. queued' \in BOOLEAN
    BY <1>0, <2>1 DEF Wakes
  <2>3. TypeOK'
    BY <2>1, <2>2 DEF TypeOK
  <2>4. QED
    BY <1>0, <2>1, <2>3, QuietKeeps
<1>6. QED
  BY <1>1, <1>2, <1>3, <1>4, <1>5

\* What NiFi finds out about a component, and what others do to it there, keep it.
LEMMA NiFiKeeps ==
  ASSUME ComponentInv, Meddle \/ \E id \in Ids : Validated(id)
  PROVE  ComponentInv' /\ Holds
<1> USE DEF ComponentInv
<1>0. nifi \in [Ids -> Components] /\ known \subseteq Ids
  BY DEF TypeOK
<1>1. CASE Meddle
  <2>1. /\ life # "gone" /\ status.id # None /\ Exists(status.id) /\ Meddling
        /\ fresh' = FALSE
        /\ UNCHANGED <<kind, spec, life, status, unready, gone, edits, queued, made, known, faults, losses>>
    BY <1>1 DEF Meddle, resource
  <2>2. PICK c \in {Absent, [It EXCEPT !.cfg = 0], [It EXCEPT !.run = "off"],
                    [It EXCEPT !.run = IF kind \in Running THEN "on" ELSE @]} \ {It} :
          nifi' = [nifi EXCEPT ![status.id] = c]
    BY <1>1 DEF Meddle
  <2>3. status.id \in Ids /\ status.id \in known /\ It \in Components
        /\ (kind \notin Running => It.run # "on")
    BY <1>0, <2>1, IdTypes DEF IdsKnown, It, Runs
  <2>4. c \in Components /\ (kind \notin Running => c.run # "on")
    BY <2>2, <2>3 DEF Components, Absent
  <2>5. nifi' \in [Ids -> Components] /\ nifi'[status.id] = c
        /\ \A i \in Ids \ {status.id} : nifi'[i] = nifi[i]
    BY <1>0, <2>2, <2>3, <2>4
  <2>6. meddles' \in 0..MaxMeddles /\ meddles' # 0
    BY <2>1, BoundsAssumption DEF Meddling, TypeOK
  <2>7. TypeOK'
    BY <2>1, <2>5, <2>6 DEF TypeOK
  <2>8. IdsKnown'
    BY <1>0, <2>1, <2>5 DEF IdsKnown, Exists
  <2>9. Gens' /\ Runs'
    BY <2>1, <2>4, <2>5 DEF Gens, Runs
  <2>10. Foreigns'
    BY <2>1, <2>3, <2>5, IdTypes DEF Foreigns
  <2>11. ReadyIsTrue'
    BY <2>1 DEF ReadyIsTrue
  <2>12. DeletionIsExact'
    BY <2>1, <2>6, <2>10 DEF DeletionIsExact, DeletedMeansGone, OthersPreserved, Foreigns
  <2>13. QED
    BY <2>1, <2>7, <2>8, <2>9, <2>10, <2>11, <2>12 DEF Holds
<1>2. ASSUME NEW id \in Ids, Validated(id)
      PROVE  ComponentInv' /\ Holds
  <2>1. /\ life # "gone" /\ Exists(id) /\ nifi[id].valid # "VALID"
        /\ nifi' = [nifi EXCEPT ![id].valid = "VALID"]
        /\ UNCHANGED <<kind, spec, life, status, unready, gone, edits, meddles, queued, fresh, made,
                       known, faults, losses>>
    BY <1>2 DEF Validated, resource, world
  <2>2. [nifi[id] EXCEPT !.valid = "VALID"] \in Components
    BY <1>0 DEF Components
  <2>3. nifi' \in [Ids -> Components]
    BY <1>0, <2>1, <2>2
  <2>4. \A i \in Ids : nifi'[i].cfg = nifi[i].cfg /\ nifi'[i].run = nifi[i].run
    BY <1>0, <2>1 DEF Components
  <2>5. TypeOK'
    BY <2>1, <2>3 DEF TypeOK
  <2>6. IdsKnown' /\ Gens' /\ Runs'
    BY <1>0, <2>1, <2>4 DEF IdsKnown, Gens, Runs, Exists
  <2>7. ~spec.adopt => id # Foreign
    BY <2>1 DEF Foreigns, Absent
  <2>8. Foreigns'
    BY <1>0, <2>1, <2>7, IdTypes DEF Foreigns
  <2>9. status.ready => status.id \in Ids
    BY IdTypes DEF IdsKnown
  <2>10. ReadyIsTrue'
    BY <2>1, <2>4, <2>9 DEF ReadyIsTrue, It
  <2>11. DeletionIsExact'
    BY <1>0, <2>1, <2>4, <2>8 DEF DeletionIsExact, DeletedMeansGone, OthersPreserved, Foreigns, Exists
  <2>12. QED
    BY <2>1, <2>5, <2>6, <2>8, <2>10, <2>11 DEF Holds
<1>3. QED
  BY <1>1, <1>2

-----------------------------------------------------------------------------
(* The theorems *)

\* The invariant holds at the start.
LEMMA InitInv ==
  ASSUME Init
  PROVE  ComponentInv
<1> DEFINE R == IF kind \in Running THEN {"off", "on"} ELSE {"off"}
           A == IF kind \in Adopters THEN BOOLEAN ELSE {FALSE}
           S == IF kind \in Secretive THEN BOOLEAN ELSE {FALSE}
<1>1. /\ kind \in Kinds
      /\ spec \in [gen : {0}, cfg : {1}, run : R, pins : Pins, delete : BOOLEAN, adopt : A,
                   secret : S]
  BY DEF Init
<1>2. life = "new" /\ unready \in {{}, {"NiFiCluster"}} /\ gone = FALSE /\ queued = TRUE /\ fresh = FALSE
  BY DEF Init
<1>3. status = [id |-> None, gen |-> -1, ready |-> FALSE, waiting |-> {}, why |-> ""]
  BY DEF Init
<1>4. nifi = [id \in Ids |-> IF id = Foreign THEN [Absent EXCEPT !.run = "off"] ELSE Absent]
  BY DEF Init
<1>5. made = 0 /\ known = {} /\ edits = 0 /\ meddles = 0 /\ faults = 0 /\ losses = 0
  BY DEF Init
<1>6. /\ spec \in Specs /\ spec.gen = 0 /\ (kind \notin Running => spec.run = "off")
      /\ spec.adopt => kind \in Adopters
  <2>1. R \subseteq {"off", "on"} /\ (kind \notin Running => R = {"off"})
    OBVIOUS
  <2>2. A \subseteq BOOLEAN /\ (kind \notin Adopters => A = {FALSE})
    OBVIOUS
  <2>3. S \subseteq BOOLEAN /\ Pins \subseteq BOOLEAN
    BY KindsAssumption
  <2>4. 0 \in 0..MaxEdits
    BY BoundsAssumption
  <2> HIDE DEF R, A, S
  <2>5. /\ spec = [gen |-> spec.gen, cfg |-> spec.cfg, run |-> spec.run, pins |-> spec.pins,
                   delete |-> spec.delete, adopt |-> spec.adopt, secret |-> spec.secret]
        /\ spec.gen = 0 /\ spec.cfg = 1
    BY <1>1
  <2>6. spec.run \in R /\ spec.pins \in Pins /\ spec.delete \in BOOLEAN
    BY <1>1
  <2>7. spec.adopt \in A /\ spec.secret \in S
    BY <1>1
  <2>8. spec.run \in {"off", "on"} /\ (kind \notin Running => spec.run = "off")
    BY <2>1, <2>6
  <2>9. spec.adopt \in BOOLEAN /\ (spec.adopt => kind \in Adopters)
    BY <2>2, <2>7
  <2>10. spec.pins \in BOOLEAN /\ spec.secret \in BOOLEAN
    BY <2>3, <2>6, <2>7
  <2>11. spec.gen \in 0..MaxEdits /\ spec.cfg \in {1, 2}
    BY <2>4, <2>5
  <2>12. spec \in Specs
    BY <2>5, <2>6, <2>8, <2>9, <2>10, <2>11 DEF Specs
  <2>13. QED
    BY <2>5, <2>8, <2>9, <2>12
<1>7. status \in Statuses
  <2>1. -1 \in -1..MaxEdits /\ None \in 0..(MaxMade + 1) /\ "" \in Reasons
    BY BoundsAssumption DEF None, Reasons
  <2>2. QED
    BY <1>3, <2>1 DEF Statuses
<1>8. nifi \in [Ids -> Components] /\ \A id \in Ids : nifi[id].run # "on"
  BY <1>4 DEF Components, Absent
<1>9. Foreign \in Ids /\ nifi[Foreign] = [Absent EXCEPT !.run = "off"]
  BY <1>4, BoundsAssumption DEF Ids, Foreign
<1>10. TypeOK
  <2>1. /\ made \in 0..MaxMade /\ edits \in 0..MaxEdits /\ meddles \in 0..MaxMeddles
        /\ faults \in 0..MaxFaults /\ losses \in 0..MaxFaults
    BY <1>5, BoundsAssumption
  <2>2. unready \subseteq Deps /\ known \subseteq Ids
    BY <1>2, <1>5 DEF Deps
  <2>3. /\ gone \in BOOLEAN /\ queued \in BOOLEAN /\ fresh \in BOOLEAN
        /\ life \in {"new", "live", "deleting", "gone"}
    BY <1>2
  <2>4. kind \in Kinds
    BY <1>1
  <2>5. QED
    BY <2>1, <2>2, <2>3, <2>4, <1>6, <1>7, <1>8 DEF TypeOK
<1>11. IdsKnown
  BY <1>3, <1>5 DEF IdsKnown
<1>12. Gens
  <2>1. status.gen = -1 /\ spec.gen = 0 /\ edits = 0
    BY <1>3, <1>5, <1>6
  <2>2. QED
    BY <2>1 DEF Gens
<1>13. Runs /\ Foreigns
  BY <1>5, <1>6, <1>8, <1>9 DEF Runs, Foreigns
<1>14. ReadyIsTrue
  BY <1>3 DEF ReadyIsTrue
<1>15. DeletionIsExact
  BY <1>2, <1>5, <1>9 DEF DeletionIsExact, DeletedMeansGone, OthersPreserved
<1>16. QED
  BY <1>10, <1>11, <1>12, <1>13, <1>14, <1>15 DEF ComponentInv

\* Every step keeps the invariant, and the status does not let go.
LEMMA NextInv ==
  ASSUME ComponentInv, Next
  PROVE  ComponentInv' /\ Holds
<1>1. TypeOK /\ IdsKnown /\ Runs /\ Gens
  BY DEF ComponentInv
<1>2. CASE AddFinalizer
  BY <1>2, ResourceKeeps
<1>3. CASE \/ ReconcileProcessGroup \/ ReconcileConnection \/ ReconcileFunnel
           \/ ReconcileLabel \/ ReconcileRegistryClient \/ ReconcileParameterProvider
  BY <1>1, <1>3, PlainReconcilers, ReconcilesKeep
<1>4. CASE \/ ReconcileProcessor \/ ReconcileInputPort \/ ReconcileOutputPort
           \/ ReconcileControllerService \/ ReconcileReportingTask
  BY <1>1, <1>4, RunningReconcilers, ReconcilesKeep
<1>5. CASE \/ DeleteProcessGroup \/ DeleteConnection \/ DeleteFunnel \/ DeleteLabel
           \/ DeleteRegistryClient \/ DeleteParameterProvider
           \/ DeleteProcessor \/ DeleteInputPort \/ DeleteOutputPort
           \/ DeleteControllerService \/ DeleteReportingTask
  BY <1>1, <1>5, Deletions, DeletionsKeep
<1>6. CASE Others
  BY <1>6, ResourceKeeps, NiFiKeeps DEF Others
<1>7. QED
  BY <1>2, <1>3, <1>4, <1>5, <1>6 DEF Next, Reconcile

\* A step that changes nothing keeps the invariant.
LEMMA StutterInv ==
  ASSUME ComponentInv, UNCHANGED vars
  PROVE  ComponentInv'
<1>1. UNCHANGED <<kind, spec, life, status, unready, gone, edits, meddles, queued, fresh, nifi,
                  made, known, faults, losses>>
  BY DEF vars, resource, world
<1>2. QED
  BY <1>1 DEF ComponentInv, TypeOK, IdsKnown, Gens, Runs, Foreigns, ReadyIsTrue, DeletionIsExact,
    DeletedMeansGone, OthersPreserved, It, Exists

\* The inductive invariant holds in every reachable state, for every kind of resource and
\* all bounds.
THEOREM ComponentInvariant == Spec => []ComponentInv
<1>1. Init => ComponentInv
  BY InitInv
<1>2. ComponentInv /\ [Next]_vars => ComponentInv'
  BY NextInv, StutterInv
<1>3. QED
  BY <1>1, <1>2, PTL DEF Spec

\* A resource that says Ready for its generation has in NiFi the configuration and the run
\* state that its spec asks for, after any failed or repeated sequence of calls.
THEOREM StatusesAreTrue == Spec => []StatusIsTrue
<1>1. ComponentInv => StatusIsTrue
  BY DEF ComponentInv, StatusIsTrue
<1>2. QED
  BY <1>1, ComponentInvariant, PTL

\* A deletion takes every component the resource ever had, and nothing that it does not own.
THEOREM DeletionsAreExact == Spec => []DeletionIsExact
<1>1. ComponentInv => DeletionIsExact
  BY DEF ComponentInv
<1>2. QED
  BY <1>1, ComponentInvariant, PTL

\* The status lets go of a component only once it is no longer in NiFi.
THEOREM StatusHolds == Spec => NeverForgets
<1>1. ComponentInv /\ [Next]_vars
      => [status.id # None /\ status'.id # status.id => ~Exists(status.id)]_vars
  BY NextInv DEF Holds
<1>2. QED
  BY <1>1, ComponentInvariant, PTL DEF Spec, NeverForgets

=============================================================================
