--------------------------- MODULE ParameterContext ---------------------------
(***************************************************************************)
(* One NiFiParameterContext resource, its reconciler and NiFi's parameter  *)
(* contexts of its name. An update of a parameter context is asynchronous: *)
(* NiFi answers with a request that stops components, applies the values   *)
(* and starts them again; the reconciler records the request in the status *)
(* and polls it.                                                           *)
(*                                                                         *)
(* A reconcile is one step, from the state it reads to the status it       *)
(* saves. Its calls may fail, a write may be lost, NiFi may finish, fail   *)
(* or (when it restarts) forget a request, and the user may change the     *)
(* spec while a request is running. The values of a context are one value; *)
(* waiting for the cluster and for Secrets is as in ManagedComponent.      *)
(***************************************************************************)
EXTENDS Integers, FiniteSets

CONSTANTS
  Adoption,     \* whether adoptionPolicy allows to take over a context of the name
  Present,      \* whether NiFi may have a context of the name to begin with
  MaxMade,      \* bound: contexts the operator creates
  MaxRequests,  \* bound: update requests
  MaxEdits,     \* bound: changes of the spec
  MaxFaults     \* bound: failing calls, lost writes, failed or forgotten requests,
                \* contexts changed or deleted by others

ASSUME ChoicesAssumption == Adoption \subseteq BOOLEAN /\ Present \subseteq BOOLEAN
ASSUME BoundsAssumption ==
  MaxMade \in Nat /\ MaxRequests \in Nat /\ MaxEdits \in Nat /\ MaxFaults \in Nat

VARIABLES
  spec,      \* generation, values, policies
  life,      \* "live", "deleting" or "gone"
  status,    \* id, observed generation, ready, reason, and the latest update request
  fresh,     \* the status holds the revision NiFi has
  ready,     \* the NiFiCluster is ready
  queued,    \* the workqueue holds the resource
  nifi,      \* the values of NiFi's contexts, 0 if there is none; 1 was there before
  made,      \* how many contexts the operator created
  request,   \* NiFi's update requests
  asked,     \* how many there have been
  edits, faults, losses

vars == <<spec, life, status, fresh, ready, queued, nifi, made, request, asked, edits,
          faults, losses>>

None == 0
Ids == 1..(MaxMade + 1)
Requests == 1..MaxRequests
NoRequest == [id |-> 0, complete |-> FALSE]
RequestStates == {"none", "running", "done", "failed"}

Exists(id) == nifi[id] # 0
\* All contexts in the model have the name of the resource, which NiFi allows only one of.
Named == {id \in Ids : Exists(id)}
Pending == status.req.id # 0 /\ ~status.req.complete

Specs == [gen : 0..MaxEdits, val : {1, 2}, adopt : BOOLEAN, delete : BOOLEAN]
Reasons == {"", "Ready", "WaitingForDependencies", "NiFiGetFailed", "UpdateTargetNotFound",
            "AdoptionRequired", "NiFiCreateFailed", "UpdateRunning", "UpdateRequestFailed",
            "NiFiRefreshFailed", "UpdateRequestGetFailed", "UpdateRequestCreateFailed"}
StatusRequests == [id : 0..MaxRequests, complete : BOOLEAN]
Statuses == [id : 0..(MaxMade + 1), gen : -1..MaxEdits, ready : BOOLEAN, why : Reasons,
             req : StatusRequests]
NifiRequests == [state : RequestStates, ctx : 0..(MaxMade + 1), val : 0..2]

TypeOK ==
  /\ spec \in Specs
  /\ life \in {"live", "deleting", "gone"}
  /\ status \in Statuses
  /\ fresh \in BOOLEAN /\ ready \in BOOLEAN /\ queued \in BOOLEAN
  /\ nifi \in [Ids -> 0..3] /\ made \in 0..MaxMade
  /\ request \in [Requests -> NifiRequests]
  /\ asked \in 0..MaxRequests
  /\ edits \in 0..MaxEdits /\ faults \in 0..MaxFaults /\ losses \in 0..MaxFaults

Init ==
  /\ spec \in [gen : {0}, val : {1}, adopt : Adoption, delete : BOOLEAN]
  /\ life = "live"
  /\ status = [id |-> None, gen |-> -1, ready |-> FALSE, why |-> "", req |-> NoRequest]
  /\ fresh = FALSE /\ ready = TRUE /\ queued = TRUE
  /\ \E there \in Present : nifi = [id \in Ids |-> IF id = 1 /\ there THEN 3 ELSE 0]
  /\ made = 0 /\ asked = 0
  /\ request = [q \in Requests |-> [state |-> "none", ctx |-> 0, val |-> 0]]
  /\ edits = 0 /\ faults = 0 /\ losses = 0

-----------------------------------------------------------------------------
(* Writes to Kubernetes *)

Failing == faults + losses < MaxFaults /\ faults' = faults + 1
Lost == faults + losses < MaxFaults /\ losses' = losses + 1

Save(s, again, wrote) ==
  LET current == fresh /\ ~wrote
      same == s = status /\ (s.ready => current) IN
  \/ same /\ queued' = again /\ fresh' = current /\ UNCHANGED <<status, losses>>
  \/ /\ ~same
     /\ status' = s /\ queued' = TRUE /\ fresh' = (s.ready \/ current)
     /\ UNCHANGED losses
  \/ ~same /\ Lost /\ queued' = TRUE /\ fresh' = current /\ UNCHANGED status

MarkReady(id, req) == [id |-> id, gen |-> spec.gen, ready |-> TRUE, why |-> "Ready", req |-> req]

MarkNotReady(why, req) == [status EXCEPT !.gen = spec.gen, !.ready = FALSE, !.why = why, !.req = req]

\* Mutant: as MarkNotReady, but the request is not recorded.
MarkUpdateRunningOnly(req) == [status EXCEPT !.gen = spec.gen, !.ready = FALSE, !.why = "UpdateRunning"]

\* The request is recorded; the id of the context is not.
MarkUpdateRunning(req) == MarkNotReady("UpdateRunning", req)

\* Mutant: it is not called again.
NotReadyOnce(why) == Save(MarkNotReady(why, status.req), FALSE, FALSE)

\* NotReady, called again later.
NotReady(why) == Save(MarkNotReady(why, status.req), TRUE, FALSE)
\* NotReady, not called again.
Stop(why) == Save(MarkNotReady(why, status.req), FALSE, FALSE)

-----------------------------------------------------------------------------
(* The reconcile *)

Turn == life = "live" /\ queued
remote == <<nifi, made, request, asked>>
others == <<spec, life, ready, edits>>

AwaitCluster ==
  /\ Turn /\ ~ready
  /\ Stop("WaitingForDependencies")
  /\ UNCHANGED <<others, remote, faults>>

\* A call that only reads fails: the list, the context, or a request.
ReadFails ==
  /\ Turn /\ ready /\ Failing
  /\ NotReady("NiFiGetFailed")
  /\ UNCHANGED <<others, remote>>

\* Found by id; or by name, if it may be adopted or the resource had one before.
Found(id) ==
  /\ Turn /\ ready /\ Exists(id)
  /\ \/ id = status.id
     \/ status.id \notin Named /\ ~Pending /\ (spec.adopt \/ status.id # None)

UpdateTargetNotFound ==
  /\ Turn /\ ready /\ status.id \notin Named /\ Pending
  /\ Stop("UpdateTargetNotFound")
  /\ UNCHANGED <<others, remote, faults>>

AdoptionRequired ==
  /\ Turn /\ ready /\ status.id = None /\ ~Pending /\ Named # {} /\ ~spec.adopt
  /\ Stop("AdoptionRequired")
  /\ UNCHANGED <<others, remote, faults>>

\* Create takes effect and its answer is saved, or it fails before or after taking effect.
Create ==
  /\ Turn /\ ready /\ Named = {} /\ ~Pending
  /\ \/ /\ made < MaxMade
        /\ made' = made + 1 /\ nifi' = [nifi EXCEPT ![made + 2] = spec.val]
        /\ \/ Save(MarkReady(made + 2, status.req), FALSE, FALSE) /\ UNCHANGED faults
           \/ Failing /\ NotReady("NiFiCreateFailed")
     \/ Failing /\ NotReady("NiFiCreateFailed") /\ UNCHANGED <<made, nifi>>
  /\ UNCHANGED <<others, request, asked>>

\* What a request that NiFi answers with makes of the status. Ready is for the generation
\* of now, whatever generation the request was made for; the context is read again.
Answered(id, q, state, wrote) ==
  LET req == [id |-> q, complete |-> state \in {"done", "failed"}] IN
  CASE state = "running" -> Save(MarkUpdateRunning(req), TRUE, wrote) /\ UNCHANGED faults
    [] state = "failed" ->
         /\ IF status.why = "UpdateRequestFailed" /\ status.gen = spec.gen
            THEN Save(status, FALSE, wrote)
            ELSE Save(MarkNotReady("UpdateRequestFailed", req), FALSE, wrote)
         /\ UNCHANGED faults
    [] OTHER ->
         \/ Save(MarkReady(id, req), FALSE, wrote) /\ UNCHANGED faults
         \/ Failing /\ Save(MarkNotReady("NiFiRefreshFailed", req), TRUE, wrote)

\* Poll the request; one that NiFi does not know is an error for ever.
Poll(id) ==
  /\ Found(id) /\ Pending
  /\ LET state == request[status.req.id].state IN
     IF state = "none" THEN NotReady("UpdateRequestGetFailed") /\ UNCHANGED faults
     ELSE Answered(id, status.req.id, state, FALSE)
  /\ UNCHANGED <<others, remote>>

\* Mutant: a resource that is Ready for its generation needs no update.
NeedsUpdateUnready(id) == nifi[id] # spec.val /\ ~(status.ready /\ status.gen = spec.gen)

NeedsUpdate(id) == nifi[id] # spec.val

\* Ask NiFi for an update: it runs, is over at once, fails at once, or the call fails
\* before or after it took effect.
RequestUpdate(id) ==
  /\ Found(id) /\ ~Pending /\ NeedsUpdate(id)
  /\ \/ /\ asked < MaxRequests
        /\ asked' = asked + 1
        /\ \E state \in {"running", "done", "failed"} :
             /\ request' = [request EXCEPT ![asked + 1] =
                              [state |-> state, ctx |-> id, val |-> spec.val]]
             /\ nifi' = [nifi EXCEPT ![id] = IF state = "done" THEN spec.val ELSE @]
             /\ \/ state # "failed" /\ Answered(id, asked + 1, state, TRUE)
                \/ /\ state = "failed" /\ faults + losses < MaxFaults
                   /\ Answered(id, asked + 1, state, TRUE)
                \/ state = "running" /\ Failing /\ NotReady("UpdateRequestCreateFailed")
     \/ Failing /\ NotReady("UpdateRequestCreateFailed") /\ UNCHANGED <<nifi, request, asked>>
  /\ UNCHANGED <<others, made>>

InSync(id) ==
  /\ Found(id) /\ ~Pending /\ ~NeedsUpdate(id)
  /\ Save(MarkReady(id, status.req), FALSE, FALSE)
  /\ UNCHANGED <<others, remote, faults>>

-----------------------------------------------------------------------------
(* Deletion *)

\* Mutant: a context that is being updated is left.
KeepsPending == ~spec.delete \/ status.id = None \/ Pending

Keeps == ~spec.delete \/ status.id = None

\* The context is deleted if it is to be and still is there, whatever request is pending,
\* and the finalizer is dropped; either may fail.
Delete ==
  /\ life = "deleting" /\ queued /\ (Keeps \/ ready)
  /\ \/ Failing /\ ~Keeps /\ UNCHANGED <<nifi, life, queued, losses>>
     \/ /\ nifi' = IF Keeps THEN nifi ELSE [nifi EXCEPT ![status.id] = 0]
        /\ \/ life' = "gone" /\ queued' = FALSE /\ UNCHANGED losses
           \/ Lost /\ UNCHANGED <<life, queued>>
        /\ UNCHANGED faults
  /\ UNCHANGED <<spec, ready, edits, status, fresh, made, request, asked>>

-----------------------------------------------------------------------------
(* NiFi and users *)

\* A request that runs is applied to its context, if that still is there, or fails.
Finish(q) ==
  /\ life # "gone" /\ request[q].state = "running"
  /\ \/ /\ request' = [request EXCEPT ![q].state = "done"]
        /\ nifi' = [nifi EXCEPT ![request[q].ctx] = IF @ = 0 THEN 0 ELSE request[q].val]
        /\ fresh' = FALSE /\ UNCHANGED faults
     \/ /\ Failing
        /\ request' = [request EXCEPT ![q].state = "failed"]
        /\ UNCHANGED <<nifi, fresh>>
  /\ UNCHANGED <<others, status, queued, made, asked, losses>>

\* NiFi restarts: what it was doing for its requests is over, and it does not know them.
Forget ==
  /\ life # "gone" /\ Failing /\ \E q \in Requests : request[q].state # "none"
  /\ request' = [q \in Requests |-> [request[q] EXCEPT !.state = "none"]]
  /\ UNCHANGED <<others, status, fresh, queued, nifi, made, asked, losses>>

\* Somebody changes or deletes a context.
Meddle(id) ==
  /\ life # "gone" /\ Exists(id) /\ Failing
  /\ \E v \in {0, 3} \ {nifi[id]} : nifi' = [nifi EXCEPT ![id] = v]
  /\ fresh' = FALSE
  /\ UNCHANGED <<others, status, queued, made, request, asked, losses>>

\* The cluster becomes ready or stops being ready; all of its resources are told.
ClusterChanges ==
  /\ life # "gone"
  /\ \/ ready /\ Failing /\ ready' = FALSE
     \/ ~ready /\ ready' = TRUE /\ UNCHANGED faults
  /\ queued' = TRUE
  /\ UNCHANGED <<spec, life, edits, status, fresh, remote, losses>>

Edit ==
  /\ life = "live" /\ edits < MaxEdits
  /\ edits' = edits + 1 /\ queued' = TRUE
  /\ spec' = [spec EXCEPT !.gen = @ + 1, !.val = 3 - @]
  /\ UNCHANGED <<life, ready, status, fresh, remote, faults, losses>>

RequestDelete ==
  /\ life = "live"
  /\ life' = "deleting" /\ queued' = TRUE
  /\ UNCHANGED <<spec, ready, edits, status, fresh, remote, faults, losses>>

Reconcile ==
  \/ AwaitCluster \/ ReadFails \/ UpdateTargetNotFound \/ AdoptionRequired \/ Create
  \/ \E id \in Ids : Poll(id) \/ RequestUpdate(id) \/ InSync(id)
  \/ Delete

Next ==
  \/ Reconcile
  \/ \E q \in Requests : Finish(q)
  \/ Forget \/ ClusterChanges \/ Edit \/ RequestDelete
  \/ \E id \in Ids : Meddle(id)

Spec == Init /\ [][Next]_vars

\* The workqueue calls the reconciler; NiFi ends what it runs.
FairSpec == Spec /\ WF_vars(Reconcile) /\ \A q \in Requests : WF_vars(Finish(q))

-----------------------------------------------------------------------------
(* Properties *)

\* The asynchronous update and its polling never settle on a falsehood: when the workqueue
\* is empty and the resource is Ready for its generation with NiFi's revision, NiFi has the
\* values of that generation. (Before that it may not: the end of a request makes a
\* generation Ready that was written while the request ran.)
SettledIsTrue ==
  /\ life = "live" /\ ~queued /\ status.ready /\ status.gen = spec.gen /\ fresh
  => nifi[status.id] = spec.val

\* Requests are not piled up: beside what failures left behind, one runs at a time.
OneRequest == Cardinality({q \in Requests : request[q].state = "running"}) <= 1 + faults + losses

\* A context of the name that the policy does not let the resource adopt is not touched.
NotTaken == ~spec.adopt => nifi[1] \in {0, 3}

\* Once a resource with deletionPolicy Delete is gone, the context of its status is too,
\* even if a request was still running: it is not brought back.
DeletedMeansGone == life = "gone" /\ spec.delete /\ status.id # None => ~Exists(status.id)

\* Where nothing more is left to the bounds, NiFi knows the pending request, and the
\* context is the resource's or is not there, and the reconciler has not given up.
Calm ==
  /\ life = "live" /\ ready
  /\ Pending => request[status.req.id].state # "none"
  /\ IF status.id \in Named THEN asked < MaxRequests \/ Pending \/ ~NeedsUpdate(status.id)
     ELSE Named = {} /\ made < MaxMade /\ ~Pending
  /\ status.why \notin {"UpdateRequestFailed", "AdoptionRequired", "UpdateTargetNotFound"}

\* The resource is Ready for its last generation in the end, through updates that overlap
\* edits, failed calls and lost writes.
Converges == <>[]Calm => <>[](status.ready /\ status.gen = spec.gen)

\* A deletion ends, whatever update is under way.
DeletionEnds == []<>~(life = "deleting" /\ ready)

\* What a status says of NiFi is well formed and true, and only what is the resource's was
\* written to.
StatusIsTrue == TypeOK /\ SettledIsTrue /\ NotTaken

\* Updates and deletions come to an end, however they overlap.
ComesToRest == Converges /\ DeletionEnds

=============================================================================
