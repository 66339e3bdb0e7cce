------------------------ MODULE ParameterContextProofs ------------------------
(***************************************************************************)
(* Proofs about ParameterContext for every number of contexts, requests,   *)
(* edits and faults.                                                       *)
(***************************************************************************)
EXTENDS ParameterContext, FiniteSetTheorems, TLAPS

Generations == spec.gen = edits

\* Only MarkReady makes a status ready.
ReadyReason == status.ready => status.why = "Ready"

\* Without adoption the context that was there before is never one the resource is about:
\* once the resource has one of its own, the other is gone.
Untaken ==
  ~spec.adopt =>
    /\ nifi[1] \in {0, 3}
    /\ status.id # None => nifi[1] = 0
    /\ \A q \in Requests : request[q].ctx # 1

\* The requests that run and that the status does not wait for.
Running == {q \in Requests : request[q].state = "running"}
Strays == {q \in Running : ~(Pending /\ q = status.req.id)}
StraysCounted == Cardinality(Strays) <= faults + losses

ContextInv ==
  /\ TypeOK /\ Generations /\ ReadyReason /\ SettledIsTrue /\ Untaken /\ StraysCounted
  /\ DeletedMeansGone

-----------------------------------------------------------------------------
(* What a status write and a fault do *)

\* A status write ends with the new status, or with the old one and one more lost write.
SavedAs(s) ==
  /\ \/ status' = s /\ losses' = losses
     \/ status' = status /\ faults + losses < MaxFaults /\ losses' = losses + 1
  /\ queued' \in BOOLEAN /\ fresh' \in BOOLEAN

FaultsCounted == faults' = faults \/ (faults + losses < MaxFaults /\ faults' = faults + 1)

\* Save either writes the status or loses it.
LEMMA SaveIsSaved ==
  ASSUME TypeOK, NEW s \in Statuses, NEW again \in BOOLEAN, NEW wrote \in BOOLEAN,
         Save(s, again, wrote)
  PROVE  /\ SavedAs(s)
         /\ ~queued' => status' = s /\ s = status /\ (s.ready => fresh /\ ~wrote)
<1>1. s.ready \in BOOLEAN /\ fresh \in BOOLEAN
  BY DEF Statuses, TypeOK
<1>2. \/ status' = s /\ losses' = losses
      \/ status' = status /\ faults + losses < MaxFaults /\ losses' = losses + 1
  BY DEF Save, Lost
<1>3. queued' \in BOOLEAN
  BY DEF Save
<1>4. fresh' \in BOOLEAN
  BY <1>1, Zenon DEF Save
<1>5. ~queued' => status' = s /\ s = status /\ (s.ready => fresh /\ ~wrote)
  BY Zenon DEF Save
<1> QED
  BY <1>2, <1>3, <1>4, <1>5 DEF SavedAs

\* The recorded request is one.
LEMMA RequestTyped ==
  ASSUME TypeOK
  PROVE  status.req \in StatusRequests
BY DEF TypeOK, Statuses

\* A status that says not ready.
LEMMA NotReadyMarks ==
  ASSUME TypeOK, NEW why \in Reasons, NEW r \in StatusRequests
  PROVE  /\ MarkNotReady(why, r) \in Statuses
         /\ MarkNotReady(why, r).ready = FALSE /\ MarkNotReady(why, r).req = r
         /\ MarkNotReady(why, r).id = status.id
<1>1. status \in Statuses /\ spec.gen \in 0..MaxEdits
  BY DEF TypeOK, Specs
<1>2. spec.gen \in -1..MaxEdits
  BY <1>1, BoundsAssumption
<1> QED
  BY <1>1, <1>2 DEF Statuses, MarkNotReady

\* A status that says Ready.
LEMMA ReadyMarks ==
  ASSUME TypeOK, NEW i \in Ids, NEW r \in StatusRequests
  PROVE  /\ MarkReady(i, r) \in Statuses
         /\ MarkReady(i, r).ready = TRUE /\ MarkReady(i, r).req = r
         /\ MarkReady(i, r).id = i /\ MarkReady(i, r).why = "Ready"
<1>1. spec.gen \in -1..MaxEdits
  BY BoundsAssumption DEF TypeOK, Specs
<1>2. i \in 0..(MaxMade + 1)
  BY BoundsAssumption DEF Ids
<1>3. "Ready" \in Reasons
  BY DEF Reasons
<1> QED
  BY <1>1, <1>2, <1>3 DEF Statuses, MarkReady

\* A reconcile that ends not ready: what is recorded of contexts and requests stays.
NotReadySaved(req) ==
  \E s \in Statuses :
    SavedAs(s) /\ s.ready = FALSE /\ s.id = status.id /\ s.req = req /\ (~queued' => s = status)

\* NotReady and Stop keep the request that is recorded.
LEMMA NotReadyIsSaved ==
  ASSUME TypeOK, NEW why \in Reasons, NotReady(why) \/ Stop(why)
  PROVE  NotReadySaved(status.req)
<1>1. status.req \in StatusRequests
  BY RequestTyped
<1>2. PICK again \in BOOLEAN : Save(MarkNotReady(why, status.req), again, FALSE)
  BY DEF NotReady, Stop
<1>3. /\ SavedAs(MarkNotReady(why, status.req))
      /\ ~queued' => MarkNotReady(why, status.req) = status
  BY <1>1, <1>2, NotReadyMarks, SaveIsSaved
<1> QED
  BY <1>1, <1>3, NotReadyMarks DEF NotReadySaved

-----------------------------------------------------------------------------
(* What the reconciles do *)

\* A failing call counts.
LEMMA FailingCounted == Failing => FaultsCounted
BY DEF Failing, FaultsCounted

\* Reconciles that change nothing but the status.
LEMMA QuietReconciles ==
  ASSUME TypeOK, AwaitCluster \/ ReadFails \/ UpdateTargetNotFound \/ AdoptionRequired
  PROVE  NotReadySaved(status.req) /\ FaultsCounted /\ UNCHANGED <<others, remote>>
<1>1. {"WaitingForDependencies", "NiFiGetFailed", "UpdateTargetNotFound", "AdoptionRequired"} \subseteq Reasons
  BY DEF Reasons
<1>2. CASE AwaitCluster
  BY <1>1, <1>2, NotReadyIsSaved DEF AwaitCluster, FaultsCounted
<1>3. CASE ReadFails
  BY <1>1, <1>3, NotReadyIsSaved, FailingCounted DEF ReadFails
<1>4. CASE UpdateTargetNotFound
  BY <1>1, <1>4, NotReadyIsSaved DEF UpdateTargetNotFound, FaultsCounted
<1>5. CASE AdoptionRequired
  BY <1>1, <1>5, NotReadyIsSaved DEF AdoptionRequired, FaultsCounted
<1> QED
  BY <1>2, <1>3, <1>4, <1>5

\* The status of a reconcile that succeeds.
ReadySaved(id, req) ==
  \E s \in Statuses :
    /\ SavedAs(s) /\ s.ready = TRUE /\ s.why = "Ready" /\ s.id = id /\ s.req = req
    /\ ~queued' => s = status

\* MarkReady, written or lost.
LEMMA ReadyIsSaved ==
  ASSUME TypeOK, NEW id \in Ids, NEW req \in StatusRequests, NEW wrote \in BOOLEAN,
         Save(MarkReady(id, req), FALSE, wrote)
  PROVE  ReadySaved(id, req)
<1>1. MarkReady(id, req) \in Statuses
  BY ReadyMarks
<1>2. SavedAs(MarkReady(id, req)) /\ (~queued' => MarkReady(id, req) = status)
  BY <1>1, SaveIsSaved
<1> QED
  BY <1>1, <1>2, ReadyMarks DEF ReadySaved

\* A create that took effect, with its answer or without.
Created == made < MaxMade /\ made' = made + 1 /\ nifi' = [nifi EXCEPT ![made + 2] = spec.val]

\* Create makes a context, and records it unless the answer or the write is lost.
LEMMA CreateReconciles ==
  ASSUME TypeOK, Create
  PROVE  /\ FaultsCounted /\ UNCHANGED <<others, request, asked>> /\ Named = {} /\ ~Pending
         /\ \/ Created /\ ReadySaved(made + 2, status.req)
            \/ (Created \/ UNCHANGED <<nifi, made>>) /\ NotReadySaved(status.req)
<1>1. "NiFiCreateFailed" \in Reasons /\ status.req \in StatusRequests
  BY RequestTyped DEF Reasons
<1>2. UNCHANGED <<others, request, asked>> /\ Named = {} /\ ~Pending
  BY DEF Create
<1>3. CASE Created /\ Save(MarkReady(made + 2, status.req), FALSE, FALSE) /\ UNCHANGED faults
  <2>1. made + 2 \in Ids
    BY <1>3, BoundsAssumption DEF Created, TypeOK, Ids
  <2> QED
    BY <1>1, <1>2, <1>3, <2>1, ReadyIsSaved DEF FaultsCounted
<1>4. CASE (Created \/ UNCHANGED <<nifi, made>>) /\ Failing /\ NotReady("NiFiCreateFailed")
  BY <1>1, <1>2, <1>4, NotReadyIsSaved, FailingCounted
<1> QED
  BY <1>3, <1>4 DEF Create, Created

\* What the status becomes when NiFi answers with request `q` in a state.
AnsweredSaved(id, q, state, wrote) ==
  \/ state = "running" /\ NotReadySaved([id |-> q, complete |-> FALSE])
  \/ state = "failed" /\ NotReadySaved([id |-> q, complete |-> TRUE])
  \/ state = "failed" /\ NotReadySaved(status.req)
  \/ state = "done" /\ ReadySaved(id, [id |-> q, complete |-> TRUE]) /\ (~queued' => ~wrote)
  \/ state = "done" /\ NotReadySaved([id |-> q, complete |-> TRUE])

\* The answer is recorded or lost.
LEMMA AnsweredIsSaved ==
  ASSUME TypeOK, ReadyReason, NEW id \in Ids, NEW q \in Requests, NEW wrote \in BOOLEAN,
         NEW state \in {"running", "done", "failed"}, Answered(id, q, state, wrote)
  PROVE  FaultsCounted /\ AnsweredSaved(id, q, state, wrote)
<1> DEFINE req == [id |-> q, complete |-> state \in {"done", "failed"}]
<1>1. req \in StatusRequests /\ {"UpdateRunning", "UpdateRequestFailed", "NiFiRefreshFailed"} \subseteq Reasons
  <2>1. q \in 0..MaxRequests
    BY BoundsAssumption DEF Requests
  <2>2. (state \in {"done", "failed"}) \in BOOLEAN
    OBVIOUS
  <2> QED
    BY <2>1, <2>2 DEF StatusRequests, Reasons
<1>2. ASSUME NEW why \in Reasons, NEW again \in BOOLEAN, Save(MarkNotReady(why, req), again, wrote)
      PROVE  NotReadySaved(req)
  <2>0. req \in StatusRequests /\ why \in Reasons
    BY <1>1, <1>2
  <2> HIDE DEF req
  <2>1. /\ MarkNotReady(why, req) \in Statuses
        /\ MarkNotReady(why, req).ready = FALSE /\ MarkNotReady(why, req).id = status.id
        /\ MarkNotReady(why, req).req = req
    BY <2>0, NotReadyMarks
  <2>2. SavedAs(MarkNotReady(why, req)) /\ (~queued' => MarkNotReady(why, req) = status)
    BY <1>2, <2>1, SaveIsSaved
  <2> QED
    BY <2>1, <2>2 DEF NotReadySaved
<1>3. CASE state = "running"
  <2>1. Save(MarkUpdateRunning(req), TRUE, wrote) /\ UNCHANGED faults
    BY <1>3 DEF Answered
  <2>2. req = [id |-> q, complete |-> FALSE]
    <3>1. (state \in {"done", "failed"}) = FALSE
      BY <1>3
    <3> QED
      BY <3>1, Zenon
  <2> HIDE DEF req
  <2> QED
    BY <1>1, <1>2, <1>3, <2>1, <2>2 DEF MarkUpdateRunning, AnsweredSaved, FaultsCounted
<1>4. CASE state = "failed"
  <2>1. UNCHANGED faults
    BY <1>4 DEF Answered
  <2>2. CASE status.why = "UpdateRequestFailed" /\ status.gen = spec.gen
    <3>1. Save(status, FALSE, wrote)
      BY <1>4, <2>2 DEF Answered
    <3>2. status \in Statuses /\ status.ready = FALSE
      BY <2>2 DEF TypeOK, Statuses, ReadyReason
    <3>3. SavedAs(status)
      BY <3>1, <3>2, SaveIsSaved
    <3> QED
      BY <1>4, <2>1, <3>2, <3>3 DEF AnsweredSaved, NotReadySaved, FaultsCounted
  <2>3. CASE ~(status.why = "UpdateRequestFailed" /\ status.gen = spec.gen)
    <3>1. Save(MarkNotReady("UpdateRequestFailed", req), FALSE, wrote)
      BY <1>4, <2>3 DEF Answered
    <3>2. req = [id |-> q, complete |-> TRUE]
      BY <1>4
    <3> HIDE DEF req
    <3> QED
      BY <1>1, <1>2, <1>4, <2>1, <3>1, <3>2 DEF AnsweredSaved, FaultsCounted
  <2> QED
    BY <2>2, <2>3
<1>5. CASE state = "done"
  <2>1. req = [id |-> q, complete |-> TRUE]
    BY <1>5
  <2>2. \/ Save(MarkReady(id, req), FALSE, wrote) /\ UNCHANGED faults
        \/ Failing /\ Save(MarkNotReady("NiFiRefreshFailed", req), TRUE, wrote)
    BY <1>5 DEF Answered
  <2> HIDE DEF req
  <2>3. CASE Save(MarkReady(id, req), FALSE, wrote) /\ UNCHANGED faults
    <3>1. ReadySaved(id, req)
      BY <1>1, <2>3, ReadyIsSaved
    <3>2. ~queued' => ~wrote
      <4>1. MarkReady(id, req) \in Statuses /\ MarkReady(id, req).ready = TRUE
        BY <1>1, ReadyMarks
      <4> QED
        BY <2>3, <4>1, SaveIsSaved
    <3> QED
      BY <1>5, <2>1, <2>3, <3>1, <3>2 DEF AnsweredSaved, FaultsCounted
  <2>4. CASE Failing /\ Save(MarkNotReady("NiFiRefreshFailed", req), TRUE, wrote)
    BY <1>1, <1>2, <1>5, <2>1, <2>4, FailingCounted DEF AnsweredSaved
  <2> QED
    BY <2>2, <2>3, <2>4
<1> QED
  BY <1>3, <1>4, <1>5

\* Polling a request that NiFi knows, or that it has forgotten.
LEMMA PollReconciles ==
  ASSUME TypeOK, ReadyReason, NEW id \in Ids, Poll(id)
  PROVE  /\ FaultsCounted /\ UNCHANGED <<others, remote>> /\ Pending /\ id = status.id
         /\ status.req.id \in Requests
         /\ \/ NotReadySaved(status.req)
            \/ AnsweredSaved(id, status.req.id, request[status.req.id].state, FALSE)
<1>1. Found(id) /\ Pending /\ UNCHANGED <<others, remote>>
  BY DEF Poll
<1>2. id = status.id
  BY <1>1 DEF Found
<1>3. status.req.id \in Requests
  BY <1>1, BoundsAssumption DEF Pending, TypeOK, Statuses, StatusRequests, Requests
<1>4. request[status.req.id].state \in RequestStates
  BY <1>3 DEF TypeOK, NifiRequests
<1>5. CASE request[status.req.id].state = "none"
  <2>1. NotReady("UpdateRequestGetFailed") /\ UNCHANGED faults
    BY <1>5 DEF Poll
  <2>2. "UpdateRequestGetFailed" \in Reasons
    BY DEF Reasons
  <2> QED
    BY <1>1, <1>2, <1>3, <2>1, <2>2, NotReadyIsSaved DEF FaultsCounted
<1>6. CASE request[status.req.id].state # "none"
  <2>1. Answered(id, status.req.id, request[status.req.id].state, FALSE)
    BY <1>6 DEF Poll
  <2>2. request[status.req.id].state \in {"running", "done", "failed"}
    BY <1>4, <1>6 DEF RequestStates
  <2> QED
    BY <1>1, <1>2, <1>3, <2>1, <2>2, AnsweredIsSaved
<1> QED
  BY <1>5, <1>6

\* An update request that NiFi took.
Asked(id, state) ==
  /\ asked < MaxRequests /\ asked' = asked + 1
  /\ request' = [request EXCEPT ![asked + 1] = [state |-> state, ctx |-> id, val |-> spec.val]]
  /\ nifi' = [nifi EXCEPT ![id] = IF state = "done" THEN spec.val ELSE nifi[id]]

\* Asking for an update.
LEMMA UpdateReconciles ==
  ASSUME TypeOK, ReadyReason, NEW id \in Ids, RequestUpdate(id)
  PROVE  /\ FaultsCounted /\ UNCHANGED <<others, made>> /\ Found(id) /\ ~Pending
         /\ \/ UNCHANGED <<nifi, request, asked>> /\ NotReadySaved(status.req)
            \/ /\ Asked(id, "running") /\ faults + losses < MaxFaults /\ faults' = faults + 1
               /\ NotReadySaved(status.req)
            \/ \E state \in {"running", "done", "failed"} :
                 Asked(id, state) /\ AnsweredSaved(id, asked + 1, state, TRUE)
<1>1. UNCHANGED <<others, made>> /\ Found(id) /\ ~Pending
  BY DEF RequestUpdate
<1>2. "UpdateRequestCreateFailed" \in Reasons
  BY DEF Reasons
<1>3. CASE Failing /\ NotReady("UpdateRequestCreateFailed") /\ UNCHANGED <<nifi, request, asked>>
  BY <1>1, <1>2, <1>3, NotReadyIsSaved, FailingCounted
<1>4. ASSUME NEW state \in {"running", "done", "failed"}, Asked(id, state),
             \/ Answered(id, asked + 1, state, TRUE)
             \/ state = "running" /\ Failing /\ NotReady("UpdateRequestCreateFailed")
      PROVE  /\ FaultsCounted
             /\ \/ /\ Asked(id, "running") /\ faults + losses < MaxFaults /\ faults' = faults + 1
                   /\ NotReadySaved(status.req)
                \/ AnsweredSaved(id, asked + 1, state, TRUE)
  <2>1. asked + 1 \in Requests
    BY <1>4, BoundsAssumption DEF Asked, TypeOK, Requests
  <2>2. CASE Answered(id, asked + 1, state, TRUE)
    BY <2>1, <2>2, AnsweredIsSaved
  <2>3. CASE state = "running" /\ Failing /\ NotReady("UpdateRequestCreateFailed")
    BY <1>2, <1>4, <2>3, NotReadyIsSaved, FailingCounted DEF Failing
  <2> QED
    BY <1>4, <2>2, <2>3
<1>5. CASE /\ asked < MaxRequests /\ asked' = asked + 1
           /\ \E state \in {"running", "done", "failed"} :
                /\ request' = [request EXCEPT ![asked + 1] =
                                 [state |-> state, ctx |-> id, val |-> spec.val]]
                /\ nifi' = [nifi EXCEPT ![id] = IF state = "done" THEN spec.val ELSE @]
                /\ \/ Answered(id, asked + 1, state, TRUE)
                   \/ state = "running" /\ Failing /\ NotReady("UpdateRequestCreateFailed")
  <2>1. PICK state \in {"running", "done", "failed"} :
          /\ Asked(id, state)
          /\ \/ Answered(id, asked + 1, state, TRUE)
             \/ state = "running" /\ Failing /\ NotReady("UpdateRequestCreateFailed")
    BY <1>5 DEF Asked
  <2> QED
    BY <1>1, <1>4, <2>1
<1> QED
  BY <1>3, <1>5 DEF RequestUpdate

\* A context that has the values of the spec.
LEMMA InSyncReconciles ==
  ASSUME TypeOK, NEW id \in Ids, InSync(id)
  PROVE  /\ FaultsCounted /\ UNCHANGED <<others, remote>> /\ Found(id) /\ ~Pending
         /\ nifi[id] = spec.val /\ ReadySaved(id, status.req)
<1>1. status.req \in StatusRequests
  BY RequestTyped
<1>2. Save(MarkReady(id, status.req), FALSE, FALSE)
  BY DEF InSync
<1> QED
  BY <1>1, <1>2, ReadyIsSaved DEF InSync, NeedsUpdate, FaultsCounted

-----------------------------------------------------------------------------
(* Types *)

\* The initial state.
LEMMA InitInv == Init => ContextInv
<1> SUFFICES ASSUME Init PROVE ContextInv
  OBVIOUS
<1>1. spec \in [gen : {0}, val : {1}, adopt : Adoption, delete : BOOLEAN]
  BY Zenon DEF Init
<1>2. status = [id |-> 0, gen |-> -1, ready |-> FALSE, why |-> "", req |-> NoRequest]
  BY Zenon DEF Init, None
<1>3. request = [q \in Requests |-> [state |-> "none", ctx |-> 0, val |-> 0]]
  BY Zenon DEF Init
<1>4. /\ life = "live" /\ fresh = FALSE /\ ready = TRUE /\ queued = TRUE /\ made = 0 /\ asked = 0
      /\ edits = 0 /\ faults = 0 /\ losses = 0
  BY Zenon DEF Init
<1>5. nifi \in [Ids -> {0, 3}]
  <2>1. PICK there \in Present : nifi = [id \in Ids |-> IF id = 1 /\ there THEN 3 ELSE 0]
    BY Zenon DEF Init
  <2> DEFINE first(id) == id = 1 /\ there
  <2>2. nifi = [id \in Ids |-> IF first(id) THEN 3 ELSE 0]
    BY <2>1
  <2> HIDE DEF first
  <2> QED
    BY <2>2
<1>6. TypeOK
  <2>1. spec \in Specs
    <3>1. spec.adopt \in BOOLEAN /\ spec.gen = 0 /\ 0 \in 0..MaxEdits
      BY <1>1, ChoicesAssumption, BoundsAssumption
    <3> QED
      BY <1>1, <3>1 DEF Specs
  <2>2. status \in Statuses
    <3>1. NoRequest \in StatusRequests /\ "" \in Reasons /\ -1 \in -1..MaxEdits /\ 0 \in 0..(MaxMade + 1)
      BY BoundsAssumption DEF StatusRequests, NoRequest, Reasons
    <3> QED
      BY <1>2, <3>1 DEF Statuses
  <2>3. nifi \in [Ids -> 0..3]
    BY <1>5
  <2>4. request \in [Requests -> NifiRequests]
    BY <1>3, BoundsAssumption DEF NifiRequests, RequestStates
  <2> QED
    <3>1. /\ made \in 0..MaxMade /\ asked \in 0..MaxRequests /\ edits \in 0..MaxEdits
          /\ faults \in 0..MaxFaults /\ losses \in 0..MaxFaults
      BY <1>4, BoundsAssumption
    <3>2. life \in {"live", "deleting", "gone"} /\ fresh \in BOOLEAN /\ ready \in BOOLEAN /\ queued \in BOOLEAN
      BY <1>4
    <3> QED
      BY <2>1, <2>2, <2>3, <2>4, <3>1, <3>2 DEF TypeOK
<1>7. Generations /\ ReadyReason /\ SettledIsTrue /\ DeletedMeansGone
  BY <1>1, <1>2, <1>4 DEF Generations, ReadyReason, SettledIsTrue, DeletedMeansGone
<1>8. Untaken
  <2>1. 1 \in Ids
    BY BoundsAssumption DEF Ids
  <2>2. nifi[1] \in {0, 3} /\ status.id = None /\ \A q \in Requests : request[q].ctx = 0
    BY <1>2, <1>3, <1>5, <2>1 DEF None
  <2> QED
    BY <2>2 DEF Untaken
<1>9. StraysCounted
  <2>1. Strays = {}
    BY <1>3 DEF Strays, Running
  <2> QED
    BY <1>4, <2>1, FS_EmptySet DEF StraysCounted
<1> QED
  BY <1>6, <1>7, <1>8, <1>9 DEF ContextInv

\* Every status write keeps the types of what it touches.
LEMMA WriteTyped ==
  ASSUME TypeOK, FaultsCounted, \E s \in Statuses : SavedAs(s)
  PROVE  /\ status' \in Statuses /\ queued' \in BOOLEAN /\ fresh' \in BOOLEAN
         /\ faults' \in 0..MaxFaults /\ losses' \in 0..MaxFaults
<1>1. status' \in Statuses /\ queued' \in BOOLEAN /\ fresh' \in BOOLEAN
  BY DEF SavedAs, TypeOK
<1>2. faults' \in 0..MaxFaults
  BY BoundsAssumption DEF FaultsCounted, TypeOK
<1>3. losses' \in 0..MaxFaults
  BY BoundsAssumption DEF SavedAs, TypeOK
<1> QED
  BY <1>1, <1>2, <1>3

\* Every kind of end of a reconcile is a status write.
LEMMA WrittenEnds ==
  /\ \A req : NotReadySaved(req) => \E s \in Statuses : SavedAs(s)
  /\ \A id, req : ReadySaved(id, req) => \E s \in Statuses : SavedAs(s)
  /\ \A id, q, state, wrote : AnsweredSaved(id, q, state, wrote) => \E s \in Statuses : SavedAs(s)
BY DEF NotReadySaved, ReadySaved, AnsweredSaved

\* The reconciler of a live resource keeps the types.
LEMMA LiveTyped ==
  ASSUME TypeOK, ReadyReason, Generations,
         \/ AwaitCluster \/ ReadFails \/ UpdateTargetNotFound \/ AdoptionRequired \/ Create
         \/ \E id \in Ids : Poll(id) \/ RequestUpdate(id) \/ InSync(id)
  PROVE  TypeOK' /\ Generations'
<1>1. ASSUME UNCHANGED others, FaultsCounted, \E s \in Statuses : SavedAs(s),
             nifi' \in [Ids -> 0..3], made' \in 0..MaxMade,
             request' \in [Requests -> NifiRequests], asked' \in 0..MaxRequests
      PROVE  TypeOK' /\ Generations'
  BY <1>1, WriteTyped DEF others, TypeOK, Generations
<1>2. nifi \in [Ids -> 0..3] /\ made \in 0..MaxMade /\ asked \in 0..MaxRequests
      /\ request \in [Requests -> NifiRequests]
  BY DEF TypeOK
<1>3. CASE AwaitCluster \/ ReadFails \/ UpdateTargetNotFound \/ AdoptionRequired
  <2>1. FaultsCounted /\ UNCHANGED <<others, remote>> /\ \E s \in Statuses : SavedAs(s)
    BY <1>3, QuietReconciles, WrittenEnds
  <2> QED
    BY <1>1, <1>2, <2>1 DEF remote
<1>4. CASE Create
  <2>1. FaultsCounted /\ UNCHANGED <<others, request, asked>> /\ \E s \in Statuses : SavedAs(s)
    BY <1>4, CreateReconciles, WrittenEnds
  <2>2. Created \/ UNCHANGED <<nifi, made>>
    BY <1>4, CreateReconciles
  <2>3. spec.val \in 0..3
    BY DEF TypeOK, Specs
  <2>4. nifi' \in [Ids -> 0..3] /\ made' \in 0..MaxMade
    BY <1>2, <2>2, <2>3, BoundsAssumption DEF Created
  <2> QED
    BY <1>1, <1>2, <2>1, <2>4
<1>5. ASSUME NEW id \in Ids, Poll(id) \/ InSync(id)
      PROVE  TypeOK' /\ Generations'
  <2>1. FaultsCounted /\ UNCHANGED <<others, remote>> /\ \E s \in Statuses : SavedAs(s)
    BY <1>5, PollReconciles, InSyncReconciles, WrittenEnds
  <2> QED
    BY <1>1, <1>2, <2>1 DEF remote
<1>6. ASSUME NEW id \in Ids, RequestUpdate(id)
      PROVE  TypeOK' /\ Generations'
  <2>1. FaultsCounted /\ UNCHANGED <<others, made>> /\ \E s \in Statuses : SavedAs(s)
    BY <1>6, UpdateReconciles, WrittenEnds
  <2>2. \/ UNCHANGED <<nifi, request, asked>>
        \/ \E state \in {"running", "done", "failed"} : Asked(id, state)
    BY <1>6, UpdateReconciles
  <2>3. spec.val \in 0..3 /\ spec.val \in 0..2 /\ id \in 0..(MaxMade + 1)
    BY BoundsAssumption DEF TypeOK, Specs, Ids
  <2>4. nifi' \in [Ids -> 0..3] /\ asked' \in 0..MaxRequests
    BY <1>2, <2>2, <2>3, BoundsAssumption DEF Asked
  <2>5. request' \in [Requests -> NifiRequests]
    BY <1>2, <2>2, <2>3 DEF Asked, NifiRequests, RequestStates
  <2> QED
    BY <1>1, <1>2, <2>1, <2>4, <2>5
<1> QED
  BY <1>3, <1>4, <1>5, <1>6

\* A deletion, NiFi, users and the cluster keep the types.
LEMMA OthersTyped ==
  ASSUME TypeOK, Generations,
         \/ Delete \/ Forget \/ ClusterChanges \/ Edit \/ RequestDelete
         \/ (\E q \in Requests : Finish(q)) \/ (\E id \in Ids : Meddle(id))
  PROVE  TypeOK' /\ Generations'
<1>1. Failing => faults' \in 0..MaxFaults
  BY BoundsAssumption DEF Failing, TypeOK
<1>2. CASE Delete
  <2>1. nifi' \in [Ids -> 0..3]
    <3>1. nifi' \in {nifi, [nifi EXCEPT ![status.id] = 0]}
      BY <1>2, Zenon DEF Delete
    <3> QED
      BY <3>1 DEF TypeOK
  <2>2. life' \in {"live", "deleting", "gone"} /\ queued' \in BOOLEAN
    BY <1>2, Zenon DEF Delete, TypeOK
  <2>3. (Failing \/ UNCHANGED faults) /\ (Lost \/ UNCHANGED losses)
    BY <1>2, Zenon DEF Delete
  <2>4. faults' \in 0..MaxFaults /\ losses' \in 0..MaxFaults
    BY <1>1, <2>3, BoundsAssumption DEF Lost, TypeOK
  <2>5. UNCHANGED <<spec, ready, edits, status, fresh, made, request, asked>>
    BY <1>2, Zenon DEF Delete
  <2> QED
    BY <2>1, <2>2, <2>4, <2>5 DEF TypeOK, Generations
<1>3. CASE Forget
  <2>1. request' \in [Requests -> NifiRequests]
    BY <1>3 DEF Forget, TypeOK, NifiRequests, RequestStates
  <2> QED
    BY <1>1, <1>3, <2>1 DEF Forget, TypeOK, Generations, others
<1>4. CASE ClusterChanges
  BY <1>1, <1>4 DEF ClusterChanges, TypeOK, Generations, remote
<1>5. CASE Edit
  <2>1. spec' \in Specs /\ spec'.gen = edits' /\ edits' \in 0..MaxEdits
    <3>1. spec \in Specs /\ spec.gen = edits /\ edits + 1 \in 0..MaxEdits /\ spec.val \in {1, 2}
      BY <1>5, BoundsAssumption DEF Edit, TypeOK, Generations, Specs
    <3>2. 3 - spec.val \in {1, 2}
      BY <3>1
    <3> QED
      BY <1>5, <3>1, <3>2 DEF Edit, Specs
  <2> QED
    BY <1>5, <2>1 DEF Edit, TypeOK, Generations, remote
<1>6. CASE RequestDelete
  BY <1>6 DEF RequestDelete, TypeOK, Generations, remote
<1>7. ASSUME NEW q \in Requests, Finish(q)
      PROVE  TypeOK' /\ Generations'
  <2>1. request[q] \in NifiRequests /\ request[q].val \in 0..3
    BY DEF TypeOK, NifiRequests
  <2>2. request' \in [Requests -> NifiRequests]
    BY <1>7, <2>1 DEF Finish, TypeOK, NifiRequests, RequestStates
  <2>3. nifi' \in [Ids -> 0..3]
    BY <1>7, <2>1 DEF Finish, TypeOK
  <2>4. fresh' \in BOOLEAN /\ faults' \in 0..MaxFaults
    BY <1>1, <1>7 DEF Finish, TypeOK
  <2> QED
    BY <1>7, <2>2, <2>3, <2>4 DEF Finish, TypeOK, Generations, others
<1>8. ASSUME NEW id \in Ids, Meddle(id)
      PROVE  TypeOK' /\ Generations'
  <2>1. nifi' \in [Ids -> 0..3]
    BY <1>8 DEF Meddle, TypeOK
  <2> QED
    BY <1>1, <1>8, <2>1 DEF Meddle, TypeOK, Generations, others
<1> QED
  BY <1>2, <1>3, <1>4, <1>5, <1>6, <1>7, <1>8

-----------------------------------------------------------------------------
(* The invariant, step by step *)

\* A live resource that is being reconciled.
LiveReconcile ==
  \/ AwaitCluster \/ ReadFails \/ UpdateTargetNotFound \/ AdoptionRequired \/ Create
  \/ \E id \in Ids : Poll(id) \/ RequestUpdate(id) \/ InSync(id)

\* What a status write does to readiness and to the resource's context.
LEMMA WriteKeeps ==
  ASSUME TypeOK, ReadyReason
  PROVE  /\ \A req : NotReadySaved(req) =>
              (status'.ready => status'.why = "Ready") /\ status'.id = status.id /\ (~queued' => ~status'.ready)
         /\ \A id, req : ReadySaved(id, req) =>
              /\ status'.ready => status'.why = "Ready"
              /\ status'.id \in {status.id, id}
              /\ ~queued' => status' = status /\ status.id = id /\ status.req = req
         /\ \A id, q, state, wrote : AnsweredSaved(id, q, state, wrote) =>
              /\ status'.ready => status'.why = "Ready"
              /\ status'.id \in {status.id, id}
<1>1. ASSUME NEW req, NotReadySaved(req)
      PROVE  (status'.ready => status'.why = "Ready") /\ status'.id = status.id /\ (~queued' => ~status'.ready)
  BY <1>1 DEF NotReadySaved, SavedAs, ReadyReason
<1>2. ASSUME NEW id, NEW req, ReadySaved(id, req)
      PROVE  /\ status'.ready => status'.why = "Ready"
             /\ status'.id \in {status.id, id}
             /\ ~queued' => status' = status /\ status.id = id /\ status.req = req
  BY <1>2 DEF ReadySaved, SavedAs, ReadyReason
<1> QED
  BY <1>1, <1>2 DEF AnsweredSaved

\* A settled Ready is true: only InSync and a create leave the workqueue empty and Ready.
LEMMA LiveSettled ==
  ASSUME TypeOK, ReadyReason, LiveReconcile
  PROVE  ReadyReason' /\ SettledIsTrue'
<1>1. SUFFICES /\ status'.ready => status'.why = "Ready"
               /\ ~queued' => (status'.ready => nifi'[status'.id] = spec'.val)
  BY DEF ReadyReason, SettledIsTrue
<1>2. CASE AwaitCluster \/ ReadFails \/ UpdateTargetNotFound \/ AdoptionRequired
  BY <1>2, QuietReconciles, WriteKeeps
<1>3. CASE Create
  <2>1. CASE NotReadySaved(status.req)
    BY <2>1, WriteKeeps
  <2>2. CASE Created /\ ReadySaved(made + 2, status.req)
    <3>1. made + 2 \in Ids
      BY <2>2, BoundsAssumption DEF Created, TypeOK, Ids
    <3>2. nifi'[made + 2] = spec.val /\ spec' = spec
      BY <1>3, <2>2, <3>1, CreateReconciles DEF Created, TypeOK, others
    <3> QED
      BY <2>2, <3>2, WriteKeeps
  <2> QED
    BY <1>3, <2>1, <2>2, CreateReconciles
<1>4. ASSUME NEW id \in Ids, Poll(id)
      PROVE  /\ status'.ready => status'.why = "Ready"
             /\ ~queued' => (status'.ready => nifi'[status'.id] = spec'.val)
  <2>1. status'.ready => status'.why = "Ready"
    BY <1>4, PollReconciles, WriteKeeps
  <2>2. ASSUME ~queued'
        PROVE  ~status'.ready
    <3> DEFINE st == request[status.req.id].state
               done == [id |-> status.req.id, complete |-> TRUE]
    <3>1. ~ReadySaved(id, done)
      <4>1. status.req # done
        <5>1. ~status.req.complete
          BY <1>4, PollReconciles DEF Pending
        <5> QED
          BY <5>1
      <4> QED
        BY <2>2, <4>1, WriteKeeps
    <3>2. \E req : NotReadySaved(req)
      BY <1>4, <3>1, PollReconciles DEF AnsweredSaved
    <3> QED
      BY <2>2, <3>2, WriteKeeps
  <2> QED
    BY <2>1, <2>2
<1>5. ASSUME NEW id \in Ids, RequestUpdate(id)
      PROVE  /\ status'.ready => status'.why = "Ready"
             /\ ~queued' => (status'.ready => nifi'[status'.id] = spec'.val)
  <2>1. status'.ready => status'.why = "Ready"
    BY <1>5, UpdateReconciles, WriteKeeps
  <2>2. ASSUME ~queued'
        PROVE  \E req : NotReadySaved(req)
    BY <1>5, <2>2, UpdateReconciles DEF AnsweredSaved
  <2> QED
    BY <2>1, <2>2, WriteKeeps
<1>6. ASSUME NEW id \in Ids, InSync(id)
      PROVE  /\ status'.ready => status'.why = "Ready"
             /\ ~queued' => (status'.ready => nifi'[status'.id] = spec'.val)
  <2>1. ReadySaved(id, status.req) /\ UNCHANGED <<spec, nifi>> /\ nifi[id] = spec.val
    BY <1>6, InSyncReconciles DEF others, remote
  <2> QED
    BY <2>1, WriteKeeps
<1> QED
  BY <1>2, <1>3, <1>4, <1>5, <1>6 DEF LiveReconcile

\* Without adoption the reconciler leaves alone what was there before.
LEMMA LiveUntaken ==
  ASSUME TypeOK, ReadyReason, Untaken, LiveReconcile
  PROVE  Untaken'
<1>0. 1 \in Ids
  BY BoundsAssumption DEF Ids
<1>1. ASSUME UNCHANGED <<spec, nifi, request>>, status'.id = status.id
      PROVE  Untaken'
  BY <1>1 DEF Untaken
<1>2. CASE AwaitCluster \/ ReadFails \/ UpdateTargetNotFound \/ AdoptionRequired
  BY <1>1, <1>2, QuietReconciles, WriteKeeps DEF others, remote
<1>3. CASE Create
  <2>1. UNCHANGED <<spec, request>> /\ Named = {} /\ (Created \/ UNCHANGED nifi)
    BY <1>3, CreateReconciles DEF others
  <2>2. nifi[1] = 0
    BY <1>0, <2>1 DEF Named, Exists
  <2>3. nifi'[1] = 0
    BY <1>0, <2>1, <2>2, BoundsAssumption DEF Created, TypeOK
  <2> QED
    BY <2>1, <2>3 DEF Untaken
<1>4. ASSUME NEW id \in Ids, Poll(id)
      PROVE  Untaken'
  <2>1. status'.id = status.id /\ UNCHANGED <<spec, nifi, request>>
    BY <1>4, PollReconciles, WriteKeeps DEF others, remote
  <2> QED
    BY <1>1, <2>1
<1>5. ASSUME NEW id \in Ids, Found(id), ~spec.adopt
      PROVE  status.id # None /\ nifi[1] = 0 /\ id # 1
  <2>1. status.id # None
    BY <1>5, BoundsAssumption DEF Found, Ids, None
  <2>2. nifi[1] = 0
    BY <1>5, <2>1 DEF Untaken
  <2> QED
    BY <1>5, <2>1, <2>2 DEF Found, Exists
<1>6. ASSUME NEW id \in Ids, RequestUpdate(id)
      PROVE  Untaken'
  <2>1. spec' = spec /\ Found(id) /\ status'.id \in {status.id, id}
    BY <1>6, UpdateReconciles, WriteKeeps DEF others
  <2>2. \/ UNCHANGED <<nifi, request>>
        \/ \E state \in {"running", "done", "failed"} : Asked(id, state)
    BY <1>6, UpdateReconciles
  <2>3. SUFFICES ASSUME ~spec.adopt
                 PROVE  nifi'[1] = 0 /\ \A q \in Requests : request'[q].ctx # 1
    BY <2>1 DEF Untaken
  <2>4. nifi[1] = 0 /\ id # 1 /\ \A q \in Requests : request[q].ctx # 1
    BY <1>5, <2>1, <2>3 DEF Untaken
  <2> QED
    BY <1>0, <2>2, <2>4 DEF Asked, TypeOK
<1>7. ASSUME NEW id \in Ids, InSync(id)
      PROVE  Untaken'
  <2>1. UNCHANGED <<spec, nifi, request>> /\ Found(id)
    BY <1>7, InSyncReconciles DEF others, remote
  <2> QED
    BY <1>5, <2>1 DEF Untaken
<1> QED
  BY <1>2, <1>3, <1>4, <1>6, <1>7 DEF LiveReconcile

-----------------------------------------------------------------------------
(* Requests that nobody waits for *)

\* The counters of failures never go back.
FailuresGrow == faults' \in {faults, faults + 1} /\ losses' \in {losses, losses + 1}

\* The sets of requests are finite.
LEMMA RequestsFinite == IsFiniteSet(Requests) /\ IsFiniteSet(Running) /\ IsFiniteSet(Strays)
<1>1. IsFiniteSet(Requests)
  BY FS_Interval, BoundsAssumption DEF Requests
<1> QED
  BY <1>1, FS_Subset DEF Running, Strays

\* A step that adds no stray keeps the count.
LEMMA NoNewStray ==
  ASSUME TypeOK, StraysCounted, FailuresGrow, Strays' \subseteq Strays
  PROVE  StraysCounted'
<1>1. Cardinality(Strays') <= Cardinality(Strays) /\ Cardinality(Strays') \in Nat /\ Cardinality(Strays) \in Nat
  BY RequestsFinite, FS_Subset, FS_CardinalityType
<1>2. faults \in Nat /\ losses \in Nat /\ Cardinality(Strays) <= faults + losses
  BY BoundsAssumption DEF TypeOK, StraysCounted
<1> QED
  BY <1>1, <1>2 DEF FailuresGrow, StraysCounted

\* A step that adds one stray and counts a failure keeps the count.
LEMMA OneNewStray ==
  ASSUME TypeOK, StraysCounted, FailuresGrow, faults' = faults + 1 \/ losses' = losses + 1,
         NEW q, Strays' \subseteq Strays \cup {q}
  PROVE  StraysCounted'
<1>1. IsFiniteSet(Strays \cup {q}) /\ Cardinality(Strays \cup {q}) <= Cardinality(Strays) + 1
  <2>1. IsFiniteSet(Strays) /\ Cardinality(Strays) \in Nat
    BY RequestsFinite, FS_CardinalityType
  <2>2. /\ IsFiniteSet(Strays \cup {q})
        /\ Cardinality(Strays \cup {q}) =
             IF q \in Strays THEN Cardinality(Strays) ELSE Cardinality(Strays) + 1
    BY <2>1, FS_AddElement
  <2> QED
    BY <2>1, <2>2
<1>2. /\ Cardinality(Strays') <= Cardinality(Strays \cup {q})
      /\ Cardinality(Strays') \in Nat /\ Cardinality(Strays) \in Nat /\ Cardinality(Strays \cup {q}) \in Nat
  BY <1>1, RequestsFinite, FS_Subset, FS_CardinalityType
<1>3. faults \in Nat /\ losses \in Nat /\ Cardinality(Strays) <= faults + losses
  BY BoundsAssumption DEF TypeOK, StraysCounted
<1> QED
  BY <1>1, <1>2, <1>3 DEF FailuresGrow, StraysCounted

\* The request that the status holds after a write.
LEMMA RequestSaved ==
  ASSUME NEW req
  PROVE  /\ NotReadySaved(req) =>
              \/ status'.req = req /\ losses' = losses
              \/ status'.req = status.req /\ losses' = losses + 1
         /\ \A id : ReadySaved(id, req) =>
              \/ status'.req = req /\ losses' = losses
              \/ status'.req = status.req /\ losses' = losses + 1
BY DEF NotReadySaved, ReadySaved, SavedAs

\* The request that the status holds after NiFi's answer.
LEMMA RequestAnswered ==
  ASSUME NEW id, NEW q, NEW state, NEW wrote, AnsweredSaved(id, q, state, wrote)
  PROVE  /\ losses' \in {losses, losses + 1}
         /\ \/ status'.req = status.req /\ (losses' = losses + 1 \/ state = "failed")
            \/ state = "running" /\ status'.req = [id |-> q, complete |-> FALSE]
            \/ state \in {"done", "failed"} /\ status'.req = [id |-> q, complete |-> TRUE]
BY RequestSaved DEF AnsweredSaved

\* The reconciler waits for every request it makes, or a failure is counted.
LEMMA LiveStrays ==
  ASSUME TypeOK, ReadyReason, StraysCounted, LiveReconcile
  PROVE  StraysCounted'
<1>1. ASSUME FaultsCounted, losses' \in {losses, losses + 1}
      PROVE  FailuresGrow
  BY <1>1 DEF FaultsCounted, FailuresGrow
<1>2. ASSUME FaultsCounted, UNCHANGED request, losses' \in {losses, losses + 1}, status'.req = status.req
      PROVE  StraysCounted'
  <2>1. Strays' = Strays
    BY <1>2 DEF Strays, Running, Pending
  <2> QED
    BY <1>1, <1>2, <2>1, NoNewStray
<1>3. CASE AwaitCluster \/ ReadFails \/ UpdateTargetNotFound \/ AdoptionRequired \/ Create
  BY <1>2, <1>3, QuietReconciles, CreateReconciles, RequestSaved DEF remote
<1>4. ASSUME NEW id \in Ids, InSync(id)
      PROVE  StraysCounted'
  BY <1>2, <1>4, InSyncReconciles, RequestSaved DEF remote
<1>5. ASSUME NEW id \in Ids, Poll(id)
      PROVE  StraysCounted'
  <2>1. FaultsCounted /\ UNCHANGED request /\ Pending /\ status.req.id \in Requests
    BY <1>5, PollReconciles DEF remote
  <2>2. CASE NotReadySaved(status.req)
    BY <1>2, <2>1, <2>2, RequestSaved
  <2>3. CASE AnsweredSaved(id, status.req.id, request[status.req.id].state, FALSE)
    <3>1. losses' \in {losses, losses + 1}
      BY <2>3, RequestAnswered
    <3>2. CASE status'.req = status.req
      BY <1>2, <2>1, <3>1, <3>2
    <3>3. CASE status'.req = [id |-> status.req.id, complete |-> FALSE]
      <4>1. Pending' /\ status'.req.id = status.req.id
        BY <2>1, <3>3 DEF Pending
      <4>2. Strays' = Strays
        BY <2>1, <4>1 DEF Strays, Running
      <4> QED
        BY <1>1, <2>1, <3>1, <4>2, NoNewStray
    <3>4. CASE request[status.req.id].state \in {"done", "failed"}
      <4>1. Strays' \subseteq Strays
        BY <2>1, <3>4 DEF Strays, Running
      <4> QED
        BY <1>1, <2>1, <3>1, <4>1, NoNewStray
    <3> QED
      BY <2>3, <3>2, <3>3, <3>4, RequestAnswered
  <2> QED
    BY <1>5, <2>2, <2>3, PollReconciles
<1>6. ASSUME NEW id \in Ids, RequestUpdate(id)
      PROVE  StraysCounted'
  <2>1. FaultsCounted /\ ~Pending
    BY <1>6, UpdateReconciles
  <2>2. Strays = Running
    BY <2>1 DEF Strays
  <2>3. ASSUME NEW state \in {"running", "done", "failed"}, Asked(id, state)
        PROVE  /\ Running' \subseteq Running \cup {asked + 1}
               /\ state # "running" => Running' \subseteq Running
    BY <2>3 DEF Asked, Running, TypeOK
  <2>4. CASE UNCHANGED <<nifi, request, asked>> /\ NotReadySaved(status.req)
    BY <1>2, <2>1, <2>4, RequestSaved
  <2>5. CASE /\ Asked(id, "running") /\ faults + losses < MaxFaults /\ faults' = faults + 1
             /\ NotReadySaved(status.req)
    <3>1. Strays' \subseteq Strays \cup {asked + 1}
      BY <2>2, <2>3, <2>5 DEF Strays
    <3>2. losses' \in {losses, losses + 1}
      BY <2>5, RequestSaved
    <3> QED
      BY <1>1, <2>1, <2>5, <3>1, <3>2, OneNewStray
  <2>6. ASSUME NEW state \in {"running", "done", "failed"}, Asked(id, state),
               AnsweredSaved(id, asked + 1, state, TRUE)
        PROVE  StraysCounted'
    <3>1. FailuresGrow
      BY <1>1, <2>1, <2>6, RequestAnswered
    <3>2. CASE state # "running"
      <4>1. Strays' \subseteq Strays
        BY <2>2, <2>3, <2>6, <3>2 DEF Strays
      <4> QED
        BY <3>1, <4>1, NoNewStray
    <3>3. CASE state = "running" /\ losses' = losses + 1
      <4>1. Strays' \subseteq Strays \cup {asked + 1}
        BY <2>2, <2>3, <2>6 DEF Strays
      <4> QED
        BY <3>1, <3>3, <4>1, OneNewStray
    <3>4. CASE state = "running" /\ status'.req = [id |-> asked + 1, complete |-> FALSE]
      <4>1. asked + 1 # 0
        BY BoundsAssumption DEF TypeOK
      <4>2. Pending' /\ status'.req.id = asked + 1
        BY <3>4, <4>1 DEF Pending
      <4>3. Strays' \subseteq Strays
        BY <2>2, <2>3, <2>6, <4>2 DEF Strays
      <4> QED
        BY <3>1, <4>3, NoNewStray
    <3> QED
      BY <2>6, <3>2, <3>3, <3>4, RequestAnswered
  <2> QED
    BY <1>6, <2>4, <2>5, <2>6, UpdateReconciles
<1> QED
  BY <1>3, <1>4, <1>5, <1>6 DEF LiveReconcile

-----------------------------------------------------------------------------
(* Deletion, NiFi and users *)

\* A deletion ends with the context gone, and nothing is settled or written for it after.
LEMMA DeleteKeeps ==
  ASSUME ContextInv, Delete
  PROVE  ReadyReason' /\ SettledIsTrue' /\ Untaken' /\ StraysCounted' /\ DeletedMeansGone'
<1> USE DEF ContextInv
<1>1. UNCHANGED <<spec, ready, edits, status, fresh, made, request, asked>> /\ life' # "live"
  BY Zenon DEF Delete
<1>2. nifi' = (IF Keeps THEN nifi ELSE [nifi EXCEPT ![status.id] = 0]) \/ (nifi' = nifi /\ life' # "gone")
  BY Zenon DEF Delete
<1>3. nifi \in [Ids -> 0..3] /\ (status.id # 0 => status.id \in Ids) /\ 1 \in Ids
  BY BoundsAssumption DEF TypeOK, Statuses, Ids
<1>4. \A id \in Ids : nifi'[id] \in {nifi[id], 0}
  BY <1>2, <1>3
<1>5. ReadyReason' /\ SettledIsTrue'
  BY <1>1 DEF ReadyReason, SettledIsTrue
<1>6. Untaken'
  BY <1>1, <1>3, <1>4 DEF Untaken
<1>7. StraysCounted'
  <2>1. Strays' = Strays
    BY <1>1 DEF Strays, Running, Pending
  <2>2. (Failing \/ UNCHANGED faults) /\ (Lost \/ UNCHANGED losses)
    BY Zenon DEF Delete
  <2>3. FailuresGrow
    BY <2>2 DEF FailuresGrow, Failing, Lost
  <2> QED
    BY <2>1, <2>3, NoNewStray
<1>8. DeletedMeansGone'
  BY <1>1, <1>2, <1>3 DEF DeletedMeansGone, Keeps, Exists, None
<1> QED
  BY <1>5, <1>6, <1>7, <1>8

\* What NiFi does to requests and others to contexts leaves statuses alone and makes the
\* revision in the status an old one.
LEMMA RemoteKeeps ==
  ASSUME ContextInv, (\E q \in Requests : Finish(q)) \/ Forget \/ (\E id \in Ids : Meddle(id))
  PROVE  ReadyReason' /\ SettledIsTrue' /\ Untaken' /\ StraysCounted' /\ DeletedMeansGone'
<1> USE DEF ContextInv
<1>1. /\ UNCHANGED <<spec, life, status, queued, losses>> /\ life # "gone"
      /\ faults' \in {faults, faults + 1}
      /\ UNCHANGED <<nifi, fresh>> \/ fresh' = FALSE
  BY DEF Finish, Forget, Meddle, others, Failing
<1>2. ReadyReason' /\ SettledIsTrue' /\ DeletedMeansGone'
  BY <1>1 DEF ReadyReason, SettledIsTrue, DeletedMeansGone
<1>3. \A q \in Requests : request'[q].ctx = request[q].ctx /\ (request'[q].state = "running" => request[q].state = "running")
  BY DEF Finish, Forget, Meddle, TypeOK, NifiRequests
<1>4. StraysCounted'
  <2>1. Strays' \subseteq Strays
    BY <1>1, <1>3 DEF Strays, Running, Pending
  <2> QED
    BY <1>1, <2>1, NoNewStray DEF FailuresGrow
<1>5. Untaken'
  <2>1. 1 \in Ids
    BY BoundsAssumption DEF Ids
  <2>2. ASSUME NEW q \in Requests, Finish(q), ~spec.adopt
        PROVE  nifi'[1] = nifi[1]
    <3>1. request[q].ctx # 1
      BY <2>2 DEF Untaken
    <3> QED
      BY <2>1, <2>2, <3>1 DEF Finish, TypeOK
  <2>3. ASSUME NEW id \in Ids, Meddle(id), ~spec.adopt
        PROVE  nifi'[1] \in {0, 3} /\ (nifi[1] = 0 => nifi'[1] = 0)
    BY <2>1, <2>3 DEF Meddle, Exists, TypeOK, Untaken
  <2>4. ~spec.adopt => nifi'[1] \in {0, 3} /\ (nifi[1] = 0 => nifi'[1] = 0)
    BY <2>2, <2>3 DEF Forget, Untaken
  <2> QED
    BY <1>1, <1>3, <2>4 DEF Untaken
<1> QED
  BY <1>2, <1>4, <1>5

\* Users and the cluster put the resource back into the workqueue.
LEMMA UsersKeep ==
  ASSUME ContextInv, ClusterChanges \/ Edit \/ RequestDelete \/ UNCHANGED vars
  PROVE  ReadyReason' /\ SettledIsTrue' /\ Untaken' /\ StraysCounted' /\ DeletedMeansGone'
<1> USE DEF ContextInv
<1>1. /\ UNCHANGED <<status, nifi, request, losses>>
      /\ faults' \in {faults, faults + 1}
      /\ UNCHANGED <<spec, life, fresh, queued>> \/ queued' = TRUE
      /\ UNCHANGED <<spec, life>> \/ life' # "gone"
  BY DEF ClusterChanges, Edit, RequestDelete, vars, remote, Failing
<1>2. spec'.adopt = spec.adopt
  BY DEF ClusterChanges, Edit, RequestDelete, vars, TypeOK, Specs
<1>3. ReadyReason' /\ SettledIsTrue' /\ DeletedMeansGone'
  BY <1>1 DEF ReadyReason, SettledIsTrue, DeletedMeansGone, Exists
<1>4. Untaken'
  BY <1>1, <1>2 DEF Untaken
<1>5. StraysCounted'
  <2>1. Strays' = Strays
    BY <1>1 DEF Strays, Running, Pending
  <2> QED
    BY <1>1, <2>1, NoNewStray DEF FailuresGrow
<1> QED
  BY <1>3, <1>4, <1>5

\* Every step keeps the invariant.
LEMMA StepInv == ContextInv /\ [Next]_vars => ContextInv'
<1> SUFFICES ASSUME ContextInv, [Next]_vars PROVE ContextInv'
  OBVIOUS
<1>1. CASE LiveReconcile
  <2>1. TypeOK' /\ Generations'
    BY <1>1, LiveTyped DEF ContextInv, LiveReconcile
  <2>2. ReadyReason' /\ SettledIsTrue' /\ Untaken' /\ StraysCounted'
    BY <1>1, LiveSettled, LiveUntaken, LiveStrays DEF ContextInv
  <2>3. life' = "live"
    BY <1>1 DEF LiveReconcile, AwaitCluster, ReadFails, UpdateTargetNotFound, AdoptionRequired, Create,
       Poll, RequestUpdate, InSync, Found, Turn, others
  <2> QED
    BY <2>1, <2>2, <2>3 DEF ContextInv, DeletedMeansGone
<1>2. CASE Delete
  BY <1>2, DeleteKeeps, OthersTyped DEF ContextInv
<1>3. CASE (\E q \in Requests : Finish(q)) \/ Forget \/ (\E id \in Ids : Meddle(id))
  BY <1>3, RemoteKeeps, OthersTyped DEF ContextInv
<1>4. CASE ClusterChanges \/ Edit \/ RequestDelete
  BY <1>4, UsersKeep, OthersTyped DEF ContextInv
<1>5. CASE UNCHANGED vars
  <2>1. TypeOK' /\ Generations'
    BY <1>5 DEF vars, ContextInv, TypeOK, Generations
  <2> QED
    BY <1>5, <2>1, UsersKeep DEF ContextInv
<1> QED
  BY <1>1, <1>2, <1>3, <1>4, <1>5 DEF Next, Reconcile, LiveReconcile

-----------------------------------------------------------------------------
(* Theorems *)

\* What holds of a parameter context, its status and its requests in every state.
THEOREM ContextInvariant == Spec => []ContextInv
BY InitInv, StepInv, PTL DEF Spec

\* A resource that has settled on Ready is in NiFi as its spec says, and without adoption
\* the context that was there before is left alone (reconcileParameterContext).
THEOREM StatusesAreTrue == Spec => []StatusIsTrue
<1>1. ContextInv => StatusIsTrue
  BY DEF ContextInv, StatusIsTrue, NotTaken, Untaken
<1> QED
  BY <1>1, ContextInvariant, PTL

\* Beside what failures left behind, one update request runs at a time.
THEOREM RequestsAreOne == Spec => []OneRequest
<1>1. ContextInv => OneRequest
  <2> SUFFICES ASSUME ContextInv PROVE OneRequest
    OBVIOUS
  <2>1. Running \subseteq Strays \cup {status.req.id}
    BY DEF Strays
  <2>2. IsFiniteSet(Strays) /\ Cardinality(Strays) \in Nat
    BY RequestsFinite, FS_CardinalityType
  <2>3. /\ IsFiniteSet(Strays \cup {status.req.id})
        /\ Cardinality(Strays \cup {status.req.id}) =
             IF status.req.id \in Strays THEN Cardinality(Strays) ELSE Cardinality(Strays) + 1
    BY <2>2, FS_AddElement
  <2>4. /\ Cardinality(Running) <= Cardinality(Strays \cup {status.req.id})
        /\ Cardinality(Running) \in Nat
    BY <2>1, <2>3, RequestsFinite, FS_Subset, FS_CardinalityType
  <2>5. Cardinality(Strays) <= faults + losses /\ faults \in Nat /\ losses \in Nat
    BY BoundsAssumption DEF ContextInv, StraysCounted, TypeOK
  <2>6. Cardinality(Running) <= 1 + faults + losses
    BY <2>2, <2>3, <2>4, <2>5
  <2> QED
    BY <2>6 DEF OneRequest, Running
<1> QED
  BY <1>1, ContextInvariant, PTL

\* A resource with deletionPolicy Delete is gone only with its context, whatever request
\* was running, and the context does not come back.
THEOREM DeletionIsFinal == Spec => []DeletedMeansGone
BY ContextInvariant, PTL DEF ContextInv

=============================================================================
