----------------------- MODULE ScaleDownAndRemoteGroupProofs -----------------------
(***************************************************************************)
(* Proofs about ScaleDown for every set of pools, every size of them and   *)
(* every number of edits and faults; then proofs about RemoteGroup for     *)
(* every set of drift modes and every bound. The two components share no   *)
(* name, so that one module extends both: each theorem is about the        *)
(* specification it names, Spec or RemoteSpec.                             *)
(***************************************************************************)
EXTENDS ScaleDown, RemoteGroup, FiniteSetTheorems, TLAPS

\* A drain is of a pool above its least size, and takes at most one node.
UnderWay ==
  \A p \in Pools :
    /\ rec[p].pc = "listed" => rec[p].active
    /\ rec[p].pc # "idle" /\ rec[p].active => {rec[p].cur, rec[p].cur - 1} \subseteq Sizes(p)
    /\ rec[p].pc = "apply" /\ rec[p].active => rec[p].replicas \in {rec[p].cur, rec[p].cur - 1}

\* A reconcile without a drain has cleared the timer, and shrinks nothing while offload
\* is on.
Undrained ==
  \A p \in Pools : rec[p].pc = "apply" /\ ~rec[p].active =>
    /\ status[p] = NoStatus
    /\ rec[p].offload => rec[p].cur <= rec[p].replicas

SizeInv == TypeOK /\ UnderWay /\ Undrained

\* What a reconcile found out about its node still holds, or the pod has stopped.
ListedHolds(p) ==
  rec[p].pc = "listed" =>
    /\ rec[p].node = Absent => node[Address(p)] = Absent
    /\ rec[p].node = "OFFLOADED" /\ pod[Address(p)] =>
         node[Address(p)] \in {"OFFLOADED", "CONNECTING", "CONNECTED"}

\* A StatefulSet is shrunk over a node that has left the cluster.
RemovedIsGone(p) ==
  rec[p].pc = "apply" /\ rec[p].active /\ rec[p].replicas # rec[p].cur =>
    node[Address(p)] = Absent

\* An offloaded node holds nothing.
OffloadedIsEmpty == \A n \in Nodes : node[n] = "OFFLOADED" => ~data[n]

\* A running node that left the cluster holds nothing, unless it was forced out.
GoneIsEmpty == \A n \in Nodes : node[n] = Absent /\ pod[n] /\ data[n] => n \in given

DrainInv ==
  /\ SizeInv
  /\ \A p \in Pools : ListedHolds(p) /\ RemovedIsGone(p)
  /\ OffloadedIsEmpty
  /\ GoneIsEmpty

-----------------------------------------------------------------------------
(* Sizes *)

\* Sizes are natural numbers within the bound of the pool, and at the bound for a start.
LEMMA SizesInRange ==
  ASSUME NEW p \in Pools
  PROVE  /\ MaxReplicas[p] \in Nat /\ MaxReplicas[p] \in Sizes(p)
         /\ \A s \in Sizes(p) : s \in Nat /\ s <= MaxReplicas[p]
         /\ \A s \in Sizes(p) : p = Primary => s >= 1
         /\ \A s, t \in Sizes(p) : \A u \in Nat : s <= u /\ u <= t => u \in Sizes(p)
BY PoolsAssumption DEF Sizes

\* The initial state has its sizes in range.
LEMMA InitSized == Init => SizeInv
<1> SUFFICES ASSUME Init PROVE SizeInv
  OBVIOUS
<1>1. rec \in [Pools -> Reconciles] /\ status \in [Pools -> Timers]
  BY DEF Init, Idle, NoStatus, Reconciles, Timers, States, Absent
<1>2. \A p \in Pools : rec[p].pc = "idle" /\ status[p].node = -1
  BY DEF Init, Idle, NoStatus
<1>3. TypeOK
  BY <1>1, <1>2, SizesInRange, PoolsAssumption, BoundsAssumption DEF Init, TypeOK, States
<1> QED
  BY <1>2, <1>3 DEF SizeInv, UnderWay, Undrained

\* A fault counts.
LEMMA FaultTyped ==
  ASSUME faults \in 0..MaxFaults, Fault
  PROVE  faults' \in 0..MaxFaults
BY BoundsAssumption DEF Fault

\* A reconcile that stops leaves the sizes as they are.
LEMMA StopsSized ==
  ASSUME SizeInv, NEW p \in Pools, Stops(p), UNCHANGED status,
         faults' \in 0..MaxFaults, node' \in [Nodes -> States],
         UNCHANGED <<pod, data>>, given' \subseteq Nodes,
         due' \subseteq Pools, told' \subseteq Pools \ {Primary}
  PROVE  SizeInv'
<1>1. rec' \in [Pools -> Reconciles] /\ rec'[p].pc = "idle"
  BY DEF Stops, Idle, SizeInv, TypeOK, Reconciles, States, Absent
<1>2. \A q \in Pools \ {p} : rec'[q] = rec[q]
  BY DEF Stops, SizeInv, TypeOK
<1>3. TypeOK'
  BY <1>1, <1>2 DEF SizeInv, TypeOK, Stops, resource
<1> QED
  BY <1>1, <1>2, <1>3 DEF SizeInv, UnderWay, Undrained

\* So does one that fails before it has come to the StatefulSet.
LEMMA FailsSized ==
  ASSUME SizeInv, NEW p \in Pools, Fails(p), UNCHANGED status,
         faults' \in 0..MaxFaults, node' \in [Nodes -> States],
         UNCHANGED <<pod, data>>, given' \subseteq Nodes
  PROVE  SizeInv'
<1>1. due' \subseteq Pools /\ told' \subseteq Pools \ {Primary}
  BY DEF Fails, Call, SizeInv, TypeOK
<1> QED
  BY <1>1, StopsSized DEF Fails

\* A drain step that saves its status keeps the sizes in range.
LEMMA SaveSized ==
  ASSUME SizeInv, NEW p \in Pools, rec[p].pc = "listed",
         NEW s \in {NoStatus, StatusFor(p)}, NEW size \in {rec[p].cur, rec[p].cur - 1},
         Save(p, s, size), node' \in [Nodes -> States],
         UNCHANGED <<pod, data>>, given' \subseteq Nodes
  PROVE  SizeInv'
<1>1. s \in Timers /\ s.node < MaxReplicas[p]
  <2>1. rec[p].cur - 1 \in Nat /\ rec[p].cur - 1 < MaxReplicas[p]
    BY SizesInRange DEF SizeInv, UnderWay
  <2>2. Late(p) \in BOOLEAN
    BY Zenon DEF Late
  <2>3. StatusFor(p) \in Timers /\ StatusFor(p).node = rec[p].cur - 1
    BY <2>1, <2>2 DEF StatusFor, Timers, Target
  <2>4. NoStatus \in Timers /\ NoStatus.node = -1
    BY DEF NoStatus, Timers
  <2> QED
    BY <2>1, <2>3, <2>4, SizesInRange
<1>2. CASE Fault /\ Fails(p) /\ UNCHANGED status
  BY <1>2, FailsSized, FaultTyped DEF SizeInv, TypeOK
<1>3. CASE /\ status' = [status EXCEPT ![p] = s]
           /\ rec' = [rec EXCEPT ![p].pc = "apply", ![p].replicas = size,
                                 ![p].node = Absent, ![p].force = FALSE]
           /\ CallOnWrite(p)
           /\ UNCHANGED <<resource, sts, seen, ready, told, faults>>
  <2>1. size \in Sizes(p) /\ size \in Nat
    BY SizesInRange DEF SizeInv, UnderWay
  <2>2. rec[p] \in Reconciles
    BY DEF SizeInv, TypeOK
  <2>3. /\ rec' \in [Pools -> Reconciles]
        /\ rec'[p].pc = "apply" /\ rec'[p].replicas = size
        /\ rec'[p].cur = rec[p].cur /\ rec'[p].active = rec[p].active
    BY <1>3, <2>1, <2>2 DEF SizeInv, TypeOK, Reconciles, States, Absent
  <2>4. \A q \in Pools \ {p} : rec'[q] = rec[q] /\ status'[q] = status[q]
    BY <1>3 DEF SizeInv, TypeOK
  <2>5. status' \in [Pools -> Timers] /\ status'[p] = s
    BY <1>1, <1>3 DEF SizeInv, TypeOK
  <2>6. due' \subseteq Pools
    BY <1>3 DEF CallOnWrite, Call, SizeInv, TypeOK
  <2>7. TypeOK'
    BY <1>1, <1>3, <2>1, <2>3, <2>4, <2>5, <2>6 DEF SizeInv, TypeOK, resource
  <2> QED
    BY <2>3, <2>4, <2>7 DEF SizeInv, UnderWay, Undrained
<1> QED
  BY <1>2, <1>3 DEF Save

\* Every reconcile keeps the sizes in range.
LEMMA ReconcileSized ==
  ASSUME SizeInv, NEW p \in Pools, Reconcile(p)
  PROVE  SizeInv'
<1> USE DEF SizeInv
<1>1. CASE Settle(p)
  <2>1. CASE Fault /\ Fails(p) /\ UNCHANGED status
    BY <1>1, <2>1, FailsSized, FaultTyped DEF Settle, cluster, TypeOK
  <2>2. CASE /\ status' = [status EXCEPT ![p] = NoStatus]
             /\ rec' = [rec EXCEPT ![p] = [pc |-> "apply", cur |-> seen[p], want |-> desired[p],
                                          node |-> Absent, offload |-> offload[p],
                                          force |-> FALSE,
                                          replicas |-> desired[p], active |-> FALSE]]
             /\ due' = IF status' = status THEN Taken(p) ELSE due \cup {p}
             /\ UNCHANGED <<resource, sts, seen, ready, told, faults>>
    <3>1. rec' \in [Pools -> Reconciles]
      BY <2>2 DEF TypeOK, Reconciles, States, Absent
    <3>2. /\ rec'[p].pc = "apply" /\ ~rec'[p].active /\ rec'[p].cur = seen[p]
          /\ rec'[p].offload = offload[p] /\ rec'[p].replicas = desired[p]
      BY <2>2 DEF TypeOK
    <3>3. status' \in [Pools -> Timers] /\ status'[p] = NoStatus /\ status'[p].node = -1
      BY <2>2 DEF TypeOK, NoStatus, Timers
    <3>4. \A q \in Pools \ {p} : rec'[q] = rec[q] /\ status'[q] = status[q]
      BY <2>2 DEF TypeOK
    <3>5. offload[p] => seen[p] <= desired[p]
      BY <1>1, SizesInRange DEF Settle, ScalesDown, TypeOK
    <3>6. due' \subseteq Pools
      BY <2>2 DEF Taken, TypeOK
    <3>7. TypeOK'
      BY <1>1, <2>2, <3>1, <3>2, <3>3, <3>4, <3>6, SizesInRange
      DEF Settle, TypeOK, resource, cluster
    <3> QED
      BY <3>2, <3>3, <3>4, <3>5, <3>7 DEF UnderWay, Undrained
  <2> QED
    BY <1>1, <2>1, <2>2 DEF Settle
<1>2. CASE List(p)
  <2>1. Listed(p, Target(seen[p])) \in States
    BY DEF Listed, TypeOK, States, Absent
  <2>2. rec' \in [Pools -> Reconciles]
    BY <1>2, <2>1 DEF List, TypeOK, Reconciles
  <2>3. rec'[p].pc = "listed" /\ rec'[p].active /\ rec'[p].cur = seen[p]
    BY <1>2 DEF List, TypeOK
  <2>4. \A q \in Pools \ {p} : rec'[q] = rec[q]
    BY <1>2 DEF List, TypeOK
  <2>5. seen[p] \in Sizes(p) /\ seen[p] - 1 \in Sizes(p)
    BY <1>2, SizesInRange DEF List, ScalesDown, TypeOK, Sizes
  <2>6. TypeOK'
    BY <1>2, <2>2, <2>3, <2>4 DEF List, Taken, TypeOK, resource, cluster
  <2> QED
    BY <1>2, <2>3, <2>4, <2>5, <2>6 DEF List, UnderWay, Undrained
<1>3. CASE ListFails(p)
  BY <1>3, FailsSized, FaultTyped DEF ListFails, cluster, TypeOK
<1>4. CASE Gone(p)
  BY <1>4, SaveSized DEF Gone, InState, cluster, TypeOK
<1>5. CASE TimesOut(p)
  BY <1>5, FailsSized DEF TimesOut, cluster, TypeOK
<1>6. CASE ForceRemove(p)
  <2>1. Address(p) \in Nodes
    BY <1>6, SizesInRange DEF ForceRemove, InState, UnderWay, Address, Target, Nodes
  <2> QED
    BY <1>6, <2>1, SaveSized DEF ForceRemove, InState, TypeOK, States, Absent
<1>7. CASE Disconnect(p)
  BY <1>7, SaveSized DEF Disconnect, InTime, InState, TypeOK, States
<1>8. CASE Offload(p)
  BY <1>8, SaveSized DEF Offload, InTime, InState, TypeOK, States
<1>9. CASE Remove(p)
  BY <1>9, SaveSized DEF Remove, InTime, InState, TypeOK, States, Absent
<1>10. CASE AwaitNode(p)
  BY <1>10, SaveSized DEF AwaitNode, InTime, InState, cluster, TypeOK
<1>11. CASE Refused(p)
  BY <1>11, FailsSized DEF Refused, cluster, TypeOK
<1>12. CASE CallFails(p)
  BY <1>12, FailsSized, FaultTyped DEF CallFails, cluster, TypeOK
<1>13. CASE Apply(p)
  <2>1. rec' \in [Pools -> Reconciles] /\ rec'[p].pc = "idle"
    BY <1>13 DEF Apply, Idle, TypeOK, Reconciles, States, Absent
  <2>2. \A q \in Pools \ {p} : rec'[q] = rec[q]
    BY <1>13 DEF Apply, TypeOK
  <2>3. /\ sts' \in [Pools -> Nat] /\ \A q \in Pools : sts'[q] \in Sizes(q)
        /\ seen' \in [Pools -> Nat] /\ \A q \in Pools : seen'[q] \in Sizes(q)
    <3>1. rec[p].replicas \in Sizes(p) /\ rec[p].replicas \in Nat
      BY <1>13, SizesInRange DEF Apply, TypeOK
    <3>2. \/ sts' = sts
          \/ sts' = [sts EXCEPT ![p] = rec[p].replicas]
      BY <1>13 DEF Apply
    <3>3. seen' = seen \/ \E s \in {seen[p], rec[p].replicas} : seen' = [seen EXCEPT ![p] = s]
      BY <1>13 DEF Apply
    <3>4. sts' \in [Pools -> Nat] /\ \A q \in Pools : sts'[q] \in Sizes(q)
      BY <3>1, <3>2 DEF TypeOK
    <3>5. seen' \in [Pools -> Nat] /\ \A q \in Pools : seen'[q] \in Sizes(q)
      BY <3>1, <3>3 DEF TypeOK
    <3> QED
      BY <3>4, <3>5
  <2>4. ready' \in BOOLEAN
    <3>1. Up(p) \in BOOLEAN
      BY Zenon DEF Up
    <3> QED
      BY <1>13, <3>1 DEF Apply, TypeOK
  <2>5. faults' \in 0..MaxFaults
    BY <1>13, FaultTyped DEF Apply, TypeOK
  <2>6. due' \subseteq Pools /\ told' \subseteq Pools \ {Primary}
    BY <1>13 DEF Apply, Call, TypeOK
  <2>7. TypeOK'
    BY <1>13, <2>1, <2>2, <2>3, <2>4, <2>5, <2>6 DEF Apply, TypeOK, resource, cluster
  <2> QED
    BY <1>13, <2>1, <2>2, <2>7 DEF Apply, UnderWay, Undrained
<1>14. CASE ApplyFails(p)
  <2>1. due' \subseteq Pools /\ told' \subseteq Pools \ {Primary}
    BY <1>14 DEF ApplyFails, Call, calls, TypeOK
  <2> QED
    BY <1>14, <2>1, StopsSized, FaultTyped DEF ApplyFails, cluster, TypeOK
<1>15. CASE AwaitCluster(p)
  BY <1>15 DEF AwaitCluster, Call, TypeOK, UnderWay, Undrained, resource, cluster
<1> QED
  BY <1>1, <1>2, <1>3, <1>4, <1>5, <1>6, <1>7, <1>8, <1>9, <1>10, <1>11, <1>12, <1>13,
     <1>14, <1>15 DEF Reconcile

\* Kubernetes, NiFi and users keep the sizes in range.
LEMMA SurroundingsSized ==
  ASSUME SizeInv, Surroundings
  PROVE  SizeInv'
<1> USE DEF SizeInv
<1>1. ASSUME NEW n \in Nodes,
             \/ PodStarts(n) \/ PodStops(n) \/ PodCrashes(n) \/ Connected(n)
             \/ Disconnected(n) \/ Offloaded(n) \/ Reconnected(n) \/ Ingest(n)
      PROVE  SizeInv'
  <2>1. UNCHANGED <<resource, sts, seen, status, ready, rec>>
    BY <1>1 DEF PodStarts, PodStops, PodCrashes, Stopped, Connected, Disconnected,
       Offloaded, Reconnected, Moves, Ingest
  <2>2. node' \in [Nodes -> States]
    BY <1>1 DEF PodStarts, PodStops, PodCrashes, Stopped, Connected, Disconnected,
       Offloaded, Reconnected, Moves, Ingest, TypeOK, States, Absent
  <2>3. pod' \in [Nodes -> BOOLEAN]
    BY <1>1 DEF PodStarts, PodStops, PodCrashes, Stopped, Connected, Disconnected,
       Offloaded, Reconnected, Moves, Ingest, TypeOK
  <2>4. data' \in [Nodes -> BOOLEAN]
    <3>1. CASE Offloaded(n)
      <4>1. PICK m \in Nodes : data' = [data EXCEPT ![m] = data[m] \/ data[n], ![n] = FALSE]
        BY <3>1 DEF Offloaded
      <4>2. (data[m] \/ data[n]) \in BOOLEAN
        BY Zenon
      <4> QED
        BY <4>1, <4>2 DEF TypeOK
    <3> QED
      BY <1>1, <3>1 DEF PodStarts, PodStops, PodCrashes, Stopped, Connected, Disconnected,
         Reconnected, Moves, Ingest, TypeOK
  <2>5. given' \subseteq Nodes
    BY <1>1 DEF PodStarts, PodStops, PodCrashes, Stopped, Connected, Disconnected,
       Offloaded, Reconnected, Moves, Ingest, TypeOK
  <2>6. faults' \in 0..MaxFaults
    BY <1>1, FaultTyped DEF PodStarts, PodStops, PodCrashes, Connected, Disconnected,
       Offloaded, Reconnected, Ingest, TypeOK
  <2>7. due' \subseteq Pools /\ told' \subseteq Pools \ {Primary}
    <3>1. n[1] \in Pools
      BY DEF Nodes
    <3> QED
      BY <1>1, <3>1 DEF PodStarts, PodStops, PodCrashes, Stopped, Connected, Disconnected,
         Offloaded, Reconnected, Moves, Ingest, Call, calls, TypeOK
  <2> QED
    BY <2>1, <2>2, <2>3, <2>4, <2>5, <2>6, <2>7 DEF TypeOK, UnderWay, Undrained, resource
<1>2. ASSUME NEW p \in Pools, Expire(p)
      PROVE  SizeInv'
  <2>1. status' \in [Pools -> Timers] /\ status'[p].node = status[p].node
    BY <1>2 DEF Expire, TypeOK, Timers
  <2>2. \A q \in Pools \ {p} : status'[q] = status[q]
    BY <1>2 DEF Expire, TypeOK
  <2>3. TypeOK'
    BY <1>2, <2>1, <2>2 DEF Expire, TypeOK, resource, cluster, calls
  <2> QED
    BY <1>2, <2>2, <2>3 DEF Expire, UnderWay, Undrained
<1>3. ASSUME NEW p \in Pools,
             CacheCatchesUp(p) \/ Scale(p) \/ SwitchOffload(p) \/ SwitchPolicy(p)
      PROVE  SizeInv'
  <2>1. UNCHANGED <<sts, status, ready, rec, cluster, faults>>
    BY <1>3 DEF CacheCatchesUp, Scale, SwitchOffload, SwitchPolicy, Respec
  <2>2. /\ seen' \in [Pools -> Nat] /\ \A q \in Pools : seen'[q] \in Sizes(q)
        /\ desired' \in [Pools -> Nat] /\ \A q \in Pools : desired'[q] \in Sizes(q)
    <3>1. seen' = seen \/ seen' = [seen EXCEPT ![p] = sts[p]]
      BY <1>3 DEF CacheCatchesUp, Scale, SwitchOffload, SwitchPolicy, Respec
    <3>2. desired' = desired \/ \E r \in Sizes(p) : desired' = [desired EXCEPT ![p] = r]
      BY <1>3 DEF CacheCatchesUp, Scale, SwitchOffload, SwitchPolicy, resource
    <3> QED
      BY <3>1, <3>2, SizesInRange DEF TypeOK
  <2>3. offload' \in [Pools -> BOOLEAN] /\ force' \in [Pools -> BOOLEAN]
    BY <1>3 DEF CacheCatchesUp, Scale, SwitchOffload, SwitchPolicy, TypeOK, resource
  <2>4. edits' \in 0..MaxEdits
    BY <1>3, BoundsAssumption DEF CacheCatchesUp, Scale, SwitchOffload, SwitchPolicy,
       Respec, TypeOK, resource
  <2>5. due' \subseteq Pools /\ told' \subseteq Pools \ {Primary}
    BY <1>3 DEF CacheCatchesUp, Scale, SwitchOffload, SwitchPolicy, Respec, Call, TypeOK
  <2> QED
    BY <2>1, <2>2, <2>3, <2>4, <2>5 DEF TypeOK, UnderWay, Undrained, cluster
<1> QED
  BY <1>1, <1>2, <1>3 DEF Surroundings

\* Every step keeps the sizes in range.
LEMMA StepSized == SizeInv /\ [Next]_vars => SizeInv'
<1> SUFFICES ASSUME SizeInv, [Next]_vars PROVE SizeInv'
  OBVIOUS
<1>1. CASE UNCHANGED vars
  BY <1>1 DEF vars, resource, cluster, calls, SizeInv, TypeOK, UnderWay, Undrained
<1> QED
  BY <1>1, ReconcileSized, SurroundingsSized DEF Next

\* The sizes of StatefulSets, of the drains under way and of their timers stay in range:
\* computeOffloadStep never shrinks a pool below its least size, whichever write of a
\* reconcile is lost and however late its cache.
THEOREM TypeCorrect == Spec => []TypeOK
<1>1. SizeInv => TypeOK
  BY DEF SizeInv
<1> QED
  BY InitSized, StepSized, <1>1, PTL DEF Spec

-----------------------------------------------------------------------------
(* Timers *)

\* Only the end of a pool's reconcile changes the size of its StatefulSet.
LEMMA OnlyApplyResizes ==
  ASSUME SizeInv, Next, NEW p \in Pools, sts'[p] # sts[p]
  PROVE  Apply(p) /\ sts'[p] = rec[p].replicas
<1>1. Surroundings => sts' = sts
  BY DEF Surroundings, PodStarts, PodStops, PodCrashes, Stopped, Connected, Disconnected,
     Offloaded, Reconnected, Moves, Ingest, Expire, CacheCatchesUp, Scale, SwitchOffload,
     SwitchPolicy, Respec
<1>2. PICK q \in Pools : Reconcile(q)
  BY <1>1 DEF Next
<1>3. sts' = sts \/ Apply(q)
  BY <1>2 DEF Reconcile, AwaitCluster, Settle, List, ListFails, Gone, TimesOut, ForceRemove,
     Disconnect, Offload, Remove, AwaitNode, Refused, CallFails, ApplyFails, Save, Fails, Stops
<1>4. Apply(q) => sts' = sts \/ sts' = [sts EXCEPT ![q] = rec[q].replicas]
  BY DEF Apply
<1> QED
  BY <1>3, <1>4 DEF SizeInv, TypeOK

\* A StatefulSet that was read as it is grows only when no drain is under way.
LEMMA GrowsUntimed ==
  ASSUME SizeInv, Next, NEW p \in Pools, Current(p), sts'[p] > sts[p]
  PROVE  status[p] = NoStatus
<1>1. sts[p] \in Nat /\ rec[p].replicas \in Nat /\ rec[p].cur = sts[p]
  BY DEF SizeInv, TypeOK, Reconciles, Current
<1>2. CASE sts'[p] = sts[p]
  BY <1>1, <1>2
<1>3. CASE sts'[p] # sts[p]
  <2>1. rec[p].pc = "apply" /\ rec[p].replicas > rec[p].cur
    BY <1>1, <1>3, OnlyApplyResizes DEF Apply
  <2>2. ~rec[p].active
    BY <1>1, <2>1 DEF SizeInv, UnderWay
  <2> QED
    BY <2>1, <2>2 DEF SizeInv, Undrained
<1> QED
  BY <1>2, <1>3

\* A pod that comes back does not inherit the timer of the drain that removed it, whatever
\* fails and in whatever order pools, pods and users act (offloadStartedAt,
\* clearScaleDownStatus).
THEOREM TimersAreFresh == Spec => FreshTimer
<1>1. SizeInv /\ [Next]_vars =>
        [\A p \in Pools : Current(p) /\ sts'[p] > sts[p] => status[p] = NoStatus]_vars
  BY GrowsUntimed
<1> QED
  BY InitSized, StepSized, <1>1, PTL DEF Spec, FreshTimer

-----------------------------------------------------------------------------
(* Drains *)

\* The drain of a listed node has an address.
LEMMA AddressIsNode ==
  ASSUME SizeInv, NEW p \in Pools, rec[p].pc # "idle", rec[p].active
  PROVE  Address(p) \in Nodes /\ Address(p)[1] = p
BY SizesInRange DEF SizeInv, UnderWay, Address, Target, Nodes

\* The initial state has no drain, and no node that is offloaded or gone.
LEMMA InitDrained == Init => DrainInv
<1> SUFFICES ASSUME Init PROVE DrainInv
  OBVIOUS
<1>1. \A p \in Pools : rec[p].pc = "idle"
  BY DEF Init, Idle
<1>2. \A n \in Nodes : node[n] = "CONNECTED"
  BY DEF Init
<1> QED
  BY <1>1, <1>2, InitSized DEF DrainInv, ListedHolds, RemovedIsGone, OffloadedIsEmpty,
     GoneIsEmpty, Absent

\* The reconcile of a pool leaves what the others found out alone.
LEMMA OthersKeep ==
  ASSUME DrainInv, NEW p \in Pools, UNCHANGED pod,
         NEW r, rec' = [rec EXCEPT ![p] = r],
         \/ node' = node
         \/ /\ rec[p].pc = "listed"
            /\ \E x : node' = [node EXCEPT ![Address(p)] = x],
         NEW q \in Pools \ {p}
  PROVE  ListedHolds(q)' /\ RemovedIsGone(q)'
<1> USE DEF DrainInv
<1>1. rec'[q] = rec[q] /\ Address(q)' = Address(q)
  BY DEF SizeInv, TypeOK, Address
<1>2. CASE rec[q].pc = "idle"
  BY <1>1, <1>2 DEF ListedHolds, RemovedIsGone
<1>3. CASE ~rec[q].active
  BY <1>1, <1>3 DEF ListedHolds, RemovedIsGone, SizeInv, UnderWay
<1>4. CASE rec[q].pc # "idle" /\ rec[q].active
  <2>1. Address(q) \in Nodes /\ Address(q)[1] = q
    BY <1>4, AddressIsNode
  <2>2. node'[Address(q)] = node[Address(q)]
    <3>1. CASE rec[p].pc = "listed"
      <4>1. Address(p)[1] = p
        BY <3>1, AddressIsNode DEF SizeInv, UnderWay
      <4>2. Address(p) # Address(q)
        BY <2>1, <4>1
      <4> QED
        BY <2>1, <4>2 DEF SizeInv, TypeOK
    <3> QED
      BY <3>1
  <2> QED
    BY <1>1, <2>2 DEF ListedHolds, RemovedIsGone
<1> QED
  BY <1>2, <1>3, <1>4

\* A reconcile that ends without having called NiFi changes nothing about drains.
LEMMA QuietDrained ==
  ASSUME DrainInv, SizeInv', NEW p \in Pools, rec' = [rec EXCEPT ![p] = Idle], UNCHANGED cluster
  PROVE  DrainInv'
<1>1. rec'[p].pc = "idle"
  BY DEF DrainInv, SizeInv, TypeOK, Idle
<1>2. \A q \in Pools \ {p} : ListedHolds(q)' /\ RemovedIsGone(q)'
  BY OthersKeep DEF cluster
<1>3. ListedHolds(p)' /\ RemovedIsGone(p)'
  BY <1>1 DEF ListedHolds, RemovedIsGone
<1> QED
  BY <1>2, <1>3 DEF DrainInv, OffloadedIsEmpty, GoneIsEmpty, cluster

\* A drain step that changed its own node at most, and shrinks over a node that is gone.
LEMMA SaveDrained ==
  ASSUME DrainInv, SizeInv', NEW p \in Pools, rec[p].pc = "listed",
         NEW s, NEW size, Save(p, s, size), UNCHANGED pod,
         node' = node \/ \E x : node' = [node EXCEPT ![Address(p)] = x],
         size # rec[p].cur => node'[Address(p)] = Absent,
         OffloadedIsEmpty', GoneIsEmpty'
  PROVE  DrainInv'
<1>1. PICK r : rec' = [rec EXCEPT ![p] = r]
  <2>1. CASE Fails(p)
    BY <2>1 DEF Fails, Stops
  <2>2. CASE rec' = [rec EXCEPT ![p].pc = "apply", ![p].replicas = size,
                               ![p].node = Absent, ![p].force = FALSE]
    <3>1. rec' = [rec EXCEPT ![p] = [rec[p] EXCEPT !.pc = "apply", !.replicas = size,
                                                   !.node = Absent, !.force = FALSE]]
      BY <2>2 DEF DrainInv, SizeInv, TypeOK
    <3> QED
      BY <3>1
  <2> QED
    BY <2>1, <2>2 DEF Save
<1>2. \A q \in Pools \ {p} : ListedHolds(q)' /\ RemovedIsGone(q)'
  BY <1>1, OthersKeep
<1>3. ListedHolds(p)' /\ RemovedIsGone(p)'
  <2>1. CASE Fails(p)
    BY <2>1 DEF Fails, Stops, Idle, ListedHolds, RemovedIsGone, DrainInv, SizeInv, TypeOK
  <2>2. CASE rec' = [rec EXCEPT ![p].pc = "apply", ![p].replicas = size,
                               ![p].node = Absent, ![p].force = FALSE]
    <3>1. /\ rec'[p].pc = "apply" /\ rec'[p].replicas = size /\ rec'[p].cur = rec[p].cur
      BY <2>2 DEF DrainInv, SizeInv, TypeOK, Reconciles
    <3>2. Address(p)' = Address(p)
      BY <3>1 DEF Address
    <3> QED
      BY <3>1, <3>2 DEF ListedHolds, RemovedIsGone
  <2> QED
    BY <2>1, <2>2 DEF Save
<1> QED
  BY <1>2, <1>3 DEF DrainInv

\* Every reconcile keeps the drain invariant.
LEMMA ReconcileDrained ==
  ASSUME DrainInv, NEW p \in Pools, Reconcile(p)
  PROVE  DrainInv'
<1>0. SizeInv'
  BY ReconcileSized DEF DrainInv
<1>a. rec[p].pc = "listed" => Address(p) \in Nodes
  BY AddressIsNode DEF DrainInv, SizeInv, UnderWay
<1>b. TypeOK
  BY DEF DrainInv, SizeInv
<1>c. UNCHANGED <<node, pod, data, given>> => OffloadedIsEmpty' /\ GoneIsEmpty'
  BY DEF DrainInv, OffloadedIsEmpty, GoneIsEmpty
<1>1. CASE Settle(p)
  <2>1. CASE Fails(p)
    BY <1>0, <1>1, <2>1, QuietDrained DEF Settle, Fails, Stops
  <2>2. CASE rec' = [rec EXCEPT ![p] = [pc |-> "apply", cur |-> seen[p], want |-> desired[p],
                                       node |-> Absent, offload |-> offload[p],
                                       force |-> FALSE,
                                       replicas |-> desired[p], active |-> FALSE]]
    <3>1. rec'[p].pc = "apply" /\ ~rec'[p].active
      BY <1>b, <2>2 DEF TypeOK
    <3>2. \A q \in Pools \ {p} : ListedHolds(q)' /\ RemovedIsGone(q)'
      BY <1>1, <2>2, OthersKeep DEF Settle, cluster
    <3> QED
      BY <1>0, <1>1, <1>c, <3>1, <3>2
      DEF Settle, DrainInv, ListedHolds, RemovedIsGone, cluster
  <2> QED
    BY <1>1, <2>1, <2>2 DEF Settle
<1>2. CASE List(p)
  <2>1. /\ rec'[p].pc = "listed" /\ rec'[p].cur = seen[p]
        /\ rec'[p].node = Listed(p, Target(seen[p]))
    BY <1>2, <1>b DEF List, TypeOK
  <2>2. Address(p)' = <<p, Target(seen[p])>>
    BY <2>1 DEF Address
  <2>3. Address(p)' \in Nodes
    BY <1>2, <1>b, <2>2, SizesInRange DEF List, ScalesDown, TypeOK, Target, Nodes
  <2>4. rec'[p].node = node[Address(p)']
    BY <2>1, <2>2, <2>3 DEF Listed
  <2>5. \A q \in Pools \ {p} : ListedHolds(q)' /\ RemovedIsGone(q)'
    BY <1>2, OthersKeep DEF List, cluster
  <2>6. ListedHolds(p)' /\ RemovedIsGone(p)'
    BY <1>2, <2>1, <2>4 DEF List, ListedHolds, RemovedIsGone, cluster
  <2> QED
    BY <1>0, <1>2, <1>c, <2>5, <2>6 DEF List, DrainInv, cluster
<1>3. CASE ListFails(p) \/ TimesOut(p) \/ Refused(p) \/ CallFails(p) \/ ApplyFails(p)
  BY <1>0, <1>3, QuietDrained DEF ListFails, TimesOut, Refused, CallFails, ApplyFails,
     Fails, Stops
<1>4. CASE Gone(p)
  <2>1. node[Address(p)] = Absent /\ rec[p].pc = "listed"
    BY <1>4 DEF Gone, InState, DrainInv, ListedHolds
  <2> QED
    BY <1>0, <1>4, <1>c, <2>1, SaveDrained DEF Gone, cluster
<1>5. CASE ForceRemove(p)
  <2>1. rec[p].pc = "listed" /\ Address(p) \in Nodes
    BY <1>5, <1>a DEF ForceRemove, InState
  <2>2. node'[Address(p)] = Absent /\ OffloadedIsEmpty' /\ GoneIsEmpty'
    BY <1>5, <1>b, <2>1
    DEF ForceRemove, TypeOK, DrainInv, OffloadedIsEmpty, GoneIsEmpty, Absent
  <2> QED
    BY <1>0, <1>5, <2>1, <2>2, SaveDrained DEF ForceRemove
<1>6. CASE Disconnect(p)
  <2>1. rec[p].pc = "listed" /\ Address(p) \in Nodes
    BY <1>6, <1>a DEF Disconnect, InTime, InState
  <2>2. OffloadedIsEmpty' /\ GoneIsEmpty'
    BY <1>6, <1>b, <2>1
    DEF Disconnect, TypeOK, DrainInv, OffloadedIsEmpty, GoneIsEmpty, Absent
  <2> QED
    BY <1>0, <1>6, <2>1, <2>2, SaveDrained DEF Disconnect
<1>7. CASE Offload(p)
  <2>1. rec[p].pc = "listed" /\ Address(p) \in Nodes
    BY <1>7, <1>a DEF Offload, InTime, InState
  <2>2. OffloadedIsEmpty' /\ GoneIsEmpty'
    BY <1>7, <1>b, <2>1
    DEF Offload, TypeOK, DrainInv, OffloadedIsEmpty, GoneIsEmpty, Absent
  <2> QED
    BY <1>0, <1>7, <2>1, <2>2, SaveDrained DEF Offload
<1>8. CASE Remove(p)
  <2>1. rec[p].pc = "listed" /\ rec[p].node = "OFFLOADED" /\ Address(p) \in Nodes
    BY <1>8, <1>a DEF Remove, InTime, InState
  <2>2. pod[Address(p)] /\ data[Address(p)] => Address(p) \in given
    BY <1>8, <2>1
    DEF Remove, Deletable, DrainInv, ListedHolds, OffloadedIsEmpty, GoneIsEmpty
  <2>3. node'[Address(p)] = Absent /\ OffloadedIsEmpty' /\ GoneIsEmpty'
    BY <1>8, <1>b, <2>1, <2>2
    DEF Remove, TypeOK, DrainInv, OffloadedIsEmpty, GoneIsEmpty, Absent
  <2> QED
    BY <1>0, <1>8, <2>1, <2>3, SaveDrained DEF Remove
<1>9. CASE AwaitNode(p)
  <2>1. rec[p].pc = "listed"
    BY <1>9 DEF AwaitNode, InTime, InState
  <2> QED
    BY <1>0, <1>9, <1>c, <2>1, SaveDrained DEF AwaitNode, cluster
<1>10. CASE Apply(p)
  BY <1>0, <1>10, QuietDrained DEF Apply
<1>11. CASE AwaitCluster(p)
  BY <1>0, <1>11, <1>c
  DEF AwaitCluster, DrainInv, ListedHolds, RemovedIsGone, Address, cluster
<1> QED
  BY <1>1, <1>2, <1>3, <1>4, <1>5, <1>6, <1>7, <1>8, <1>9, <1>10, <1>11 DEF Reconcile

\* A step of the surroundings that takes no node out of the states a reconcile relies on.
LEMMA SurroundingsDrained ==
  ASSUME ~JoinsMidway, DrainInv, Surroundings
  PROVE  DrainInv'
<1>0. SizeInv'
  BY SurroundingsSized DEF DrainInv
<1>b. TypeOK
  BY DEF DrainInv, SizeInv
<1>1. ASSUME NEW p \in Pools,
             \/ Expire(p) \/ CacheCatchesUp(p) \/ Scale(p) \/ SwitchOffload(p)
             \/ SwitchPolicy(p)
      PROVE  DrainInv'
  <2>1. UNCHANGED <<rec, node, pod, data, given>>
    BY <1>1 DEF Expire, CacheCatchesUp, Scale, SwitchOffload, SwitchPolicy, Respec, cluster
  <2> QED
    BY <1>0, <2>1 DEF DrainInv, ListedHolds, RemovedIsGone, OffloadedIsEmpty, GoneIsEmpty,
       Address
<1>2. ASSUME NEW n \in Nodes,
             \/ PodStarts(n) \/ PodStops(n) \/ PodCrashes(n) \/ Connected(n)
             \/ Disconnected(n) \/ Offloaded(n) \/ Reconnected(n) \/ Ingest(n)
      PROVE  DrainInv'
  <2>1. UNCHANGED rec
    BY <1>2 DEF PodStarts, PodStops, PodCrashes, Stopped, Connected, Disconnected,
       Offloaded, Reconnected, Moves, Ingest
  <2>2. ASSUME NEW q \in Pools
        PROVE  ListedHolds(q)' /\ RemovedIsGone(q)'
    <3>1. Address(q)' = Address(q)
      BY <2>1 DEF Address
    <3>2. CASE rec[q].pc = "idle" \/ ~rec[q].active
      BY <2>1, <3>2 DEF ListedHolds, RemovedIsGone, DrainInv, SizeInv, UnderWay
    <3>3. CASE rec[q].pc # "idle" /\ rec[q].active
      <4>1. Address(q) \in Nodes /\ Address(q)[1] = q
        BY <3>3, AddressIsNode DEF DrainInv
      <4>2. PodStarts(n) => n # Address(q)
        BY <3>3, <4>1 DEF PodStarts
      <4>3. node[Address(q)] = Absent => node'[Address(q)] = Absent
        <5>1. CASE PodStarts(n)
          BY <1>b, <4>1, <4>2, <5>1 DEF PodStarts, TypeOK
        <5>2. CASE PodStops(n) \/ PodCrashes(n)
          BY <1>b, <4>1, <5>2 DEF PodStops, PodCrashes, Stopped, TypeOK
        <5>3. CASE Ingest(n)
          BY <5>3 DEF Ingest
        <5>4. CASE Connected(n) \/ Disconnected(n) \/ Offloaded(n) \/ Reconnected(n)
          <6>1. node[n] # Absent /\ \E s : node' = [node EXCEPT ![n] = s]
            BY <5>4 DEF Connected, Disconnected, Offloaded, Reconnected, Moves, Absent
          <6> QED
            BY <1>b, <4>1, <6>1 DEF TypeOK
        <5> QED
          BY <1>2, <5>1, <5>2, <5>3, <5>4
      <4>4. pod'[Address(q)] => pod[Address(q)]
        <5>1. CASE PodStarts(n)
          <6>1. pod' = [pod EXCEPT ![n] = TRUE] /\ n # Address(q)
            BY <4>2, <5>1 DEF PodStarts
          <6> QED
            BY <1>b, <4>1, <6>1 DEF TypeOK
        <5>2. CASE PodStops(n) \/ PodCrashes(n)
          <6>1. pod' = [pod EXCEPT ![n] = FALSE]
            BY <5>2 DEF PodStops, PodCrashes, Stopped
          <6> QED
            BY <1>b, <4>1, <6>1 DEF TypeOK
        <5>3. CASE Connected(n) \/ Disconnected(n) \/ Offloaded(n) \/ Reconnected(n) \/ Ingest(n)
          <6>1. UNCHANGED pod
            BY <5>3 DEF Connected, Disconnected, Offloaded, Reconnected, Moves, Ingest
          <6> QED
            BY <6>1
        <5> QED
          BY <1>2, <5>1, <5>2, <5>3
      <4>5. pod'[Address(q)] /\ node[Address(q)] \in {"OFFLOADED", "CONNECTING", "CONNECTED"}
              => node'[Address(q)] \in {"OFFLOADED", "CONNECTING", "CONNECTED"}
        <5>1. CASE PodStarts(n)
          <6>1. node' = [node EXCEPT ![n] = "CONNECTING"]
            BY <5>1 DEF PodStarts
          <6> QED
            BY <1>b, <4>1, <6>1 DEF TypeOK
        <5>2. CASE PodStops(n) \/ PodCrashes(n)
          <6>1. /\ pod' = [pod EXCEPT ![n] = FALSE]
                /\ node' = [node EXCEPT ![n] = IF @ = Absent THEN Absent ELSE "DISCONNECTED"]
            BY <5>2 DEF PodStops, PodCrashes, Stopped
          <6> QED
            BY <1>b, <4>1, <6>1 DEF TypeOK
        <5>3. CASE Ingest(n)
          BY <5>3 DEF Ingest
        <5>4. CASE Connected(n) \/ Disconnected(n) \/ Offloaded(n) \/ Reconnected(n)
          <6>1. \/ node' = [node EXCEPT ![n] = "CONNECTED"]
                \/ node' = [node EXCEPT ![n] = "OFFLOADED"]
                \/ node' = [node EXCEPT ![n] = "CONNECTING"]
                \/ node[n] = "DISCONNECTING" /\ node' = [node EXCEPT ![n] = "DISCONNECTED"]
            BY <5>4 DEF Connected, Disconnected, Offloaded, Reconnected, Moves
          <6> QED
            BY <1>b, <4>1, <6>1 DEF TypeOK
        <5> QED
          BY <1>2, <5>1, <5>2, <5>3, <5>4
      <4> QED
        BY <2>1, <3>1, <4>3, <4>4, <4>5 DEF ListedHolds, RemovedIsGone, DrainInv
    <3> QED
      BY <3>2, <3>3
  <2>3. OffloadedIsEmpty'
    <3>1. CASE Offloaded(n)
      <4>1. PICK m \in Nodes : /\ node[m] = "CONNECTED"
                               /\ data' = [data EXCEPT ![m] = data[m] \/ data[n], ![n] = FALSE]
        BY <3>1 DEF Offloaded
      <4>2. node' = [node EXCEPT ![n] = "OFFLOADED"] /\ node[n] = "OFFLOADING"
        BY <3>1 DEF Offloaded, Moves
      <4>3. \A k \in Nodes \ {m, n} : node'[k] = node[k] /\ data'[k] = data[k]
        BY <1>b, <4>1, <4>2 DEF TypeOK
      <4>4. m # n /\ node'[m] = "CONNECTED" /\ data'[n] = FALSE
        BY <1>b, <4>1, <4>2 DEF TypeOK
      <4> QED
        BY <4>3, <4>4 DEF DrainInv, OffloadedIsEmpty
    <3> QED
      BY <1>2, <1>b, <3>1 DEF PodStarts, PodStops, PodCrashes, Stopped, Connected,
         Disconnected, Reconnected, Moves, Ingest, TypeOK, DrainInv, OffloadedIsEmpty, Absent
  <2>4. GoneIsEmpty'
    <3>1. CASE Offloaded(n)
      <4>1. PICK m \in Nodes : /\ node[m] = "CONNECTED"
                               /\ data' = [data EXCEPT ![m] = data[m] \/ data[n], ![n] = FALSE]
        BY <3>1 DEF Offloaded
      <4>2. /\ node' = [node EXCEPT ![n] = "OFFLOADED"] /\ node[n] = "OFFLOADING"
            /\ UNCHANGED <<pod, given>>
        BY <3>1 DEF Offloaded, Moves
      <4>3. \A k \in Nodes \ {m, n} : node'[k] = node[k] /\ data'[k] = data[k]
        BY <1>b, <4>1, <4>2 DEF TypeOK
      <4>4. m # n /\ node'[m] = "CONNECTED" /\ data'[n] = FALSE
        BY <1>b, <4>1, <4>2 DEF TypeOK
      <4> QED
        BY <4>2, <4>3, <4>4 DEF DrainInv, GoneIsEmpty, Absent
    <3> QED
      BY <1>2, <1>b, <3>1 DEF PodStarts, PodStops, PodCrashes, Stopped, Connected,
         Disconnected, Reconnected, Moves, Ingest, TypeOK, DrainInv, GoneIsEmpty, Absent
  <2> QED
    BY <1>0, <2>2, <2>3, <2>4 DEF DrainInv
<1> QED
  BY <1>1, <1>2 DEF Surroundings

\* Every step keeps the drain invariant.
LEMMA StepDrained == ~JoinsMidway /\ DrainInv /\ [Next]_vars => DrainInv'
<1> SUFFICES ASSUME ~JoinsMidway, DrainInv, [Next]_vars PROVE DrainInv'
  OBVIOUS
<1>1. CASE UNCHANGED vars
  <2>1. SizeInv'
    BY StepSized DEF DrainInv
  <2>2. UNCHANGED <<rec, node, pod, data, given>>
    BY <1>1 DEF vars, cluster
  <2> QED
    BY <2>1, <2>2 DEF DrainInv, ListedHolds, RemovedIsGone, OffloadedIsEmpty, GoneIsEmpty,
       Address
<1> QED
  BY <1>1, ReconcileDrained, SurroundingsDrained DEF Next

\* What a shrinking StatefulSet takes away.
LEMMA ShrinksOverEmpty ==
  ASSUME DrainInv, Next, NEW p \in Pools, rec[p].offload, Current(p),
         NEW i \in sts'[p]..(sts[p] - 1), pod[<<p, i>>], data[<<p, i>>]
  PROVE  <<p, i>> \in given
<1>1. sts[p] \in Nat /\ rec[p].replicas \in Nat /\ rec[p].cur = sts[p]
  BY DEF DrainInv, SizeInv, TypeOK, Reconciles, Current
<1>2. SizeInv' /\ sts'[p] \in Nat
  BY StepSized DEF DrainInv, SizeInv, TypeOK
<1>3. sts'[p] # sts[p]
  BY <1>1, <1>2
<1>4. Apply(p) /\ sts'[p] = rec[p].replicas
  BY <1>3, OnlyApplyResizes DEF DrainInv
<1>5. rec[p].pc = "apply" /\ rec[p].replicas < rec[p].cur
  BY <1>1, <1>2, <1>4 DEF Apply
<1>6. rec[p].active
  BY <1>1, <1>5 DEF DrainInv, SizeInv, Undrained
<1>7. rec[p].replicas = rec[p].cur - 1
  BY <1>1, <1>5, <1>6 DEF DrainInv, SizeInv, UnderWay
<1>8. <<p, i>> = Address(p) /\ Address(p) \in Nodes
  BY <1>1, <1>4, <1>5, <1>6, <1>7, AddressIsNode DEF DrainInv, Address, Target
<1>9. node[Address(p)] = Absent
  BY <1>1, <1>5, <1>6 DEF DrainInv, RemovedIsGone
<1> QED
  BY <1>8, <1>9 DEF DrainInv, GoneIsEmpty

\* As long as no pod joins the cluster in the middle of a reconcile: a graceful scale-down
\* never takes away a running pod with flow files that was not forced out, for any pools
\* and sizes, and whatever fails, crashes, is reconnected or edited (computeOffloadStep).
THEOREM NothingStranded == ~JoinsMidway => (Spec => NoStranded)
<1> SUFFICES ASSUME ~JoinsMidway PROVE Spec => NoStranded
  OBVIOUS
<1>1. DrainInv /\ [Next]_vars => DrainInv'
  BY StepDrained
<1>2. DrainInv /\ [Next]_vars =>
        [\A p \in Pools : rec[p].offload /\ Current(p) =>
           \A i \in sts'[p]..(sts[p] - 1) :
             pod[<<p, i>>] /\ data[<<p, i>>] => <<p, i>> \in given]_vars
  BY ShrinksOverEmpty
<1> QED
  BY InitDrained, <1>1, <1>2, PTL DEF Spec, NoStranded

-----------------------------------------------------------------------------
(* RemoteGroup *)

\* NiFi gives ids in order, and the status names a group NiFi once made.
InOrder ==
  /\ \A id \in Ids : id > made.group => groups[id] = NoGroup
  /\ \A l \in Ids : l > made.link => links[l] = None
  /\ statuses[Group].id <= made.group

\* The groups and the connections NiFi has.
Remotes == {id \in Ids : Exists(id)}
RemoteLinks == {l \in Ids : LinkExists(l)}

\* NiFi has the group of the status; every other one is the trace of a write of the status,
\* or of an answer to a creation, that was lost. While a group may still be adopted there is
\* at most one, so that it does not matter which one is taken.
RemotesCounted ==
  IF adopts /\ statuses[Group].id = None THEN \A i, j \in Remotes : i = j
  ELSE Cardinality(Remotes \ {statuses[Group].id}) <= losses

\* The same of connections.
LinksCounted == Cardinality(RemoteLinks \ {statuses[Link].id}) <= losses

\* What a status s tells stands: it is Ready for the present spec, and its resource is not
\* called (q), which with drift it always is.
Tells(s, q) == s.why = "Ready" /\ s.seen /\ (s.drift \/ ~q)

\* The port of group g is as the spec asks, if it declares one.
PortTrue(g) ==
  Declared => g.known /\ g.tuned = spec.tuned /\ g.sending = (spec.port = "send")

\* What the status tells of the port is true of NiFi, whatever others did there.
PortTold ==
  life[Group] = "live" /\ Tells(statuses[Group], queued[Group]) /\ Exists(statuses[Group].id)
  => PortTrue(groups[statuses[Group].id])

\* What it tells of the configuration is true, unless others changed NiFi since the last
\* reconcile.
ConfigTold ==
  /\ life[Group] = "live" /\ Tells(statuses[Group], queued[Group]) /\ Exists(statuses[Group].id)
  /\ touched # "unseen" /\ NeedsUpdate(groups[statuses[Group].id])
  => statuses[Group].drift \/ mode = "Ignore"

\* The inductive invariant.
RemoteInv == RemoteTypeOK /\ InOrder /\ RemotesCounted /\ LinksCounted /\ PortTold /\ ConfigTold

\* The types of statuses, groups and counters that the type invariant gives.
LEMMA RecordsTyped ==
  ASSUME RemoteTypeOK
  PROVE  /\ statuses[Group] \in Statuses /\ statuses[Link] \in Statuses
         /\ \A s \in Statuses : s.id \in 0..MaxMade /\ s.seen \in BOOLEAN /\ s.drift \in BOOLEAN
         /\ \A g \in GroupRecord : /\ g.exists \in BOOLEAN /\ g.known \in BOOLEAN
                                   /\ g.sending \in BOOLEAN
         /\ Group \in Objects /\ Link \in Objects /\ Group # Link
         /\ made.group \in 0..MaxMade /\ made.link \in 0..MaxMade
         /\ NoGroup \in GroupRecord
BY RemoteBoundsAssumption DEF RemoteTypeOK, Statuses, GroupRecord, Counts, Objects, Group, Link, NoGroup

\* Every status the two reconcilers write is well formed.
LEMMA ReportsTyped ==
  ASSUME RemoteTypeOK
  PROVE  /\ \A x \in Objects : MarkNotReady(x) \in Statuses /\ MarkWaiting(x) \in Statuses
         /\ \A x \in Objects, id \in 0..MaxMade, port \in PortStates :
              MarkReady(x, id, port) \in Statuses
         /\ \A id \in 0..MaxMade : \A g :
              /\ Discovered(id, g) \in PortStates
              /\ MarkPortsPending(id, g) \in Statuses
              /\ \A fail \in BOOLEAN : MarkDrift(id, g, fail) \in Statuses
<1>1. \A id, g : Discovered(id, g) \in PortStates
  BY DEF Discovered, PortStates
<1>2. \A x \in Objects : statuses[x] \in Statuses
  BY DEF RemoteTypeOK
<1>3. Group \in Objects
  BY DEF Objects
<1> QED
  BY <1>1, <1>2, <1>3 DEF MarkNotReady, MarkWaiting, MarkReady, MarkPortsPending, MarkDrift, Statuses

\* A status that is saved is written or the write is lost, which counts as a loss; the other
\* resource keeps its status, and a connection's status does not call the group.
LEMMA SaveEffect ==
  ASSUME RemoteTypeOK, NEW x \in Objects, NEW s \in Statuses, NEW again \in BOOLEAN,
         SaveStatus(x, s, again)
  PROVE  /\ statuses' \in [Objects -> Statuses] /\ queued' \in [Objects -> BOOLEAN]
         /\ losses' \in 0..MaxEvents /\ losses' >= losses
         /\ \A y \in Objects \ {x} : statuses'[y] = statuses[y]
         /\ x = Link /\ life[Group] = "live" => queued'[Group] = queued[Group]
         /\ \/ statuses'[x] = s /\ losses' = losses
            \/ statuses'[x] = statuses[x] /\ losses' = losses + 1 /\ queued' = queued
         /\ life[x] = "live" /\ queued[x] /\ ~queued'[x] => statuses'[x] = s /\ ~again
<1> USE DEF RemoteTypeOK
<1>1. CASE AlreadyReported(x, s) /\ queued' = [queued EXCEPT ![x] = again]
           /\ UNCHANGED <<statuses, losses>>
  BY <1>1, RemoteBoundsAssumption DEF AlreadyReported, Objects, Group, Link
<1>2. CASE statuses' = [statuses EXCEPT ![x] = s] /\ Wake(x) /\ UNCHANGED losses
  BY <1>2, RemoteBoundsAssumption DEF Wake, Wakes, Objects, Group, Link
<1>3. CASE Lost /\ UNCHANGED <<statuses, queued>>
  BY <1>3, RemoteBoundsAssumption DEF Lost
<1> QED
  BY <1>1, <1>2, <1>3 DEF SaveStatus

-----------------------------------------------------------------------------
\* A group NiFi can have as number id: it transmits only if it is known and connected.
ValidGroup(id, g) == g \in GroupRecord /\ (g.sending => g.known /\ Linked(id))

\* A group made, or found, with configuration c is a group.
LEMMA GroupMade ==
  ASSUME NEW n \in GroupRecord, NEW c \in 0..1
  PROVE  /\ [n EXCEPT !.exists = TRUE, !.config = c] \in GroupRecord
         /\ [n EXCEPT !.exists = TRUE, !.config = c].exists
         /\ [n EXCEPT !.exists = TRUE, !.config = c].config = c
         /\ [n EXCEPT !.exists = TRUE, !.config = c].known = n.known
         /\ [n EXCEPT !.exists = TRUE, !.config = c].sending = n.sending
BY DEF GroupRecord

\* Each of the calls that reconcile a group leaves one that NiFi can have, and there.
LEMMA StepsValid ==
  ASSUME RemoteTypeOK, NEW id, NEW g, ValidGroup(id, g)
  PROVE  /\ ValidGroup(id, StoppedGroup(g)) /\ StoppedGroup(g).exists = g.exists
         /\ ValidGroup(id, Applied(g)) /\ Applied(g).exists = g.exists
         /\ ValidGroup(id, Tuned(g)) /\ Tuned(g).exists = g.exists
         /\ ValidGroup(id, Transmits(id, g)) /\ Transmits(id, g).exists = g.exists
<1>1. spec.config \in 0..1 /\ spec.tuned \in 0..1
  BY DEF RemoteTypeOK, Specs
<1>2. ValidGroup(id, StoppedGroup(g)) /\ StoppedGroup(g).exists = g.exists
  BY DEF ValidGroup, StoppedGroup, GroupRecord
<1>3. ValidGroup(id, Applied(g)) /\ Applied(g).exists = g.exists
  BY <1>1, <1>2 DEF ValidGroup, Applied, GroupRecord
<1>4. ValidGroup(id, Tuned(g)) /\ Tuned(g).exists = g.exists
  BY <1>1, <1>2 DEF ValidGroup, Tuned, GroupRecord
<1>5. ValidGroup(id, Transmits(id, g)) /\ Transmits(id, g).exists = g.exists
  BY DEF ValidGroup, Transmits, GroupRecord
<1> QED
  BY <1>2, <1>3, <1>4, <1>5

\* So does the reconcile, completed or broken off after any of its calls.
LEMMA ReconciledValid ==
  ASSUME RemoteTypeOK, NEW id, NEW g, ValidGroup(id, g)
  PROVE  \A h \in {Reconciled(id, g)} \cup Partial(id, g) : ValidGroup(id, h) /\ h.exists = g.exists
<1>1. ValidGroup(id, Applied(g)) /\ Applied(g).exists = g.exists
  BY StepsValid
<1>2. ValidGroup(id, Tuned(Applied(g))) /\ Tuned(Applied(g)).exists = g.exists
  BY <1>1, StepsValid
<1>3. ValidGroup(id, StoppedGroup(Applied(g))) /\ StoppedGroup(Applied(g)).exists = g.exists
  BY <1>1, StepsValid
<1>4. ValidGroup(id, Reconciled(id, g)) /\ Reconciled(id, g).exists = g.exists
  BY <1>2, StepsValid DEF Reconciled, Ports
<1>5. ValidGroup(id, StoppedGroup(g)) /\ StoppedGroup(g).exists = g.exists
  BY StepsValid
<1> QED
  BY <1>1, <1>2, <1>3, <1>4, <1>5 DEF Partial

\* A reconcile that does not wait for the port has left it as the spec asks.
LEMMA PortsReconciled ==
  ASSUME RemoteTypeOK, NEW id, NEW g, ValidGroup(id, g), ~PortWaiting(id, Ports(id, g))
  PROVE  PortTrue(Ports(id, g))
<1> DEFINE t == Tuned(g)
<1>1. spec.tuned \in 0..1 /\ spec.port \in {"undeclared", "idle", "send"}
  BY DEF RemoteTypeOK, Specs
<1>2. ValidGroup(id, t)
  BY StepsValid
<1>3. CASE ~Declared
  BY <1>3 DEF PortTrue
<1>4. CASE Declared
  <2>1. Ports(id, g).known
    BY <1>4 DEF PortWaiting
  <2>2. t.known = g.known
    BY DEF Tuned, StoppedGroup, ValidGroup, GroupRecord
  <2>3. Ports(id, g).known = t.known
    BY <1>2 DEF Ports, Transmits, ValidGroup, GroupRecord
  <2>4. t.tuned = spec.tuned
    BY <1>1, <1>4, <2>1, <2>2, <2>3 DEF Tuned, StoppedGroup, ValidGroup, GroupRecord
  <2>5. Ports(id, g) = [t EXCEPT !.sending = spec.port = "send" /\ (@ \/ Linked(id))]
    BY <1>4, <2>1, <2>3 DEF Ports, Transmits
  <2>6. Ports(id, g).tuned = spec.tuned
    BY <1>2, <2>4, <2>5 DEF ValidGroup, GroupRecord
  <2>7. Ports(id, g).sending = (spec.port = "send" /\ (t.sending \/ Linked(id)))
    BY <1>2, <2>5 DEF ValidGroup, GroupRecord
  <2>8. spec.port = "send" => Ports(id, g).sending
    BY <1>4 DEF PortWaiting
  <2>9. Ports(id, g).sending = (spec.port = "send")
    BY <2>7, <2>8
  <2> QED
    BY <2>1, <2>6, <2>9 DEF PortTrue
<1> QED
  BY <1>3, <1>4

\* A group whose port is right, and whose configuration is not applied, is left alone: the
\* reconcile makes no call that could fail halfway.
LEMMA NothingToDo ==
  ASSUME RemoteTypeOK, NEW id, NEW g, ValidGroup(id, g), ~Applies(g),
         PortTrue(g) \/ (~g.known /\ ~g.sending)
  PROVE  Reconciled(id, g) = g /\ Partial(id, g) = {}
<1>1. Applied(g) = g
  BY DEF Applied
<1>2. Tuned(g) = g
  BY DEF Tuned, PortTrue
<1>3. Transmits(id, g) = g
  <2>1. CASE ~Declared \/ ~g.known
    BY <2>1 DEF Transmits
  <2>2. CASE Declared /\ g.known
    <3>1. g.sending = (spec.port = "send" /\ (g.sending \/ Linked(id)))
      BY <2>2 DEF PortTrue, ValidGroup, GroupRecord
    <3>2. Transmits(id, g) = [g EXCEPT !.sending = (spec.port = "send" /\ (g.sending \/ Linked(id)))]
      BY <2>2 DEF Transmits
    <3>3. [g EXCEPT !.sending = g.sending] = g
      BY DEF ValidGroup, GroupRecord
    <3> QED
      BY <3>1, <3>2, <3>3
  <2> QED
    BY <2>1, <2>2
<1>4. Ports(id, g) = g
  BY <1>2, <1>3 DEF Ports
<1> QED
  BY <1>1, <1>4 DEF Reconciled, Partial

\* A configuration still to be updated afterwards was one the reconcile does not apply.
LEMMA ConfigReconciled ==
  ASSUME RemoteTypeOK, NEW id, NEW g, ValidGroup(id, g)
  PROVE  NeedsUpdate(Reconciled(id, g)) => NeedsUpdate(g) /\ ~Applies(g)
<1>1. \A h : ValidGroup(id, h) => /\ Tuned(h).config = h.config
                             /\ Transmits(id, h).config = h.config
  BY DEF ValidGroup, GroupRecord, Tuned, Transmits, StoppedGroup
<1>2. ValidGroup(id, Applied(g)) /\ ValidGroup(id, Tuned(Applied(g)))
  BY StepsValid
<1>3. Reconciled(id, g).config = Applied(g).config
  BY <1>1, <1>2 DEF Reconciled, Ports
<1>4. Applies(g) => Applied(g).config = spec.config
  BY DEF Applied, StoppedGroup, ValidGroup, GroupRecord
<1>5. ~Applies(g) => Applied(g) = g
  BY DEF Applied
<1> QED
  BY <1>3, <1>4, <1>5 DEF NeedsUpdate

-----------------------------------------------------------------------------
\* What a completed reconcile publishes about the group h it leaves is true; when the write is
\* lost the status is the old one, which tells something only of drift.
LEMMA PublishTells ==
  ASSUME RemoteTypeOK, Turn(Group), NEW id \in Ids, NEW g, ValidGroup(id, g),
         NEW h, h = Reconciled(id, g), Publish(id, h),
         mode = "Fail" => ~(NeedsUpdate(g) /\ ~Applies(g))
  PROVE  /\ statuses' \in [Objects -> Statuses] /\ queued' \in [Objects -> BOOLEAN]
         /\ losses' \in 0..MaxEvents /\ losses' >= losses
         /\ statuses'[Link] = statuses[Link]
         /\ \/ /\ statuses'[Group].id = id /\ losses' = losses
               /\ Tells(statuses'[Group], queued'[Group]) =>
                    /\ PortTrue(h)
                    /\ NeedsUpdate(h) => statuses'[Group].drift \/ mode = "Ignore"
               /\ statuses'[Group].drift /\ statuses'[Group].why = "Ready" => mode = "Warn"
            \/ /\ statuses'[Group] = statuses[Group] /\ losses' = losses + 1
               /\ Tells(statuses'[Group], queued'[Group]) => statuses[Group].drift
<1>1. ValidGroup(id, h)
  BY ReconciledValid
<1>2. id \in 0..MaxMade /\ Group \in Objects /\ Group # Link /\ Link \in Objects
  BY RemoteBoundsAssumption, RecordsTyped DEF Ids
<1>3. life[Group] = "live" /\ queued[Group]
  BY DEF Turn
<1>4. CASE PortWaiting(id, h)
  <2> DEFINE s == MarkPortsPending(id, h)
  <2>1. SaveStatus(Group, s, TRUE)
    BY <1>4 DEF Publish
  <2>2. s \in Statuses
    BY <1>2, ReportsTyped
  <2>3. s.id = id /\ s.why = "PortsPending"
    BY RecordsTyped DEF MarkPortsPending, Statuses
  <2> HIDE DEF s
  <2> QED
    BY <1>2, <1>3, <2>1, <2>2, <2>3, SaveEffect DEF Tells
<1>5. CASE ~PortWaiting(id, h) /\ NeedsUpdate(h) /\ mode = "Warn"
  <2> DEFINE s == MarkDrift(id, h, FALSE)
  <2>1. SaveStatus(Group, s, TRUE)
    BY <1>5 DEF Publish
  <2>2. s \in Statuses
    BY <1>2, ReportsTyped
  <2>3. s.id = id /\ s.drift
    BY DEF MarkDrift
  <2>4. PortTrue(h)
    BY <1>5, StepsValid, PortsReconciled DEF Reconciled
  <2> HIDE DEF s
  <2> QED
    BY <1>2, <1>3, <1>5, <2>1, <2>2, <2>3, <2>4, SaveEffect DEF Tells
<1>6. CASE ~PortWaiting(id, h) /\ ~(NeedsUpdate(h) /\ mode = "Warn")
  <2> DEFINE s == MarkReady(Group, id, Discovered(id, h))
  <2>1. SaveStatus(Group, s, FALSE)
    BY <1>6 DEF Publish
  <2>2. s \in Statuses
    BY <1>2, ReportsTyped
  <2>3. s.id = id /\ ~s.drift
    BY DEF MarkReady
  <2>4. PortTrue(h)
    BY <1>6, StepsValid, PortsReconciled DEF Reconciled
  <2>5. NeedsUpdate(h) => mode = "Ignore"
    <3>1. mode \in {"Warn", "Fail", "Ignore", "Reconcile"}
      BY ModesAssumption DEF RemoteTypeOK
    <3>2. NeedsUpdate(h) => NeedsUpdate(g) /\ ~Applies(g)
      BY ConfigReconciled
    <3> QED
      BY <1>6, <3>1, <3>2 DEF Applies
  <2> HIDE DEF s
  <2> QED
    BY <1>2, <1>3, <2>1, <2>2, <2>3, <2>4, <2>5, SaveEffect DEF Tells
<1> QED
  BY <1>4, <1>5, <1>6

\* What the reconcile of group number id, which was g, leaves of it and says of it: h. A status
\* that is not about h is the old one with drift, in mode Warn.
GroupLeft(id, g, h) ==
  /\ ValidGroup(id, h) /\ h.exists = g.exists
  /\ groups' = [groups EXCEPT ![id] = h]
  /\ statuses' \in [Objects -> Statuses] /\ queued' \in [Objects -> BOOLEAN]
  /\ losses' \in 0..MaxEvents /\ losses' >= losses /\ events' \in 0..MaxEvents
  /\ statuses'[Link] = statuses[Link]
  /\ \/ statuses'[Group].id = id /\ losses' = losses
     \/ statuses'[Group].id = statuses[Group].id /\ losses' = losses + 1
     \/ statuses'[Group].id = statuses[Group].id /\ Partial(id, g) # {}
  /\ statuses'[Group].drift /\ statuses'[Group].why = "Ready" => mode = "Warn"
  \* the status of another group tells nothing
  /\ Tells(statuses'[Group], queued'[Group]) =>
       \/ /\ statuses'[Group].id = id /\ PortTrue(h)
          /\ NeedsUpdate(h) => statuses'[Group].drift \/ mode = "Ignore"
       \/ statuses'[Group] = statuses[Group] /\ statuses[Group].drift /\ mode = "Warn"

\* This is what each way out of the reconcile of an existing group leaves.
LEMMA ExistingLeaves ==
  ASSUME RemoteTypeOK, Turn(Group), NEW id \in Ids, NEW g, ValidGroup(id, g), ReconcileExisting(id, g)
  PROVE  \E h \in {g, Reconciled(id, g)} \cup Partial(id, g) : GroupLeft(id, g, h)
<1>1. life[Group] = "live" /\ queued[Group]
  BY DEF Turn
<1>2. id \in 0..MaxMade /\ Group \in Objects /\ Group # Link /\ Link \in Objects
  BY RemoteBoundsAssumption, RecordsTyped DEF Ids
<1>3. statuses[Group].drift /\ statuses[Group].why = "Ready" => mode = "Warn"
  BY DEF RemoteTypeOK
<1>4. events \in 0..MaxEvents
  BY DEF RemoteTypeOK
<1>5. CASE /\ NeedsUpdate(g) /\ ~Applies(g) /\ mode = "Fail"
           /\ groups' = [groups EXCEPT ![id] = g]
           /\ SaveStatus(Group, MarkDrift(id, g, TRUE), TRUE) /\ UNCHANGED events
  <2> DEFINE s == MarkDrift(id, g, TRUE)
  <2>1. s \in Statuses
    BY <1>2, ReportsTyped
  <2>2. s.id = id /\ s.why = "Drift"
    BY DEF MarkDrift
  <2>3. SaveStatus(Group, s, TRUE)
    BY <1>5
  <2> HIDE DEF s
  <2>4. GroupLeft(id, g, g)
    BY <1>1, <1>2, <1>3, <1>4, <1>5, <2>1, <2>2, <2>3, SaveEffect DEF GroupLeft, Tells
  <2> QED
    BY <2>4
<1>6. CASE /\ ~(NeedsUpdate(g) /\ ~Applies(g) /\ mode = "Fail")
           /\ groups' = [groups EXCEPT ![id] = Reconciled(id, g)]
           /\ Publish(id, Reconciled(id, g)) /\ UNCHANGED events
  <2> DEFINE h == Reconciled(id, g)
  <2>1. ValidGroup(id, h) /\ h.exists = g.exists
    BY ReconciledValid
  <2>2. /\ statuses' \in [Objects -> Statuses] /\ queued' \in [Objects -> BOOLEAN]
        /\ losses' \in 0..MaxEvents /\ losses' >= losses
        /\ statuses'[Link] = statuses[Link]
        /\ \/ /\ statuses'[Group].id = id /\ losses' = losses
              /\ Tells(statuses'[Group], queued'[Group]) =>
                   /\ PortTrue(h)
                   /\ NeedsUpdate(h) => statuses'[Group].drift \/ mode = "Ignore"
              /\ statuses'[Group].drift /\ statuses'[Group].why = "Ready" => mode = "Warn"
           \/ /\ statuses'[Group] = statuses[Group] /\ losses' = losses + 1
              /\ Tells(statuses'[Group], queued'[Group]) => statuses[Group].drift
    BY <1>6, PublishTells
  <2> HIDE DEF h
  <2>3. groups' = [groups EXCEPT ![id] = h] /\ events' = events
    BY <1>6 DEF h
  <2>4. GroupLeft(id, g, h)
    BY <1>3, <1>4, <2>1, <2>2, <2>3 DEF GroupLeft, Tells
  <2> QED
    BY <2>4 DEF h
<1>7. CASE \E h \in Partial(id, g) : /\ groups' = [groups EXCEPT ![id] = h]
                                     /\ Happens /\ SaveStatus(Group, MarkNotReady(Group), TRUE)
  <2>1. PICK h \in Partial(id, g) : groups' = [groups EXCEPT ![id] = h]
    BY <1>7
  <2>2. ValidGroup(id, h) /\ h.exists = g.exists
    BY <2>1, ReconciledValid
  <2> DEFINE s == MarkNotReady(Group)
  <2>3. s \in Statuses
    BY <1>2, ReportsTyped
  <2>4. s.id = statuses[Group].id /\ s.why = "Failed"
    BY RecordsTyped DEF MarkNotReady, Statuses
  <2>5. SaveStatus(Group, s, TRUE) /\ Happens
    BY <1>7
  <2>6. events' \in 0..MaxEvents
    BY <1>4, <2>5, RemoteBoundsAssumption DEF Happens, RemoteTypeOK
  <2> HIDE DEF s
  <2>7. GroupLeft(id, g, h)
    BY <1>1, <1>2, <1>3, <2>1, <2>2, <2>3, <2>4, <2>5, <2>6, SaveEffect DEF GroupLeft, Tells
  <2> QED
    BY <2>1, <2>7
<1> QED
  BY <1>5, <1>6, <1>7 DEF ReconcileExisting

-----------------------------------------------------------------------------
\* Sets of ids are finite: subsets are smaller, and one more member is one more at most.
LEMMA CountedRemotes ==
  ASSUME NEW S \in SUBSET Ids
  PROVE  /\ Cardinality(S) \in Nat
         /\ \A T : T \subseteq S => Cardinality(T) <= Cardinality(S)
         /\ \A T, x : T \subseteq S \cup {x} => Cardinality(T) <= Cardinality(S) + 1
         /\ S = {} => Cardinality(S) = 0
<1>1. IsFiniteSet(Ids)
  BY RemoteBoundsAssumption, FS_Interval DEF Ids
<1>2. IsFiniteSet(S) /\ Cardinality(S) \in Nat
  BY <1>1, FS_Subset, FS_CardinalityType
<1>3. \A T : T \subseteq S => Cardinality(T) <= Cardinality(S)
  BY <1>2, FS_Subset
<1>4. ASSUME NEW T, NEW x, T \subseteq S \cup {x}
      PROVE  Cardinality(T) <= Cardinality(S) + 1
  <2>1. IsFiniteSet(S \cup {x}) /\ Cardinality(S \cup {x}) \in Nat
        /\ Cardinality(S \cup {x}) <= Cardinality(S) + 1
    BY <1>2, FS_AddElement, FS_CardinalityType
  <2>2. Cardinality(T) \in Nat /\ Cardinality(T) <= Cardinality(S \cup {x})
    BY <2>1, <1>4, FS_Subset, FS_CardinalityType
  <2> QED
    BY <1>2, <2>1, <2>2
<1> QED
  BY <1>2, <1>3, <1>4, FS_EmptySet

\* A step that makes no group and keeps the id of the status keeps the count of the others.
LEMMA NoMoreRemotes ==
  ASSUME RemoteTypeOK, RemotesCounted, Remotes' \subseteq Remotes, adopts' = adopts,
         losses' \in Nat, losses' >= losses, statuses'[Group].id = statuses[Group].id
  PROVE  RemotesCounted'
<1>1. Remotes' \ {statuses'[Group].id} \subseteq Remotes \ {statuses[Group].id}
  OBVIOUS
<1>2. Remotes \ {statuses[Group].id} \in SUBSET Ids
  BY DEF Remotes
<1>3. Cardinality(Remotes' \ {statuses'[Group].id}) <= Cardinality(Remotes \ {statuses[Group].id})
  BY <1>1, <1>2, CountedRemotes
<1>4. /\ Cardinality(Remotes \ {statuses[Group].id}) \in Nat
      /\ Cardinality(Remotes' \ {statuses'[Group].id}) \in Nat
  BY <1>1, <1>2, CountedRemotes
<1>5. losses \in Nat
  BY RemoteBoundsAssumption DEF RemoteTypeOK
<1>6. CASE adopts /\ statuses[Group].id = None
  BY <1>6 DEF RemotesCounted
<1>7. CASE ~(adopts /\ statuses[Group].id = None)
  <2>1. Cardinality(Remotes \ {statuses[Group].id}) <= losses
    BY <1>7 DEF RemotesCounted
  <2>2. Cardinality(Remotes' \ {statuses'[Group].id}) <= losses'
    BY <1>3, <1>4, <1>5, <2>1
  <2> QED
    BY <1>7, <2>2 DEF RemotesCounted
<1> QED
  BY <1>6, <1>7

\* The same of connections.
LEMMA NoMoreLinks ==
  ASSUME RemoteTypeOK, LinksCounted, RemoteLinks' \subseteq RemoteLinks,
         losses' \in Nat, losses' >= losses, statuses'[Link].id = statuses[Link].id
  PROVE  LinksCounted'
<1>1. RemoteLinks' \ {statuses'[Link].id} \subseteq RemoteLinks \ {statuses[Link].id}
  OBVIOUS
<1>2. RemoteLinks \ {statuses[Link].id} \in SUBSET Ids
  BY DEF RemoteLinks
<1>3. Cardinality(RemoteLinks' \ {statuses'[Link].id}) <= Cardinality(RemoteLinks \ {statuses[Link].id})
  BY <1>1, <1>2, CountedRemotes
<1>4. /\ Cardinality(RemoteLinks \ {statuses[Link].id}) \in Nat
      /\ Cardinality(RemoteLinks' \ {statuses'[Link].id}) \in Nat
  BY <1>1, <1>2, CountedRemotes
<1>5. losses \in Nat
  BY RemoteBoundsAssumption DEF RemoteTypeOK
<1> QED
  BY <1>3, <1>4, <1>5 DEF LinksCounted

\* What is left is well formed, and the status is true of it. The case of the old status is
\* the one that needs the invariant: nothing was called then, since nothing was to be done.
LEMMA LeftTells ==
  ASSUME RemoteInv, Turn(Group), NEW id \in Ids, NEW g, ValidGroup(id, g),
         NEW h \in {g, Reconciled(id, g)} \cup Partial(id, g), GroupLeft(id, g, h),
         statuses[Group].id = id => g = groups[id] /\ Exists(id),
         UNCHANGED <<spec, fixed, purge, life, nifiCluster, links>>,
         touched' \in {"never", "unseen", "seen"}, made' \in Counts
  PROVE  RemoteTypeOK' /\ PortTold' /\ ConfigTold'
<1> USE DEF RemoteInv
<1>1. groups' \in [Ids -> GroupRecord]
  BY DEF GroupLeft, ValidGroup, RemoteTypeOK
<1>2. \A i \in Ids : groups'[i] = IF i = id THEN h ELSE groups[i]
  BY DEF GroupLeft, RemoteTypeOK
<1>3. RemoteTypeOK'
  <2>1. \A i \in Ids : groups'[i].sending =>
          groups'[i].known /\ \E l \in Ids : links'[l] = i
    BY <1>2 DEF GroupLeft, ValidGroup, Linked, RemoteTypeOK
  <2>2. statuses'[Group].drift /\ statuses'[Group].why = "Ready" => mode' = "Warn"
    BY DEF GroupLeft, fixed
  <2> QED
    BY <1>1, <2>1, <2>2 DEF GroupLeft, RemoteTypeOK, fixed
<1>4. CASE ~Tells(statuses'[Group], queued'[Group])
  BY <1>3, <1>4 DEF PortTold, ConfigTold
<1>5. CASE /\ statuses'[Group].id = id /\ PortTrue(h)
           /\ NeedsUpdate(h) => statuses'[Group].drift \/ mode = "Ignore"
  <2>1. groups'[statuses'[Group].id] = h
    BY <1>2, <1>5
  <2> QED
    BY <1>3, <1>5, <2>1 DEF PortTold, ConfigTold, PortTrue, Declared, NeedsUpdate, fixed
<1>6. CASE /\ Tells(statuses'[Group], queued'[Group])
           /\ statuses'[Group] = statuses[Group] /\ statuses[Group].drift /\ mode = "Warn"
  <2> DEFINE i == statuses[Group].id
  <2>1. life[Group] = "live"
    BY DEF Turn
  <2>2. Tells(statuses[Group], queued[Group])
    BY <1>6 DEF Tells
  <2>3. CASE i = id
    <3>1. PortTrue(g)
      BY <2>1, <2>2, <2>3 DEF PortTold
    <3>2. ~Applies(g)
      BY <1>6, <2>2 DEF Applies, Tells
    <3>3. h = g
      BY <3>1, <3>2, NothingToDo
    <3>4. groups'[i] = g
      BY <1>2, <2>3, <3>3
    <3> QED
      BY <1>3, <1>6, <2>3, <3>1, <3>4 DEF PortTold, ConfigTold, PortTrue, Declared
  <2>4. CASE i # id
    <3>1. ASSUME (statuses'[Group].id \in Ids /\ groups'[statuses'[Group].id].exists)
          PROVE  i \in Ids /\ groups'[i] = groups[i]
      BY <1>2, <1>6, <2>4, <3>1 DEF Exists
    <3>2. ASSUME (statuses'[Group].id \in Ids /\ groups'[statuses'[Group].id].exists)
          PROVE  PortTrue(groups[i])
      BY <1>6, <3>1, <3>2, <2>1, <2>2 DEF PortTold, Exists
    <3> QED
      BY <1>3, <1>6, <3>1, <3>2 DEF PortTold, ConfigTold, PortTrue, Declared, Exists
  <2> QED
    BY <2>3, <2>4
<1> QED
  BY <1>3, <1>4, <1>5, <1>6 DEF GroupLeft

\* The reconcile of the group, whichever way it ends: waiting for the cluster, a call that
\* fails, the group of the status or an adopted one, or one newly created.
LEMMA GroupReconciled ==
  ASSUME RemoteInv, ReconcileGroup
  PROVE  RemoteInv'
<1> USE DEF RemoteInv
<1>1. /\ UNCHANGED <<spec, fixed, purge, life, nifiCluster>> /\ Turn(Group)
      /\ life[Group] = "live" /\ queued[Group]
  BY DEF ReconcileGroup, Turn
<1>2. Group \in Objects /\ Group # Link /\ Link \in Objects /\ \A x \in Objects : statuses[x] \in Statuses
  BY RecordsTyped DEF RemoteTypeOK
<1>3. events \in 0..MaxEvents /\ losses \in 0..MaxEvents /\ MaxEvents \in Nat
  BY RemoteBoundsAssumption DEF RemoteTypeOK
<1>4. ASSUME NEW s \in Statuses, s.id = statuses[Group].id, s.why # "Ready",
             NEW again \in BOOLEAN, SaveStatus(Group, s, again),
             UNCHANGED <<nifi, touched>>, events' \in 0..MaxEvents
      PROVE  RemoteInv'
  <2>1. /\ statuses' \in [Objects -> Statuses] /\ queued' \in [Objects -> BOOLEAN]
        /\ losses' \in 0..MaxEvents /\ losses' >= losses
        /\ statuses'[Link] = statuses[Link]
        /\ statuses'[Group] \in {s, statuses[Group]}
        /\ Tells(statuses'[Group], queued'[Group]) => statuses'[Group] = statuses[Group] /\ statuses[Group].drift
    BY <1>1, <1>2, <1>4, SaveEffect DEF Tells
  <2>2. statuses'[Group].id = statuses[Group].id
    BY <1>4, <2>1
  <2>3. RemoteTypeOK'
    <3>1. statuses'[Group].drift /\ statuses'[Group].why = "Ready" => mode' = "Warn"
      BY <1>1, <1>4, <2>1 DEF RemoteTypeOK, fixed
    <3> QED
      BY <1>1, <1>4, <2>1, <3>1 DEF RemoteTypeOK, fixed, nifi
  <2>4. InOrder'
    BY <1>4, <2>2 DEF InOrder, nifi
  <2>5. Remotes' = Remotes /\ RemoteLinks' = RemoteLinks
    BY <1>4 DEF Remotes, RemoteLinks, Exists, LinkExists, nifi
  <2>6. RemotesCounted' /\ LinksCounted'
    BY <1>1, <1>3, <2>1, <2>2, <2>5, NoMoreRemotes, NoMoreLinks DEF fixed
  <2>7. ASSUME ~Tells(statuses'[Group], queued'[Group])
        PROVE  PortTold' /\ ConfigTold'
    BY <2>7 DEF PortTold, ConfigTold
  <2>8. ASSUME Tells(statuses'[Group], queued'[Group])
        PROVE  PortTold' /\ ConfigTold'
    <3>1. statuses'[Group] = statuses[Group] /\ Tells(statuses[Group], queued[Group])
      BY <2>1, <2>8 DEF Tells
    <3> QED
      BY <1>1, <1>4, <3>1 DEF PortTold, ConfigTold, PortTrue, Declared, NeedsUpdate, Exists, fixed, nifi
  <2> QED
    BY <2>3, <2>4, <2>6, <2>7, <2>8
<1>5. CASE nifiCluster # "ready" /\ SaveStatus(Group, MarkWaiting(Group), FALSE) /\ UNCHANGED <<nifi, touched, events>>
  <2> DEFINE s == MarkWaiting(Group)
  <2>1. s \in Statuses
    BY <1>2, ReportsTyped
  <2>2. s.id = statuses[Group].id /\ s.why # "Ready"
    BY <1>2 DEF MarkWaiting, Statuses
  <2> HIDE DEF s
  <2>3. SaveStatus(Group, s, FALSE) /\ UNCHANGED <<nifi, touched>> /\ events' \in 0..MaxEvents
    BY <1>3, <1>5 DEF s
  <2> QED
    BY <1>4, <2>1, <2>2, <2>3
<1>6. CASE /\ nifiCluster = "ready" /\ Happens /\ SaveStatus(Group, MarkNotReady(Group), TRUE)
           /\ UNCHANGED <<nifi, touched>>
  <2> DEFINE s == MarkNotReady(Group)
  <2>1. s \in Statuses
    BY <1>2, ReportsTyped
  <2>2. s.id = statuses[Group].id /\ s.why # "Ready"
    BY <1>2 DEF MarkNotReady, Statuses
  <2> HIDE DEF s
  <2>3. SaveStatus(Group, s, TRUE) /\ UNCHANGED <<nifi, touched>>
    BY <1>6 DEF s
  <2>4. events' \in 0..MaxEvents
    BY <1>3, <1>6 DEF Happens
  <2> QED
    BY <1>4, <2>1, <2>2, <2>3, <2>4
<1>7. CASE /\ touched' = (IF touched = "unseen" THEN "seen" ELSE touched)
           /\ \E id \in Found : ReconcileExisting(id, groups[id]) /\ UNCHANGED made
           /\ UNCHANGED links
  <2>1. PICK id \in Found : ReconcileExisting(id, groups[id]) /\ UNCHANGED made
    BY <1>7
  <2> DEFINE g == groups[id]
  <2>2. id \in Ids /\ Exists(id) /\ (id = statuses[Group].id \/ (adopts /\ statuses[Group].id = None))
    BY DEF Found, Exists
  <2>3. ValidGroup(id, g)
    BY <2>2 DEF ValidGroup, Linked, RemoteTypeOK
  <2>4. g.exists
    BY <2>2 DEF Exists
  <2> HIDE DEF g
  <2>5. PICK h \in {g, Reconciled(id, g)} \cup Partial(id, g) : GroupLeft(id, g, h)
    BY <1>1, <2>1, <2>2, <2>3, ExistingLeaves DEF g
  <2>6. touched' \in {"never", "unseen", "seen"} /\ made' \in Counts
    BY <1>7, <2>1 DEF RemoteTypeOK
  <2>7. RemoteTypeOK' /\ PortTold' /\ ConfigTold'
    BY <1>1, <1>7, <2>2, <2>3, <2>5, <2>6, LeftTells DEF g
  <2>8. \A i \in Ids : groups'[i] = IF i = id THEN h ELSE groups[i]
    BY <2>5 DEF GroupLeft, RemoteTypeOK
  <2>9. h.exists
    BY <2>4, <2>5 DEF GroupLeft
  <2>10. Remotes' = Remotes /\ RemoteLinks' = RemoteLinks
    BY <1>7, <2>2, <2>8, <2>9 DEF Remotes, RemoteLinks, Exists, LinkExists
  <2>11. id <= made.group /\ statuses[Group].id <= made.group
    <3>1. id \in Nat /\ made.group \in Nat
      BY <2>2, RecordsTyped, RemoteBoundsAssumption DEF Ids
    <3>2. ~NoGroup.exists
      BY DEF NoGroup
    <3>3. ~(id > made.group)
      BY <2>2, <3>2 DEF InOrder, Exists
    <3> QED
      BY <3>1, <3>3 DEF InOrder
  <2>12. statuses'[Group].id \in {id, statuses[Group].id} /\ statuses'[Link] = statuses[Link]
         /\ losses' \in Nat /\ losses' >= losses
    BY <1>3, <2>5 DEF GroupLeft
  <2>13. InOrder'
    <3>1. made' = made /\ links' = links
      BY <1>7, <2>1
    <3>2. statuses'[Group].id <= made'.group
      BY <2>11, <2>12, <3>1
    <3>3. made.group \in Nat
      BY RecordsTyped, RemoteBoundsAssumption
    <3>4. \A i \in Ids : i > made'.group => groups'[i] = NoGroup
      <4> SUFFICES ASSUME NEW i \in Ids, i > made.group  PROVE groups'[i] = NoGroup
        BY <3>1
      <4>1. i # id
        BY <2>2, <2>11, <3>3, RemoteBoundsAssumption DEF Ids
      <4> QED
        BY <2>8, <4>1 DEF InOrder
    <3> QED
      BY <3>1, <3>2, <3>4 DEF InOrder
  <2>14. LinksCounted'
    BY <2>10, <2>12, NoMoreLinks
  <2>15. RemotesCounted'
    <3>1. CASE statuses'[Group].id = statuses[Group].id
      BY <1>1, <2>10, <2>12, <3>1, NoMoreRemotes DEF fixed
    <3>2. CASE statuses'[Group].id # statuses[Group].id
      <4>1. adopts /\ statuses[Group].id = None /\ statuses'[Group].id = id
        BY <2>2, <2>12, <3>2
      <4>2. \A i, j \in Remotes : i = j
        BY <4>1 DEF RemotesCounted
      <4>3. id \in Remotes
        BY <2>2 DEF Remotes
      <4>4. Remotes' \ {statuses'[Group].id} = {}
        BY <2>10, <4>1, <4>2, <4>3
      <4>5. Cardinality(Remotes' \ {statuses'[Group].id}) = 0
        BY <4>4, FS_EmptySet
      <4>6. id # None
        BY <2>2, RemoteBoundsAssumption DEF Ids, None
      <4> QED
        BY <2>12, <4>1, <4>5, <4>6 DEF RemotesCounted
    <3> QED
      BY <3>1, <3>2
  <2> QED
    BY <2>7, <2>13, <2>14, <2>15
<1>8. CASE /\ touched' = (IF touched = "unseen" THEN "seen" ELSE touched)
           /\ Found = {} /\ Create /\ UNCHANGED links
  <2> DEFINE id == made.group + 1
             new == [NoGroup EXCEPT !.exists = TRUE, !.config = spec.config]
  <2>1. made.group < MaxMade /\ made' = [made EXCEPT !.group = id]
    BY <1>8 DEF Create
  <2>2. made \in Counts /\ made.group \in Nat /\ made.link \in Nat /\ MaxMade \in Nat
    BY RemoteBoundsAssumption DEF RemoteTypeOK, Counts
  <2>3. /\ id \in Ids /\ id > made.group /\ id # statuses[Group].id
        /\ made' \in Counts /\ made'.group = id /\ made'.link = made.link
        /\ statuses[Group].id < id
    BY <1>2, <2>1, <2>2 DEF Counts, Ids, InOrder, Statuses
  <2>4. new \in GroupRecord /\ new.exists /\ ~new.known /\ ~new.sending /\ new.config = spec.config
    <3>1. spec.config \in 0..1
      BY DEF RemoteTypeOK, Specs
    <3> DEFINE c == spec.config
    <3> HIDE DEF c
    <3>2. NoGroup \in GroupRecord
      BY DEF NoGroup, GroupRecord
    <3>3. NoGroup.known = FALSE /\ NoGroup.sending = FALSE
      BY DEF NoGroup
    <3> QED
      BY <3>1, <3>2, <3>3, GroupMade DEF c
  <2>5. \/ ReconcileExisting(id, new)
        \/ /\ groups' = [groups EXCEPT ![id] = new]
           /\ losses' = losses + 1 /\ events + losses < MaxEvents
           /\ statuses' = [statuses EXCEPT ![Group] = MarkNotReady(Group)] /\ Wake(Group)
           /\ UNCHANGED events
    BY <1>8 DEF Create
  <2> HIDE DEF id, new
  <2>6. ValidGroup(id, new)
    BY <2>4 DEF ValidGroup
  <2>7. ~Applies(new) /\ Reconciled(id, new) = new /\ Partial(id, new) = {}
    BY <2>4, <2>6, NothingToDo DEF Applies, NeedsUpdate
  <2>8. touched' \in {"never", "unseen", "seen"}
    BY <1>8 DEF RemoteTypeOK
  <2>9. GroupLeft(id, new, new)
    <3>1. CASE ReconcileExisting(id, new)
      BY <1>1, <2>3, <2>6, <2>7, <3>1, ExistingLeaves
    <3>2. CASE /\ groups' = [groups EXCEPT ![id] = new]
               /\ losses' = losses + 1 /\ events + losses < MaxEvents
               /\ statuses' = [statuses EXCEPT ![Group] = MarkNotReady(Group)] /\ Wake(Group)
               /\ UNCHANGED events
      <4> DEFINE s == MarkNotReady(Group)
      <4>1. s \in Statuses
        BY <1>2, ReportsTyped
      <4>2. s.id = statuses[Group].id /\ s.why = "Failed"
        BY <1>2 DEF MarkNotReady, Statuses
      <4>3. statuses' = [statuses EXCEPT ![Group] = s]
        BY <3>2
      <4> HIDE DEF s
      <4>4. statuses'[Group] = s /\ statuses'[Link] = statuses[Link] /\ statuses' \in [Objects -> Statuses]
        BY <1>2, <4>1, <4>3 DEF RemoteTypeOK
      <4>5. queued' \in [Objects -> BOOLEAN]
        BY <3>2 DEF Wake, RemoteTypeOK
      <4>6. losses' \in 0..MaxEvents /\ losses' >= losses
        BY <1>3, <3>2
      <4> QED
        BY <1>3, <2>6, <3>2, <4>2, <4>4, <4>5, <4>6 DEF GroupLeft, Tells
    <3> QED
      BY <2>5, <3>1, <3>2
  <2>10. RemoteTypeOK' /\ PortTold' /\ ConfigTold'
    BY <1>1, <1>8, <2>3, <2>6, <2>8, <2>9, LeftTells
  <2>11. \A i \in Ids : groups'[i] = IF i = id THEN new ELSE groups[i]
    BY <2>9 DEF GroupLeft, RemoteTypeOK
  <2>12. /\ statuses'[Link] = statuses[Link] /\ losses' \in Nat /\ losses' >= losses
         /\ \/ statuses'[Group].id = id /\ losses' = losses
            \/ statuses'[Group].id = statuses[Group].id /\ losses' = losses + 1
    BY <1>3, <2>7, <2>9 DEF GroupLeft
  <2>13. InOrder'
    <3>1. statuses'[Group].id <= id
      <4>1. statuses[Group].id \in Nat /\ id \in Nat
        BY <1>2, <2>3, RecordsTyped, RemoteBoundsAssumption DEF Ids
      <4> QED
        BY <2>3, <2>12, <4>1
    <3>2. \A i \in Ids : i > id => i # id /\ i > made.group
      BY <2>2, <2>3 DEF Ids
    <3> QED
      BY <1>8, <2>3, <2>11, <3>1, <3>2 DEF InOrder
  <2>14. RemoteLinks' = RemoteLinks
    BY <1>8 DEF RemoteLinks, LinkExists
  <2>15. LinksCounted'
    BY <2>12, <2>14, NoMoreLinks
  <2>16. Remotes' = Remotes \cup {id} /\ id \notin Remotes
    BY <2>3, <2>4, <2>11 DEF Remotes, Exists, InOrder, NoGroup
  <2>17. statuses[Group].id \notin Remotes
    BY <1>8 DEF Found, Remotes
  <2>18. Remotes \in SUBSET Ids /\ Remotes \ {statuses[Group].id} = Remotes
    BY <2>17 DEF Remotes
  <2>19. RemotesCounted'
    <3>1. CASE adopts /\ statuses[Group].id = None
      <4>1. Remotes = {}
        BY <1>8, <3>1 DEF Found, Remotes, Exists
      <4>2. Remotes' = {id}
        BY <2>16, <4>1
      <4>3. CASE statuses'[Group].id = id
        <5>1. Remotes' \ {statuses'[Group].id} = {}
          BY <4>2, <4>3
        <5>2. Cardinality(Remotes' \ {statuses'[Group].id}) = 0
          BY <5>1, FS_EmptySet
        <5>3. id # None
          BY <2>3 DEF Ids, None
        <5> QED
          BY <2>12, <4>3, <5>2, <5>3 DEF RemotesCounted
      <4>4. CASE statuses'[Group].id = statuses[Group].id
        BY <1>1, <3>1, <4>2, <4>4 DEF RemotesCounted, fixed
      <4> QED
        BY <2>12, <4>3, <4>4
    <3>2. CASE ~(adopts /\ statuses[Group].id = None)
      <4>1. Cardinality(Remotes) <= losses
        BY <2>18, <3>2 DEF RemotesCounted
      <4>2. CASE statuses'[Group].id = id /\ losses' = losses
        <5>1. Remotes' \ {statuses'[Group].id} = Remotes
          BY <2>16, <4>2
        <5>2. id # None
          BY <2>3 DEF Ids, None
        <5> QED
          BY <4>1, <4>2, <5>1, <5>2 DEF RemotesCounted
      <4>3. CASE statuses'[Group].id = statuses[Group].id /\ losses' = losses + 1
        <5>1. Remotes' \ {statuses'[Group].id} \subseteq Remotes \cup {id}
          BY <2>16
        <5>2. Cardinality(Remotes' \ {statuses'[Group].id}) <= Cardinality(Remotes) + 1
          BY <2>18, <5>1, CountedRemotes
        <5>3. Cardinality(Remotes) \in Nat
          BY <2>18, CountedRemotes
        <5>4. Remotes' \ {statuses'[Group].id} \in SUBSET Ids
          BY <2>3, <2>18, <5>1
        <5>5. Cardinality(Remotes' \ {statuses'[Group].id}) \in Nat
          BY <5>4, CountedRemotes
        <5>6. Cardinality(Remotes' \ {statuses'[Group].id}) <= losses'
          BY <1>3, <4>1, <4>3, <5>2, <5>3, <5>5
        <5> QED
          BY <1>1, <3>2, <4>3, <5>6 DEF RemotesCounted, fixed
      <4> QED
        BY <2>12, <4>2, <4>3
    <3> QED
      BY <3>1, <3>2
  <2> QED
    BY <2>10, <2>13, <2>15, <2>19
<1> QED
  BY <1>5, <1>6, <1>7, <1>8 DEF ReconcileGroup

-----------------------------------------------------------------------------
\* A step that leaves the group, what is wanted of it and its status alone, and at most calls
\* for its reconcile, leaves what the status tells true.
LEMMA ToldStill ==
  ASSUME PortTold, ConfigTold, UNCHANGED <<spec, mode, groups, touched>>,
         statuses'[Group] = statuses[Group],
         life'[Group] = "live" => life[Group] = "live" /\ (queued[Group] => queued'[Group])
  PROVE  PortTold' /\ ConfigTold'
<1>1. life'[Group] = "live" /\ Tells(statuses'[Group], queued'[Group])
      => life[Group] = "live" /\ Tells(statuses[Group], queued[Group])
  BY DEF Tells
<1>2. Exists(statuses[Group].id)' <=> Exists(statuses[Group].id)
  BY DEF Exists
<1> QED
  BY <1>1, <1>2 DEF PortTold, ConfigTold, PortTrue, Declared, NeedsUpdate, Exists

\* A reconcile of the connection that makes none only writes its status.
LEMMA LinkSaved ==
  ASSUME RemoteInv, Turn(Link), NEW s \in Statuses, NEW again \in BOOLEAN,
         s.id = statuses[Link].id, SaveStatus(Link, s, again),
         UNCHANGED <<spec, fixed, purge, life, nifiCluster, groups, links, made, touched>>,
         events' \in 0..MaxEvents
  PROVE  RemoteInv'
<1> USE DEF RemoteInv
<1>1. /\ statuses' \in [Objects -> Statuses] /\ queued' \in [Objects -> BOOLEAN]
      /\ losses' \in 0..MaxEvents /\ losses' >= losses
      /\ statuses'[Group] = statuses[Group] /\ statuses'[Link].id = statuses[Link].id
      /\ life[Group] = "live" => queued'[Group] = queued[Group]
  BY RecordsTyped, SaveEffect
<1>2. RemoteTypeOK'
  BY <1>1 DEF RemoteTypeOK, fixed
<1>3. InOrder'
  BY <1>1 DEF InOrder
<1>4. Remotes' = Remotes /\ RemoteLinks' = RemoteLinks
  BY DEF Remotes, RemoteLinks, Exists, LinkExists
<1>5. losses' \in Nat
  BY <1>1, RemoteBoundsAssumption
<1>6. RemotesCounted' /\ LinksCounted'
  BY <1>1, <1>4, <1>5, NoMoreRemotes, NoMoreLinks DEF fixed
<1>7. PortTold' /\ ConfigTold'
  BY <1>1, ToldStill DEF fixed
<1> QED
  BY <1>2, <1>3, <1>6, <1>7

\* A reconcile of the connection that makes one: its id is saved, or lost with the answer or
\* the write and then counted.
LEMMA LinkMade ==
  ASSUME RemoteInv, Turn(Link), statuses[Link].id = None, CreateLink,
         UNCHANGED <<spec, fixed, purge, life, nifiCluster, groups, touched>>
  PROVE  RemoteInv'
<1> USE DEF RemoteInv
<1> DEFINE id == statuses[Group].id
           l == made.link + 1
<1>1. Group \in Objects /\ Group # Link /\ Link \in Objects /\ \A x \in Objects : statuses[x] \in Statuses
  BY RecordsTyped DEF RemoteTypeOK
<1>2. /\ events \in 0..MaxEvents /\ losses \in 0..MaxEvents /\ MaxEvents \in Nat /\ MaxMade \in Nat
      /\ made.link \in 0..MaxMade
  BY RemoteBoundsAssumption, RecordsTyped DEF RemoteTypeOK
<1>3. CASE ~(Exists(id) /\ groups[id].known) /\ SaveStatus(Link, MarkNotReady(Link), TRUE)
           /\ UNCHANGED <<made, links, events>>
  <2> DEFINE s == MarkNotReady(Link)
  <2>1. s \in Statuses
    BY <1>1, ReportsTyped
  <2>2. s.id = statuses[Link].id
    BY <1>1 DEF MarkNotReady, Statuses
  <2> HIDE DEF s
  <2>3. SaveStatus(Link, s, TRUE)
    BY <1>3 DEF s
  <2>4. events' \in 0..MaxEvents
    BY <1>2, <1>3
  <2> QED
    BY <1>3, <2>1, <2>2, <2>3, <2>4, LinkSaved
<1>4. CASE /\ Exists(id) /\ groups[id].known /\ made.link < MaxMade
           /\ made' = [made EXCEPT !.link = l]
           /\ links' = [links EXCEPT ![l] = id]
           /\ \/ SaveStatus(Link, MarkReady(Link, l, "unknown"), FALSE)
              \/ /\ losses' = losses + 1 /\ events + losses < MaxEvents
                 /\ statuses' = [statuses EXCEPT ![Link] = MarkNotReady(Link)] /\ Wake(Link)
           /\ UNCHANGED events
  <2>1. l \in Ids /\ l > made.link /\ id \in Ids /\ id \in 0..MaxMade /\ l \in 0..MaxMade
    BY <1>2, <1>4 DEF Ids, Exists
  <2>2. made' \in Counts /\ made'.link = l /\ made'.group = made.group
    BY <1>2, <1>4, <2>1 DEF RemoteTypeOK, Counts
  <2>3. links' \in [Ids -> 0..MaxMade] /\ \A m \in Ids : links'[m] = IF m = l THEN id ELSE links[m]
    BY <1>4, <2>1 DEF RemoteTypeOK
  <2>4. links[l] = None
    BY <2>1 DEF InOrder
  <2>5. id # None
    BY <2>1, <1>2 DEF Ids, None
  <2> HIDE DEF l
  <2>6. /\ statuses' \in [Objects -> Statuses] /\ queued' \in [Objects -> BOOLEAN]
        /\ losses' \in 0..MaxEvents /\ losses' >= losses
        /\ statuses'[Group] = statuses[Group]
        /\ life[Group] = "live" => queued'[Group] = queued[Group]
        /\ \/ statuses'[Link].id = l /\ losses' = losses
           \/ statuses'[Link].id = None /\ losses' = losses + 1
    <3>1. CASE SaveStatus(Link, MarkReady(Link, l, "unknown"), FALSE)
      <4> DEFINE s == MarkReady(Link, l, "unknown")
      <4>1. s \in Statuses
        BY <1>1, <2>1, ReportsTyped DEF PortStates
      <4>2. s.id = l
        BY DEF MarkReady
      <4> HIDE DEF s
      <4>3. SaveStatus(Link, s, FALSE)
        BY <3>1 DEF s
      <4> QED
        BY <1>1, <4>1, <4>2, <4>3, SaveEffect
    <3>2. CASE /\ losses' = losses + 1 /\ events + losses < MaxEvents
               /\ statuses' = [statuses EXCEPT ![Link] = MarkNotReady(Link)] /\ Wake(Link)
      <4> DEFINE s == MarkNotReady(Link)
      <4>1. s \in Statuses
        BY <1>1, ReportsTyped
      <4>2. s.id = None
        BY <1>1 DEF MarkNotReady, Statuses
      <4>3. statuses' = [statuses EXCEPT ![Link] = s]
        BY <3>2
      <4> HIDE DEF s
      <4>4. statuses'[Link] = s /\ statuses'[Group] = statuses[Group] /\ statuses' \in [Objects -> Statuses]
        BY <1>1, <4>1, <4>3 DEF RemoteTypeOK
      <4>5. queued' \in [Objects -> BOOLEAN] /\ (life[Group] = "live" => queued'[Group] = queued[Group])
        BY <3>2 DEF Wake, Wakes, RemoteTypeOK, Objects, Group, Link
      <4>6. losses' \in 0..MaxEvents /\ losses' >= losses
        BY <1>2, <3>2
      <4> QED
        BY <3>2, <4>2, <4>4, <4>5, <4>6
    <3> QED
      BY <1>4, <3>1, <3>2
  <2>7. RemoteTypeOK'
    <3>1. \A i \in Ids : groups'[i].sending =>
            groups'[i].known /\ \E m \in Ids : links'[m] = i
      <4> SUFFICES ASSUME NEW i \in Ids, groups[i].sending
                   PROVE  groups[i].known /\ \E m \in Ids : links'[m] = i
        OBVIOUS
      <4>1. groups[i].known
        BY DEF RemoteTypeOK
      <4>2. PICK m \in Ids : links[m] = i
        BY DEF RemoteTypeOK
      <4>3. m # l
        BY <4>2, <2>4 DEF Ids, None
      <4> QED
        BY <2>3, <4>1, <4>2, <4>3
    <3>2. statuses'[Group].drift /\ statuses'[Group].why = "Ready" => mode' = "Warn"
      BY <2>6 DEF RemoteTypeOK, fixed
    <3> QED
      BY <1>2, <1>4, <2>2, <2>3, <2>6, <3>1, <3>2 DEF RemoteTypeOK, fixed
  <2>8. InOrder'
    <3>1. \A m \in Ids : m > made'.link => links'[m] = None
      <4> SUFFICES ASSUME NEW m \in Ids, m > l  PROVE links'[m] = None
        BY <2>2
      <4>1. m # l /\ m > made.link
        BY <1>2, <2>1 DEF Ids
      <4> QED
        BY <2>3, <4>1 DEF InOrder
    <3> QED
      BY <2>2, <2>6, <3>1 DEF InOrder
  <2>9. RemotesCounted'
    <3>1. Remotes' = Remotes
      BY DEF Remotes, Exists
    <3>2. losses' \in Nat
      BY <2>6, <1>2
    <3> QED
      BY <2>6, <3>1, <3>2, NoMoreRemotes DEF fixed
  <2>10. LinksCounted'
    <3>1. RemoteLinks' = RemoteLinks \cup {l} /\ l \notin RemoteLinks
      BY <2>1, <2>3, <2>4, <2>5 DEF RemoteLinks, LinkExists
    <3>2. RemoteLinks \in SUBSET Ids /\ RemoteLinks \ {statuses[Link].id} = RemoteLinks
      BY DEF RemoteLinks, Ids, None
    <3>3. Cardinality(RemoteLinks) <= losses /\ Cardinality(RemoteLinks) \in Nat
      BY <3>2, CountedRemotes DEF LinksCounted
    <3>4. CASE statuses'[Link].id = l /\ losses' = losses
      <4>1. RemoteLinks' \ {statuses'[Link].id} = RemoteLinks
        BY <3>1, <3>4
      <4> QED
        BY <3>3, <3>4, <4>1 DEF LinksCounted
    <3>5. CASE statuses'[Link].id = None /\ losses' = losses + 1
      <4>1. RemoteLinks' \ {statuses'[Link].id} \subseteq RemoteLinks \cup {l}
        BY <3>1
      <4>2. Cardinality(RemoteLinks' \ {statuses'[Link].id}) <= Cardinality(RemoteLinks) + 1
        BY <3>2, <4>1, CountedRemotes
      <4>3. RemoteLinks' \ {statuses'[Link].id} \in SUBSET Ids
        BY <2>1, <3>2, <4>1
      <4>4. Cardinality(RemoteLinks' \ {statuses'[Link].id}) \in Nat
        BY <4>3, CountedRemotes
      <4>5. Cardinality(RemoteLinks' \ {statuses'[Link].id}) <= losses'
        BY <1>2, <3>3, <3>5, <4>2, <4>4
      <4> QED
        BY <4>5 DEF LinksCounted
    <3> QED
      BY <2>6, <3>4, <3>5
  <2>11. PortTold' /\ ConfigTold'
    BY <2>6, ToldStill DEF fixed
  <2> QED
    BY <2>7, <2>8, <2>9, <2>10, <2>11
<1> QED
  BY <1>3, <1>4 DEF CreateLink

\* The reconcile of the connection.
LEMMA LinkReconciled ==
  ASSUME RemoteInv, ReconcileLink
  PROVE  RemoteInv'
<1> USE DEF RemoteInv
<1>1. /\ UNCHANGED <<spec, fixed, purge, life, nifiCluster, groups, touched>> /\ Turn(Link)
  BY DEF ReconcileLink
<1>2. Link \in Objects /\ statuses[Link] \in Statuses /\ statuses[Link].id \in 0..MaxMade
  BY RecordsTyped
<1>3. events \in 0..MaxEvents /\ losses \in 0..MaxEvents /\ MaxEvents \in Nat
  BY RemoteBoundsAssumption DEF RemoteTypeOK
<1>4. /\ MarkWaiting(Link) \in Statuses /\ MarkNotReady(Link) \in Statuses
      /\ MarkReady(Link, statuses[Link].id, "unknown") \in Statuses
  BY <1>2, ReportsTyped DEF PortStates
<1>5. /\ MarkWaiting(Link).id = statuses[Link].id /\ MarkNotReady(Link).id = statuses[Link].id
      /\ MarkReady(Link, statuses[Link].id, "unknown").id = statuses[Link].id
  BY <1>2 DEF MarkWaiting, MarkNotReady, MarkReady, Statuses
<1>6. ASSUME UNCHANGED <<made, links>>, events' \in 0..MaxEvents,
             \/ SaveStatus(Link, MarkWaiting(Link), FALSE)
             \/ SaveStatus(Link, MarkNotReady(Link), TRUE)
             \/ SaveStatus(Link, MarkReady(Link, statuses[Link].id, "unknown"), FALSE)
      PROVE  RemoteInv'
  <2>1. UNCHANGED <<spec, fixed, purge, life, nifiCluster, groups, links, made, touched>>
    BY <1>1, <1>6
  <2> QED
    BY <1>1, <1>4, <1>5, <1>6, <2>1, LinkSaved
<1>7. Happens => events' \in 0..MaxEvents
  BY <1>3 DEF Happens
<1>8. CASE UNCHANGED <<made, links>> /\ (UNCHANGED events \/ Happens)
           /\ (\/ SaveStatus(Link, MarkWaiting(Link), FALSE)
               \/ SaveStatus(Link, MarkNotReady(Link), TRUE)
               \/ SaveStatus(Link, MarkReady(Link, statuses[Link].id, "unknown"), FALSE))
  BY <1>3, <1>6, <1>7, <1>8
<1>9. CASE statuses[Link].id = None /\ CreateLink
  BY <1>1, <1>9, LinkMade
<1> QED
  BY <1>8, <1>9 DEF ReconcileLink

-----------------------------------------------------------------------------
\* The end of a deletion, or its repetition, concerns no other resource's life.
LEMMA DropEffect ==
  ASSUME RemoteTypeOK, NEW x \in Objects, DropFinalizer(x) \/ Again
  PROVE  /\ life' \in [Objects -> {"live", "deleting", "gone"}] /\ queued' \in [Objects -> BOOLEAN]
         /\ life'[x] \in {"gone", life[x]}
         /\ \A y \in Objects \ {x} : life'[y] = life[y] /\ (life[y] = "live" /\ queued[y] => queued'[y])
<1> USE DEF RemoteTypeOK
<1>1. CASE Again
  BY <1>1 DEF Again
<1>2. CASE DropFinalizer(x)
  <2>1. life' = [life EXCEPT ![x] = "gone"]
    BY <1>2 DEF DropFinalizer
  <2>2. queued' = [y \in Objects |-> y # x /\ life[y] # "gone" /\ (queued[y] \/ y \in Wakes(x))]
    BY <1>2 DEF DropFinalizer
  <2>3. queued' \in [Objects -> BOOLEAN]
    BY <2>2
  <2>4. \A y \in Objects \ {x} : life[y] = "live" /\ queued[y] => queued'[y]
    BY <2>2
  <2> QED
    BY <2>1, <2>3, <2>4
<1> QED
  BY <1>1, <1>2

\* To wake resources takes none from the workqueue.
LEMMA WakeEffect ==
  ASSUME RemoteTypeOK, NEW x \in Objects, Wake(x)
  PROVE  /\ queued' \in [Objects -> BOOLEAN]
         /\ \A y \in Objects : life[y] # "gone" /\ queued[y] => queued'[y]
BY DEF Wake, RemoteTypeOK

\* The deletion of the group: it is stopped, and removed only if nothing is connected to it.
LEMMA GroupDeleted ==
  ASSUME RemoteInv, DeleteGroup
  PROVE  RemoteInv'
<1> USE DEF RemoteInv
<1> DEFINE id == statuses[Group].id
<1>1. /\ UNCHANGED <<spec, fixed, purge, statuses, nifiCluster, links, made, touched, losses>>
      /\ life[Group] = "deleting" /\ Group \in Objects
  BY DEF DeleteGroup, Deleting, Objects
<1>2. groups \in [Ids -> GroupRecord] /\ NoGroup \in GroupRecord
      /\ \A i \in Ids : ValidGroup(i, groups[i])
  BY RecordsTyped DEF RemoteTypeOK, ValidGroup, Linked
<1>3. /\ life' \in [Objects -> {"live", "deleting", "gone"}] /\ queued' \in [Objects -> BOOLEAN]
      /\ life'[Group] # "live"
  <2>1. DropFinalizer(Group) \/ Again
    BY DEF DeleteGroup
  <2> QED
    BY <1>1, <2>1, DropEffect
<1>4. events' \in 0..MaxEvents
  BY RemoteBoundsAssumption DEF DeleteGroup, Happens, RemoteTypeOK
<1>5. \/ groups' = groups
      \/ /\ Exists(id)
         /\ groups' \in {[groups EXCEPT ![id] = StoppedGroup(groups[id])], DeleteCalls(id)}
  BY DEF DeleteGroup
<1>6. /\ groups' \in [Ids -> GroupRecord]
      /\ \A i \in Ids : groups'[i] \in {groups[i], StoppedGroup(groups[i]), NoGroup}
  <2>1. Exists(id) => id \in Ids /\ StoppedGroup(groups[id]) \in GroupRecord
    BY <1>2, StepsValid DEF Exists, ValidGroup
  <2>2. DeleteCalls(id) \in {[groups EXCEPT ![id] = StoppedGroup(groups[id])], [groups EXCEPT ![id] = NoGroup]}
    BY DEF DeleteCalls
  <2>3. groups' \in {groups, [groups EXCEPT ![id] = StoppedGroup(groups[id])], [groups EXCEPT ![id] = NoGroup]}
        /\ (groups' = groups \/ Exists(id))
    BY <1>5, <2>2
  <2> QED
    BY <1>2, <2>1, <2>3
<1>7. \A i \in Ids : ~StoppedGroup(groups[i]).sending /\ ~NoGroup.sending /\ ~NoGroup.exists
                     /\ StoppedGroup(groups[i]).exists = groups[i].exists
  BY <1>2, StepsValid DEF StoppedGroup, NoGroup, GroupRecord
<1>8. RemoteTypeOK'
  <2>1. \A i \in Ids : groups'[i].sending => groups'[i].known /\ \E l \in Ids : links'[l] = i
    BY <1>1, <1>6, <1>7 DEF RemoteTypeOK
  <2> QED
    BY <1>1, <1>3, <1>4, <1>6, <2>1 DEF RemoteTypeOK, fixed
<1>9. \A i \in Ids : groups[i] = NoGroup => groups'[i] = NoGroup
  <2>1. StoppedGroup(NoGroup) = NoGroup
    <3>1. \A g \in GroupRecord : ~g.sending => StoppedGroup(g) = g
      BY DEF StoppedGroup, GroupRecord
    <3> QED
      BY <1>2, <1>7, <3>1 DEF NoGroup
  <2> QED
    BY <1>6, <2>1
<1>10. InOrder'
  BY <1>1, <1>9 DEF InOrder
<1>11. Remotes' \subseteq Remotes /\ RemoteLinks' = RemoteLinks /\ losses' \in Nat
  BY <1>1, <1>6, <1>7, RemoteBoundsAssumption DEF Remotes, RemoteLinks, Exists, LinkExists, RemoteTypeOK
<1>12. RemotesCounted' /\ LinksCounted'
  BY <1>1, <1>11, RemoteBoundsAssumption, NoMoreRemotes, NoMoreLinks DEF fixed, RemoteTypeOK
<1>13. PortTold' /\ ConfigTold'
  BY <1>3 DEF PortTold, ConfigTold
<1> QED
  BY <1>8, <1>10, <1>12, <1>13

\* The deletion of the connection. NiFi refuses it while the port transmits, so no transmitting
\* group loses its connection.
LEMMA LinkDeleted ==
  ASSUME RemoteInv, DeleteLink
  PROVE  RemoteInv'
<1> USE DEF RemoteInv
<1> DEFINE l == statuses[Link].id
<1>1. /\ UNCHANGED <<spec, fixed, purge, statuses, nifiCluster, groups, made, touched, losses>>
      /\ life[Link] = "deleting" /\ Group \in Objects /\ Link \in Objects /\ Group # Link
  BY RecordsTyped DEF DeleteLink, Deleting
<1>2. /\ life' \in [Objects -> {"live", "deleting", "gone"}] /\ queued' \in [Objects -> BOOLEAN]
      /\ life'[Group] = life[Group]
      /\ life[Group] = "live" => (queued[Group] => queued'[Group])
  <2>1. DropFinalizer(Link) \/ Again
    BY DEF DeleteLink
  <2> QED
    BY <1>1, <2>1, DropEffect
<1>3. events' \in 0..MaxEvents
  BY RemoteBoundsAssumption DEF DeleteLink, Happens, RemoteTypeOK
<1>4. \/ links' = links
      \/ /\ ~(LinkExists(l) /\ groups[links[l]].sending)
         /\ links' = [links EXCEPT ![l] = None]
  BY DEF DeleteLink
<1>5. links' \in [Ids -> 0..MaxMade] /\ \A m \in Ids : links'[m] = links[m]
          \/ (m = l /\ links'[m] = None /\ ~(LinkExists(l) /\ groups[links[l]].sending))
  BY <1>4, RemoteBoundsAssumption DEF RemoteTypeOK, None
<1>6. RemoteTypeOK'
  <2>1. ASSUME NEW i \in Ids, groups[i].sending
        PROVE  groups[i].known /\ \E m \in Ids : links'[m] = i
    <3>1. PICK m \in Ids : links[m] = i
      BY <2>1 DEF RemoteTypeOK
    <3>2. links[m] # None
      BY <3>1, RemoteBoundsAssumption DEF Ids, None
    <3>3. links'[m] = i
      BY <1>5, <2>1, <3>1, <3>2 DEF LinkExists
    <3> QED
      BY <2>1, <3>3 DEF RemoteTypeOK
  <2> QED
    BY <1>1, <1>2, <1>3, <1>5, <2>1 DEF RemoteTypeOK, fixed
<1>7. InOrder'
  BY <1>1, <1>5 DEF InOrder
<1>8. Remotes' = Remotes /\ RemoteLinks' \subseteq RemoteLinks
  BY <1>1, <1>5 DEF Remotes, RemoteLinks, Exists, LinkExists
<1>9. losses' \in Nat /\ losses' >= losses /\ statuses' = statuses /\ adopts' = adopts
  BY <1>1, RemoteBoundsAssumption DEF RemoteTypeOK, fixed
<1>10. RemotesCounted' /\ LinksCounted'
  BY <1>8, <1>9, NoMoreRemotes, NoMoreLinks
<1>11. PortTold' /\ ConfigTold'
  BY <1>1, <1>2, ToldStill DEF fixed
<1> QED
  BY <1>6, <1>7, <1>10, <1>11

\* Edits, deletions and the cluster coming and going: an edit takes Ready away from the status
\* until the next reconcile, the others leave what it tells.
LEMMA UsersAct ==
  ASSUME RemoteInv,
         Edit \/ (\E x \in Objects : RequestDelete(x))
         \/ (\E to \in {"ready", "unready", "gone"} : ClusterChanges(to))
  PROVE  RemoteInv'
<1> USE DEF RemoteInv
<1>1. UNCHANGED <<fixed, nifi, touched, losses>>
  BY DEF Edit, RequestDelete, ClusterChanges
<1>2. events' \in 0..MaxEvents
  BY RemoteBoundsAssumption DEF Edit, RequestDelete, ClusterChanges, Happens, RemoteTypeOK
<1>3. Group \in Objects /\ \A x \in Objects : statuses[x] \in Statuses
  BY RecordsTyped DEF RemoteTypeOK
<1>4. /\ statuses' \in [Objects -> Statuses]
      /\ statuses'[Group].id = statuses[Group].id /\ statuses'[Link] = statuses[Link]
      /\ statuses'[Group].drift = statuses[Group].drift /\ statuses'[Group].why = statuses[Group].why
  <2>1. CASE UNCHANGED statuses
    BY <2>1 DEF RemoteTypeOK
  <2>2. CASE statuses' = [statuses EXCEPT ![Group].seen = FALSE]
    <3>1. [statuses[Group] EXCEPT !.seen = FALSE] \in Statuses
          /\ [statuses[Group] EXCEPT !.seen = FALSE].id = statuses[Group].id
          /\ [statuses[Group] EXCEPT !.seen = FALSE].drift = statuses[Group].drift
          /\ [statuses[Group] EXCEPT !.seen = FALSE].why = statuses[Group].why
      BY <1>3 DEF Statuses
    <3> QED
      BY <1>3, <2>2, <3>1 DEF RemoteTypeOK, Objects, Group, Link
  <2> QED
    BY <2>1, <2>2 DEF Edit, RequestDelete, ClusterChanges
<1>5. /\ life' \in [Objects -> {"live", "deleting", "gone"}] /\ queued' \in [Objects -> BOOLEAN]
      /\ purge' \in [Objects -> BOOLEAN] /\ nifiCluster' \in {"ready", "unready", "gone"}
  <2>1. CASE Edit
    BY <1>3, <2>1, WakeEffect DEF Edit, RemoteTypeOK
  <2>2. CASE \E x \in Objects : RequestDelete(x)
    <3>1. PICK x \in Objects : RequestDelete(x)
      BY <2>2
    <3>2. queued' \in [Objects -> BOOLEAN] /\ nifiCluster' = nifiCluster
      BY <3>1, WakeEffect DEF RequestDelete
    <3>3. life' = [life EXCEPT ![x] = "deleting"]
      BY <3>1 DEF RequestDelete
    <3>4. PICK policy \in BOOLEAN : purge' = [purge EXCEPT ![x] = policy]
      BY <3>1 DEF RequestDelete
    <3> QED
      BY <3>2, <3>3, <3>4 DEF RemoteTypeOK
  <2>3. CASE \E to \in {"ready", "unready", "gone"} : ClusterChanges(to)
    <3>1. queued' = [x \in Objects |-> life[x] # "gone"] /\ UNCHANGED <<life, purge>>
          /\ nifiCluster' \in {"ready", "unready", "gone"}
      BY <2>3 DEF ClusterChanges
    <3>2. queued' \in [Objects -> BOOLEAN]
      BY <3>1
    <3> QED
      BY <3>1, <3>2 DEF RemoteTypeOK
  <2> QED
    BY <2>1, <2>2, <2>3
<1>6. spec' \in Specs
  BY DEF Edit, RequestDelete, ClusterChanges, RemoteTypeOK, Specs
<1>7. RemoteTypeOK'
  BY <1>1, <1>2, <1>4, <1>5, <1>6 DEF RemoteTypeOK, fixed, nifi
<1>8. InOrder'
  BY <1>1, <1>4 DEF InOrder, nifi
<1>9. Remotes' = Remotes /\ RemoteLinks' = RemoteLinks
  BY <1>1 DEF Remotes, RemoteLinks, Exists, LinkExists, nifi
<1>10. losses' \in Nat /\ losses' >= losses /\ adopts' = adopts
  BY <1>1, RemoteBoundsAssumption DEF RemoteTypeOK, fixed
<1>11. RemotesCounted' /\ LinksCounted'
  BY <1>4, <1>9, <1>10, NoMoreRemotes, NoMoreLinks
<1>12. PortTold' /\ ConfigTold'
  <2>1. CASE Edit
    <3>1. ~statuses'[Group].seen
      BY <1>3, <2>1 DEF Edit, Statuses, RemoteTypeOK
    <3> QED
      BY <3>1 DEF PortTold, ConfigTold, Tells
  <2>2. CASE \E x \in Objects : RequestDelete(x)
    <3>1. statuses' = statuses /\ spec' = spec
      BY <2>2 DEF RequestDelete
    <3>2. life'[Group] = "live" => life[Group] = "live" /\ (queued[Group] => queued'[Group])
      BY <1>3, <2>2 DEF RequestDelete, Wake, RemoteTypeOK
    <3> QED
      BY <1>1, <3>1, <3>2, ToldStill DEF fixed, nifi
  <2>3. CASE \E to \in {"ready", "unready", "gone"} : ClusterChanges(to)
    <3>1. statuses' = statuses /\ spec' = spec
      BY <2>3 DEF ClusterChanges
    <3>2. life'[Group] = "live" => life[Group] = "live" /\ (queued[Group] => queued'[Group])
      BY <1>3, <2>3 DEF ClusterChanges
    <3> QED
      BY <1>1, <3>1, <3>2, ToldStill DEF fixed, nifi
  <2> QED
    BY <2>1, <2>2, <2>3
<1> QED
  BY <1>7, <1>8, <1>11, <1>12


\* A change of one group in NiFi that does not make it transmit.
LEMMA GroupChanges ==
  ASSUME RemoteInv, NEW id \in Ids, Exists(id),
         NEW h \in GroupRecord, ~h.sending, groups' = [groups EXCEPT ![id] = h],
         UNCHANGED <<spec, fixed, purge, life, statuses, queued, nifiCluster, links, made, losses>>,
         events' \in 0..MaxEvents, touched' \in {"never", "unseen", "seen"}
  PROVE  /\ RemoteTypeOK' /\ InOrder' /\ RemotesCounted' /\ LinksCounted'
         /\ \A i \in Ids : groups'[i] = IF i = id THEN h ELSE groups[i]
<1> USE DEF RemoteInv
<1>1. groups' \in [Ids -> GroupRecord] /\ \A i \in Ids : groups'[i] = IF i = id THEN h ELSE groups[i]
  BY DEF RemoteTypeOK
<1>2. RemoteTypeOK'
  <2>1. \A i \in Ids : groups'[i].sending => groups'[i].known /\ \E l \in Ids : links'[l] = i
    BY <1>1 DEF RemoteTypeOK
  <2> QED
    BY <1>1, <2>1 DEF RemoteTypeOK, fixed
<1>3. InOrder'
  <2>1. ~(id > made.group)
    BY DEF InOrder, Exists, NoGroup
  <2>2. \A i \in Ids : i > made.group => groups'[i] = NoGroup
    BY <1>1, <2>1 DEF InOrder
  <2> QED
    BY <2>2 DEF InOrder
<1>4. Remotes' \subseteq Remotes /\ RemoteLinks' = RemoteLinks
  <2>1. ASSUME NEW i \in Ids, groups'[i].exists  PROVE groups[i].exists
    BY <1>1, <2>1 DEF Exists
  <2> QED
    BY <2>1 DEF Remotes, RemoteLinks, Exists, LinkExists
<1>5. losses' \in Nat /\ losses' >= losses /\ statuses' = statuses /\ adopts' = adopts
  BY RemoteBoundsAssumption DEF RemoteTypeOK, fixed
<1>6. RemotesCounted' /\ LinksCounted'
  BY <1>4, <1>5, NoMoreRemotes, NoMoreLinks
<1> QED
  BY <1>1, <1>2, <1>3, <1>6

\* Others change a group or remove it: the configuration is then out of date, the port is not.
LEMMA OthersChange ==
  ASSUME RemoteInv, NEW id \in Ids, Meddle(id)
  PROVE  RemoteInv'
<1> USE DEF RemoteInv
<1> DEFINE g == groups[id]
<1>1. /\ UNCHANGED <<spec, fixed, purge, life, statuses, queued, nifiCluster, links, made, losses>>
      /\ Exists(id) /\ ~g.sending /\ touched' = "unseen" /\ g \in GroupRecord
  BY DEF Meddle, RemoteTypeOK
<1>2. events' \in 0..MaxEvents /\ touched' \in {"never", "unseen", "seen"}
  BY RemoteBoundsAssumption DEF Meddle, Happens, RemoteTypeOK
<1>3. ConfigTold'
  BY <1>1 DEF ConfigTold
<1>4. CASE groups' = [groups EXCEPT ![id].config = 1 - @]
  <2> DEFINE h == [g EXCEPT !.config = 1 - g.config]
  <2>1. groups' = [groups EXCEPT ![id] = h]
    BY <1>1, <1>4 DEF RemoteTypeOK
  <2>2. g.config \in 0..1 /\ 1 - g.config \in 0..1
    BY <1>1 DEF GroupRecord
  <2>3. /\ h \in GroupRecord /\ h.exists = g.exists /\ h.sending = g.sending
        /\ h.known = g.known /\ h.tuned = g.tuned
    BY <1>1, <2>2 DEF GroupRecord
  <2> HIDE DEF h
  <2>4. /\ RemoteTypeOK' /\ InOrder' /\ RemotesCounted' /\ LinksCounted'
        /\ \A i \in Ids : groups'[i] = IF i = id THEN h ELSE groups[i]
    BY <1>1, <1>2, <2>1, <2>3, GroupChanges
  <2>5. PortTold'
    <3>1. \A i \in Ids : /\ groups'[i].exists = groups[i].exists /\ groups'[i].sending = groups[i].sending
                         /\ groups'[i].known = groups[i].known /\ groups'[i].tuned = groups[i].tuned
      BY <2>3, <2>4
    <3> QED
      BY <1>1, <3>1 DEF PortTold, PortTrue, Declared, Exists
  <2> QED
    BY <1>3, <2>4, <2>5
<1>5. CASE groups' = [groups EXCEPT ![id] = NoGroup]
  <2>1. NoGroup \in GroupRecord /\ ~NoGroup.exists /\ ~NoGroup.sending
    BY DEF NoGroup, GroupRecord
  <2>2. /\ RemoteTypeOK' /\ InOrder' /\ RemotesCounted' /\ LinksCounted'
        /\ \A i \in Ids : groups'[i] = IF i = id THEN NoGroup ELSE groups[i]
    BY <1>1, <1>2, <1>5, <2>1, GroupChanges
  <2>3. PortTold'
    BY <1>1, <2>1, <2>2 DEF PortTold, PortTrue, Declared, Exists
  <2> QED
    BY <1>3, <2>2, <2>3
<1> QED
  BY <1>4, <1>5 DEF Meddle

\* NiFi discovers the port. No status said that it was configured: that is said only of a port
\* that is known.
LEMMA PortDiscovered ==
  ASSUME RemoteInv, NEW id \in Ids, Discover(id)
  PROVE  RemoteInv'
<1> USE DEF RemoteInv
<1> DEFINE g == groups[id]
           h == [g EXCEPT !.known = TRUE]
<1>1. /\ UNCHANGED <<spec, fixed, purge, life, statuses, queued, nifiCluster, links, made, touched, events, losses>>
      /\ Exists(id) /\ ~g.known /\ g \in GroupRecord /\ ~g.sending
  BY DEF Discover, RemoteTypeOK
<1>2. groups' = [groups EXCEPT ![id] = h]
  BY <1>1 DEF Discover, RemoteTypeOK
<1>3. h \in GroupRecord /\ h.exists = g.exists /\ ~h.sending /\ h.config = g.config
  BY <1>1 DEF GroupRecord
<1> HIDE DEF h
<1>4. events' \in 0..MaxEvents /\ touched' \in {"never", "unseen", "seen"}
  BY <1>1 DEF RemoteTypeOK
<1>5. /\ RemoteTypeOK' /\ InOrder' /\ RemotesCounted' /\ LinksCounted'
      /\ \A i \in Ids : groups'[i] = IF i = id THEN h ELSE groups[i]
  BY <1>1, <1>2, <1>3, <1>4, GroupChanges
<1>6. \A i \in Ids : groups'[i].exists = groups[i].exists /\ groups'[i].config = groups[i].config
  BY <1>3, <1>5
<1>7. PortTold'
  <2>1. CASE statuses[Group].id = id
    <3>1. life[Group] = "live" /\ Tells(statuses[Group], queued[Group]) => ~Declared
      BY <1>1, <2>1 DEF PortTold, PortTrue
    <3> QED
      BY <1>1, <3>1 DEF PortTold, PortTrue, Declared
  <2>2. CASE statuses[Group].id # id
    BY <1>1, <1>5, <2>2 DEF PortTold, PortTrue, Declared, Exists
  <2> QED
    BY <2>1, <2>2
<1>8. ConfigTold'
  BY <1>1, <1>6 DEF ConfigTold, NeedsUpdate, Exists, fixed
<1> QED
  BY <1>5, <1>7, <1>8

-----------------------------------------------------------------------------
\* At first nothing is told, and there is at most the one group that may be adopted.
LEMMA FirstRemote ==
  ASSUME RemoteInit
  PROVE  RemoteInv
<1> USE DEF RemoteInit
<1>1. MaxMade \in Nat /\ MaxMade >= 1 /\ MaxEvents \in Nat /\ 1 \in Ids
  BY RemoteBoundsAssumption DEF Ids
<1> DEFINE old == [NoGroup EXCEPT !.exists = TRUE, !.config = 1]
<1>2. NoGroup \in GroupRecord /\ ~NoGroup.sending /\ ~NoGroup.exists
  BY DEF NoGroup, GroupRecord
<1>3. old \in GroupRecord /\ ~old.sending
  <2>1. 1 \in 0..1
    OBVIOUS
  <2> QED
    BY <1>2, <2>1, GroupMade
<1> HIDE DEF old
<1>4. \/ groups = [id \in Ids |-> NoGroup] /\ made = [group |-> 0, link |-> 0] /\ touched = "never"
      \/ adopts /\ groups = [[id \in Ids |-> NoGroup] EXCEPT ![1] = old]
         /\ made = [group |-> 1, link |-> 0] /\ touched = "seen"
  BY DEF old
<1>5. /\ groups \in [Ids -> GroupRecord] /\ made \in Counts
      /\ \A id \in Ids : ~groups[id].sending /\ (id > made.group => groups[id] = NoGroup)
                         /\ (id # 1 => groups[id] = NoGroup)
      /\ made.group \in Nat /\ made.link = 0
      /\ (made.group = 0 \/ adopts)
      /\ touched \in {"never", "unseen", "seen"}
  <2>1. CASE groups = [id \in Ids |-> NoGroup] /\ made = [group |-> 0, link |-> 0] /\ touched = "never"
    BY <1>1, <1>2, <2>1 DEF Counts
  <2>2. CASE adopts /\ groups = [[id \in Ids |-> NoGroup] EXCEPT ![1] = old]
             /\ made = [group |-> 1, link |-> 0] /\ touched = "seen"
    <3>1. \A id \in Ids : groups[id] = IF id = 1 THEN old ELSE NoGroup
      BY <1>1, <2>2
    <3>2. groups \in [Ids -> GroupRecord]
      BY <1>2, <1>3, <2>2
    <3>3. made.group = 1 /\ made.link = 0 /\ made \in Counts
      BY <1>1, <2>2 DEF Counts
    <3> QED
      BY <1>2, <1>3, <2>2, <3>1, <3>2, <3>3 DEF Ids
  <2> QED
    BY <1>4, <2>1, <2>2
<1>6. \A x \in Objects : /\ statuses[x] \in Statuses /\ statuses[x].id = None /\ statuses[x].why = "none"
  BY <1>1 DEF Statuses, PortStates, None
<1>7. RemoteTypeOK
  <2>1. spec \in Specs
    BY DEF Specs
  <2>2. statuses \in [Objects -> Statuses]
    BY <1>6
  <2>3. Group \in Objects
    BY DEF Objects
  <2>4. links \in [Ids -> 0..MaxMade]
    BY <1>1 DEF None
  <2>5. 0 \in 0..MaxEvents
    BY <1>1
  <2> QED
    BY <1>5, <1>6, <2>1, <2>2, <2>3, <2>4, <2>5 DEF RemoteTypeOK
<1>8. Group \in Objects /\ Link \in Objects
  BY DEF Objects
<1>9. InOrder
  BY <1>5, <1>6, <1>8 DEF InOrder, None
<1>10. LinksCounted
  <2>1. RemoteLinks \ {statuses[Link].id} = {}
    BY DEF RemoteLinks, LinkExists
  <2>2. Cardinality(RemoteLinks \ {statuses[Link].id}) = 0
    BY <2>1, FS_EmptySet
  <2> QED
    BY <2>2 DEF LinksCounted
<1>11. RemotesCounted
  <2>1. CASE adopts
    <3>1. \A i, j \in Remotes : i = j
      BY <1>2, <1>5 DEF Remotes, Exists
    <3> QED
      BY <1>6, <1>8, <2>1, <3>1 DEF RemotesCounted
  <2>2. CASE ~adopts
    <3>1. Remotes \ {statuses[Group].id} = {}
      BY <1>2, <1>4, <2>2 DEF Remotes, Exists
    <3>2. Cardinality(Remotes \ {statuses[Group].id}) = 0
      BY <3>1, FS_EmptySet
    <3> QED
      BY <2>2, <3>2 DEF RemotesCounted
  <2> QED
    BY <2>1, <2>2
<1>12. PortTold /\ ConfigTold
  BY <1>6, <1>8 DEF PortTold, ConfigTold, Tells
<1> QED
  BY <1>7, <1>9, <1>10, <1>11, <1>12 DEF RemoteInv

\* Every step keeps the invariant.
LEMMA RemoteStep ==
  ASSUME RemoteInv, [RemoteNext]_remoteVars
  PROVE  RemoteInv'
<1>1. CASE UNCHANGED remoteVars
  <2> USE <1>1 DEF remoteVars, fixed, nifi, RemoteInv
  <2>1. RemoteTypeOK' /\ InOrder'
    BY DEF RemoteTypeOK, InOrder
  <2>2. Remotes' = Remotes /\ RemoteLinks' = RemoteLinks
    BY DEF Remotes, RemoteLinks, Exists, LinkExists
  <2>3. RemotesCounted' /\ LinksCounted'
    BY <2>2 DEF RemotesCounted, LinksCounted
  <2>4. PortTold' /\ ConfigTold'
    BY ToldStill
  <2> QED
    BY <2>1, <2>3, <2>4
<1>2. CASE Edit \/ (\E x \in Objects : RequestDelete(x))
           \/ (\E to \in {"ready", "unready", "gone"} : ClusterChanges(to))
  BY <1>2, UsersAct
<1> QED
  BY <1>1, <1>2, GroupReconciled, LinkReconciled, GroupDeleted, LinkDeleted, OthersChange,
     PortDiscovered DEF RemoteNext

\* The invariant of a remote process group and its connection: what the status of the group
\* tells is true and every group and connection beyond theirs is counted as a loss.
THEOREM RemoteInvariant == RemoteSpec => []RemoteInv
<1>1. RemoteInit => RemoteInv
  BY FirstRemote
<1>2. RemoteInv /\ [RemoteNext]_remoteVars => RemoteInv'
  BY RemoteStep
<1> QED
  BY <1>1, <1>2, PTL DEF RemoteSpec

\* Ready is true of NiFi: a remote process group that says Ready for its present spec has the
\* port configured and transmitting as that spec says, and a configuration that differs is
\* reported as drift or ignored by driftPolicy, whichever calls and writes failed before.
THEOREM RemoteStatusTrue == RemoteSpec => []StatusIsTrue
<1>1. RemoteInv => StatusIsTrue
  <2> SUFFICES ASSUME RemoteInv  PROVE StatusIsTrue
    OBVIOUS
  <2>1. Settled => Tells(statuses[Group], queued[Group])
    BY DEF Settled, Tells
  <2>2. ReadyIsTrue
    BY <2>1 DEF RemoteInv, PortTold, ConfigTold, Settled, ReadyIsTrue, PortTrue
  <2> QED
    BY <2>2 DEF RemoteInv, StatusIsTrue
<1> QED
  BY <1>1, RemoteInvariant, PTL

\* Group and connection, which wait for each other and ask again, are created once: there is
\* one more only for each write of a status or answer to a creation that was lost.
THEOREM RemoteNoDuplicates == RemoteSpec => []NoDuplicates
<1>1. RemoteInv => NoDuplicates
  <2> SUFFICES ASSUME RemoteInv  PROVE NoDuplicates
    OBVIOUS
  <2> USE DEF RemoteInv
  <2>1. losses \in Nat
    BY RemoteBoundsAssumption DEF RemoteTypeOK
  <2>2. Remotes \in SUBSET Ids /\ RemoteLinks \in SUBSET Ids
    BY DEF Remotes, RemoteLinks
  <2>3. \A S \in SUBSET Ids : \A x : Cardinality(S \ {x}) <= losses => Cardinality(S) <= 1 + losses
    <3> TAKE S \in SUBSET Ids
    <3> TAKE x
    <3>1. S \ {x} \in SUBSET Ids /\ S \subseteq (S \ {x}) \cup {x}
      OBVIOUS
    <3>2. Cardinality(S) <= Cardinality(S \ {x}) + 1 /\ Cardinality(S) \in Nat
          /\ Cardinality(S \ {x}) \in Nat
      BY <3>1, CountedRemotes
    <3> QED
      BY <2>1, <3>2
  <2>4. Cardinality(Remotes) <= 1 + losses
    <3>1. CASE \A i, j \in Remotes : i = j
      <4>1. PICK x : Remotes \ {x} = {}
        BY <3>1
      <4>2. Cardinality(Remotes \ {x}) = 0
        BY <4>1, FS_EmptySet
      <4> QED
        BY <2>1, <2>2, <2>3, <4>2
    <3>2. CASE Cardinality(Remotes \ {statuses[Group].id}) <= losses
      BY <2>2, <2>3, <3>2
    <3> QED
      BY <3>1, <3>2 DEF RemotesCounted
  <2>5. Cardinality(RemoteLinks) <= 1 + losses
    <3>1. Cardinality(RemoteLinks \ {statuses[Link].id}) <= losses
      BY DEF LinksCounted
    <3> QED
      BY <2>2, <2>3, <3>1
  <2> QED
    BY <2>4, <2>5 DEF NoDuplicates, Remotes, RemoteLinks
<1> QED
  BY <1>1, RemoteInvariant, PTL

=============================================================================
