------------------------------ MODULE ScaleDown ------------------------------
(***************************************************************************)
(* Graceful scale-down of the node pools of a managed NiFi cluster: the    *)
(* primary pool (reconcileManagedCluster) and the NiFiNodeGroup pools that *)
(* share it (NiFiNodeGroupReconciler). Each pool is a StatefulSet; before  *)
(* it shrinks, computeOffloadStep drives its highest ordinal through       *)
(* disconnect, offload and delete with the NiFi cluster API.               *)
(*                                                                         *)
(* A reconcile takes up to three steps, at the instants where others can   *)
(* get in between: it reads the resource, the cached StatefulSet and the   *)
(* node list; it calls NiFi on what it read and saves the status; it       *)
(* applies the StatefulSet. Pools are reconciled concurrently. Pods start, *)
(* stop and crash, NiFi moves nodes from state to state, users change the  *)
(* spec and reconnect nodes, all by themselves.                            *)
(*                                                                         *)
(* A node is the pool and ordinal of its address. Status phases are left   *)
(* out: they are shown, never read.                                        *)
(***************************************************************************)
EXTENDS Integers

CONSTANTS
  Pools,          \* the StatefulSets of the cluster
  Primary,        \* the one NiFiCluster owns; the others belong to NiFiNodeGroups
  MaxReplicas,    \* bound, per pool: replicas asked for
  JoinsMidway,    \* whether a pod may start and join within one reconcile
  MaxEdits,       \* bound: changes of the spec
  MaxFaults       \* bound: failing calls, a cache that lags, crashing pods, reconnections

ASSUME PoolsAssumption ==
  /\ Primary \in Pools
  /\ MaxReplicas \in [Pools -> Nat] /\ MaxReplicas[Primary] >= 1
ASSUME DelaysAssumption == JoinsMidway \in BOOLEAN
ASSUME BoundsAssumption == MaxEdits \in Nat /\ MaxFaults \in Nat

Nodes == UNION {{p} \X (0..(MaxReplicas[p] - 1)) : p \in Pools}

\* Connection states of a node; Absent is a node the cluster does not list.
Absent == "ABSENT"
States == {Absent, "CONNECTING", "CONNECTED", "DISCONNECTING", "DISCONNECTED",
           "OFFLOADING", "OFFLOADED"}

VARIABLES
  desired,   \* spec.replicas
  offload,   \* spec.scaleDown.offloadData
  force,     \* spec.scaleDown.onTimeout is Force
  sts,       \* spec.replicas of the StatefulSet
  seen,      \* the same in the informer's cache
  status,    \* status.scaleDown: the node being drained, whether its time is up
  ready,     \* status.ready of the NiFiCluster
  rec,       \* the reconcile of a pool that is under way
  node,      \* connection state of a node
  pod,       \* its pod runs
  data,      \* its repositories hold flow files
  given,     \* history: the nodes that were force-removed since their pod started
  due,       \* pools whose reconcile is queued, or will be after a delay
  told,      \* groups whose status says, of this spec, that the StatefulSet write fails
  edits, faults

resource == <<desired, offload, force, edits>>
cluster == <<node, pod, data, given>>
calls == <<due, told>>
vars == <<resource, sts, seen, status, ready, rec, cluster, calls, faults>>

-----------------------------------------------------------------------------
(* Status and reconciles *)

NoStatus == [node |-> -1, late |-> FALSE]

Idle == [pc |-> "idle", cur |-> 0, want |-> 0, node |-> Absent,
         offload |-> FALSE, force |-> FALSE, replicas |-> 0, active |-> FALSE]

\* A pool has at least one node if it is the primary one, any number otherwise.
Sizes(p) == IF p = Primary THEN 1..MaxReplicas[p] ELSE 0..MaxReplicas[p]

Timers == [node : Nat \cup {-1}, late : BOOLEAN]

Reconciles == [pc : {"idle", "listed", "apply"}, cur : Nat, want : Nat, node : States,
               offload : BOOLEAN, force : BOOLEAN, replicas : Nat, active : BOOLEAN]

\* Sizes stay in range: a pool is never asked to shrink below its least size, and a drain
\* is of one of its nodes.
TypeOK ==
  /\ desired \in [Pools -> Nat] /\ sts \in [Pools -> Nat] /\ seen \in [Pools -> Nat]
  /\ offload \in [Pools -> BOOLEAN] /\ force \in [Pools -> BOOLEAN] /\ ready \in BOOLEAN
  /\ status \in [Pools -> Timers] /\ rec \in [Pools -> Reconciles]
  /\ \A p \in Pools :
       /\ desired[p] \in Sizes(p) /\ sts[p] \in Sizes(p) /\ seen[p] \in Sizes(p)
       /\ status[p].node < MaxReplicas[p]
       /\ rec[p].pc = "apply" => rec[p].replicas \in Sizes(p)
  /\ node \in [Nodes -> States] /\ pod \in [Nodes -> BOOLEAN] /\ data \in [Nodes -> BOOLEAN]
  /\ given \subseteq Nodes
  /\ due \subseteq Pools /\ told \subseteq Pools \ {Primary}
  /\ edits \in 0..MaxEdits /\ faults \in 0..MaxFaults

\* Every pool is at its largest, and every node has work.
Init ==
  /\ desired = MaxReplicas
  /\ offload = [p \in Pools |-> TRUE] /\ force = [p \in Pools |-> FALSE]
  /\ sts = desired /\ seen = desired
  /\ status = [p \in Pools |-> NoStatus]
  /\ ready = TRUE
  /\ rec = [p \in Pools |-> Idle]
  /\ node = [n \in Nodes |-> "CONNECTED"]
  /\ pod = [n \in Nodes |-> TRUE]
  /\ data = [n \in Nodes |-> TRUE]
  /\ given = {}
  /\ due = Pools /\ told = {}
  /\ edits = 0 /\ faults = 0

Fault == faults < MaxFaults /\ faults' = faults + 1

\* A reconcile of p is asked for: by a requeue, an error or a watch.
Call(p) == due' = due \cup {p}

\* A write of the status calls the pool whose status it changes.
CallOnWrite(p) == IF status' = status THEN UNCHANGED due ELSE Call(p)

\* A reconcile takes its pool off the queue. The primary pool counts as due always: every
\* outcome but a ready cluster asks for another reconcile.
Taken(p) == due \ ({p} \ {Primary})

\* The reconcile ends with an error: the StatefulSet is left, the cluster is not ready
\* unless that cannot be written either.
Stops(p) ==
  /\ rec' = [rec EXCEPT ![p] = Idle]
  /\ ready' \in IF p = Primary THEN {ready, FALSE} ELSE {ready}
  /\ UNCHANGED <<resource, sts, seen>>

\* An error before the StatefulSet: the status reports it, unless the write of it fails
\* too, and the reconcile is asked for again.
Fails(p) ==
  /\ Stops(p)
  /\ Call(p)
  /\ told' = told \ {p} \/ (faults' # faults /\ UNCHANGED told)

\* The step's status is saved and the reconcile goes on to the StatefulSet, with what it
\* still needs, or the write fails after the calls to NiFi took effect.
Save(p, s, size) ==
  \/ /\ status' = [status EXCEPT ![p] = s]
     /\ rec' = [rec EXCEPT ![p].pc = "apply", ![p].replicas = size,
                           ![p].node = Absent, ![p].force = FALSE]
     /\ CallOnWrite(p)
     /\ UNCHANGED <<resource, sts, seen, ready, told, faults>>
  \/ /\ Fault
     /\ Fails(p)
     /\ UNCHANGED status

-----------------------------------------------------------------------------
(* The reconcile of a pool *)

\* A group whose cluster is not ready says that it waits, and is called again.
AwaitCluster(p) ==
  /\ rec[p].pc = "idle" /\ p # Primary /\ ~ready
  /\ Call(p) /\ told' = told \ {p}
  /\ UNCHANGED <<resource, sts, seen, status, ready, rec, cluster, faults>>

\* A reconcile of a group goes on once the cluster is ready.
Starts(p) == rec[p].pc = "idle" /\ (p = Primary \/ ready)

ScalesDown(p) ==
  seen[p] > desired[p] /\ offload[p] /\ (p = Primary => seen[p] > 1)

\* Mutant: the scale-down status is left as it is.
SettleUncleared(p) ==
  /\ Starts(p) /\ ~ScalesDown(p)
  /\ due' = Taken(p)
  /\ rec' = [rec EXCEPT ![p] = [pc |-> "apply", cur |-> seen[p], want |-> desired[p],
                                node |-> Absent, offload |-> offload[p], force |-> FALSE,
                                replicas |-> desired[p], active |-> FALSE]]
  /\ UNCHANGED <<resource, sts, seen, status, ready, cluster, told, faults>>

\* Nothing to drain: the scale-down status is cleared, the StatefulSet gets its size.
Settle(p) ==
  /\ Starts(p) /\ ~ScalesDown(p)
  /\ \/ /\ status' = [status EXCEPT ![p] = NoStatus]
        /\ rec' = [rec EXCEPT ![p] = [pc |-> "apply", cur |-> seen[p], want |-> desired[p],
                                      node |-> Absent, offload |-> offload[p], force |-> FALSE,
                                      replicas |-> desired[p], active |-> FALSE]]
        /\ due' = IF status' = status THEN Taken(p) ELSE due \cup {p}
        /\ UNCHANGED <<resource, sts, seen, ready, told, faults>>
     \/ /\ status[p] # NoStatus
        /\ Fault
        /\ Fails(p)
        /\ UNCHANGED status
  /\ UNCHANGED cluster

\* The highest ordinal of the StatefulSet that was read.
Target(cur) == cur - 1

\* The state of the node at the address of an ordinal (findClusterNodeByAddress).
Listed(p, i) == IF <<p, i>> \in Nodes THEN node[<<p, i>>] ELSE Absent

List(p) ==
  /\ Starts(p) /\ ScalesDown(p)
  /\ rec' = [rec EXCEPT ![p] = [pc |-> "listed", cur |-> seen[p], want |-> desired[p],
                                node |-> Listed(p, Target(seen[p])), offload |-> TRUE,
                                force |-> force[p], replicas |-> seen[p], active |-> TRUE]]
  /\ due' = Taken(p)
  /\ UNCHANGED <<resource, sts, seen, status, ready, cluster, told, faults>>

\* Configuring the client, or listing the nodes, fails.
ListFails(p) ==
  /\ Starts(p) /\ ScalesDown(p)
  /\ Fault
  /\ Fails(p)
  /\ UNCHANGED <<status, cluster>>

Address(p) == <<p, Target(rec[p].cur)>>

\* The drain of this node has taken longer than the timeout. A drain of another node, or
\* none, is timed from now.
Late(p) == status[p].node = Target(rec[p].cur) /\ status[p].late

StatusFor(p) == [node |-> Target(rec[p].cur), late |-> Late(p)]

\* What NiFi accepts: a node is offloaded when disconnected, deleted when disconnected
\* or offloaded.
Disconnectable(n) == node[n] \in {"CONNECTED", "CONNECTING"}
Offloadable(n) == node[n] = "DISCONNECTED"
Deletable(n) == node[n] \in {"DISCONNECTED", "OFFLOADED"}

InState(p, states) == rec[p].pc = "listed" /\ rec[p].node \in states
InTime(p, states) == InState(p, states) /\ ~Late(p)

\* Mutant: the StatefulSet is held.
GoneHeld(p) ==
  /\ InState(p, {Absent})
  /\ Save(p, NoStatus, rec[p].cur)
  /\ UNCHANGED cluster

\* The node has left the NiFi cluster: its pod may go.
Gone(p) ==
  /\ InState(p, {Absent})
  /\ Save(p, NoStatus, rec[p].cur - 1)
  /\ UNCHANGED cluster

\* Too late, and the policy is Fail: held until someone intervenes.
TimesOut(p) ==
  /\ InState(p, States \ {Absent}) /\ Late(p) /\ ~rec[p].force
  /\ UNCHANGED <<status, cluster, faults>>
  /\ Fails(p)

\* Too late, and the policy is Force: deleted as it is.
ForceRemove(p) ==
  /\ InState(p, States \ {Absent}) /\ Late(p) /\ rec[p].force
  /\ node[Address(p)] = Absent \/ Deletable(Address(p))
  /\ node' = [node EXCEPT ![Address(p)] = Absent]
  /\ given' = given \cup {Address(p)}
  /\ Save(p, NoStatus, rec[p].cur - 1)
  /\ UNCHANGED <<pod, data>>

Disconnect(p) ==
  /\ InTime(p, {"CONNECTED", "CONNECTING"})
  /\ Disconnectable(Address(p))
  /\ node' = [node EXCEPT ![Address(p)] = "DISCONNECTING"]
  /\ Save(p, StatusFor(p), rec[p].cur)
  /\ UNCHANGED <<pod, data, given>>

Offload(p) ==
  /\ InTime(p, {"DISCONNECTED"})
  /\ Offloadable(Address(p))
  /\ node' = [node EXCEPT ![Address(p)] = "OFFLOADING"]
  /\ Save(p, StatusFor(p), rec[p].cur)
  /\ UNCHANGED <<pod, data, given>>

\* Mutant: a disconnected node counts as offloaded.
RemoveDisconnected(p) ==
  /\ InTime(p, {"OFFLOADED", "DISCONNECTED"})
  /\ node[Address(p)] = Absent \/ Deletable(Address(p))
  /\ node' = [node EXCEPT ![Address(p)] = Absent]
  /\ Save(p, StatusFor(p), rec[p].cur - 1)
  /\ UNCHANGED <<pod, data, given>>

\* Mutant: the new size is counted from the ordinal.
RemoveOneMore(p) ==
  /\ InTime(p, {"OFFLOADED"})
  /\ node[Address(p)] = Absent \/ Deletable(Address(p))
  /\ node' = [node EXCEPT ![Address(p)] = Absent]
  /\ Save(p, StatusFor(p), Target(rec[p].cur) - 1)
  /\ UNCHANGED <<pod, data, given>>

\* A node that is gone already (404) counts as deleted.
Remove(p) ==
  /\ InTime(p, {"OFFLOADED"})
  /\ node[Address(p)] = Absent \/ Deletable(Address(p))
  /\ node' = [node EXCEPT ![Address(p)] = Absent]
  /\ Save(p, StatusFor(p), rec[p].cur - 1)
  /\ UNCHANGED <<pod, data, given>>

AwaitNode(p) ==
  /\ InTime(p, {"DISCONNECTING", "OFFLOADING"})
  /\ Save(p, StatusFor(p), rec[p].cur)
  /\ UNCHANGED cluster

\* NiFi refuses the call because the node is in another state by now.
Refused(p) ==
  LET n == Address(p) IN
  /\ \/ /\ InState(p, States \ {Absent}) /\ Late(p) /\ rec[p].force
        /\ node[n] # Absent /\ ~Deletable(n)
     \/ InTime(p, {"CONNECTED", "CONNECTING"}) /\ ~Disconnectable(n)
     \/ InTime(p, {"DISCONNECTED"}) /\ ~Offloadable(n)
     \/ InTime(p, {"OFFLOADED"}) /\ node[n] # Absent /\ ~Deletable(n)
  /\ UNCHANGED <<status, cluster, faults>>
  /\ Fails(p)

\* The call fails for any other reason.
CallFails(p) ==
  /\ InState(p, States \ {Absent}) /\ (Late(p) => rec[p].force)
  /\ rec[p].node \notin {"DISCONNECTING", "OFFLOADING"} \/ Late(p)
  /\ Fault
  /\ Fails(p)
  /\ UNCHANGED <<status, cluster>>

\* The cluster is ready when nothing is drained and its pods are up.
Up(p) == ~rec[p].active /\ \A i \in 0..(rec[p].want - 1) : pod[<<p, i>>]

\* CreateOrUpdate reads the cache again, writes only what differs from it, and is refused
\* if the cache is behind. The write reaches the cache soon, or late; what is said of the
\* cluster is that it is up, or, after a fault, that it is not, or what was said before.
\* A pool that is up is called again only if its StatefulSet changed or its status could
\* not be written.
Apply(p) ==
  /\ rec[p].pc = "apply"
  /\ \/ rec[p].replicas = seen[p] /\ UNCHANGED <<sts, seen>>
     \/ /\ rec[p].replicas # seen[p] /\ seen[p] = sts[p]
        /\ sts' = [sts EXCEPT ![p] = rec[p].replicas]
        /\ \E s \in {seen[p], rec[p].replicas} : seen' = [seen EXCEPT ![p] = s]
  /\ ready' \in IF p = Primary THEN {ready, FALSE, Up(p)} ELSE {ready}
  /\ \/ /\ seen'[p] = rec[p].replicas /\ (p = Primary => ready' = Up(p))
        /\ told' = told \ {p}
        /\ UNCHANGED faults
     \/ Fault /\ told' \in {told, told \ {p}}
  /\ IF Up(p) /\ sts' = sts /\ faults' = faults THEN UNCHANGED due ELSE Call(p)
  /\ rec' = [rec EXCEPT ![p] = Idle]
  /\ UNCHANGED <<resource, status, cluster>>

\* The StatefulSet cannot be written. A group asks for nothing then: the write of its status
\* calls it, or the failure of that, and neither happens if its status says so already
\* (setNodeGroupStatus, which also writes a new count of ready pods, left out here).
ApplyFails(p) ==
  /\ rec[p].pc = "apply"
  /\ \/ rec[p].replicas # seen[p] /\ seen[p] # sts[p] /\ UNCHANGED faults
     \/ Fault
  /\ Stops(p)
  /\ \/ p \in told /\ UNCHANGED calls
     \/ p \notin told /\ Call(p) /\ (UNCHANGED told \/ (p # Primary /\ told' = told \cup {p}))
  /\ UNCHANGED <<status, cluster>>

Reconcile(p) ==
  \/ AwaitCluster(p) \/ Settle(p) \/ List(p) \/ ListFails(p)
  \/ Gone(p) \/ TimesOut(p) \/ ForceRemove(p) \/ Disconnect(p) \/ Offload(p)
  \/ Remove(p) \/ AwaitNode(p) \/ Refused(p) \/ CallFails(p)
  \/ Apply(p) \/ ApplyFails(p)

-----------------------------------------------------------------------------
(* Kubernetes, NiFi and users. The StatefulSet of a pool and its own resource are watched; *)
(* that a change of the cluster calls the groups is left out.                              *)

\* A new pod joins the cluster, with the data its volume holds.
PodStarts(n) ==
  /\ n[2] < sts[n[1]] /\ ~pod[n]
  /\ JoinsMidway \/ rec[n[1]].pc = "idle"
  /\ pod' = [pod EXCEPT ![n] = TRUE]
  /\ node' = [node EXCEPT ![n] = "CONNECTING"]
  /\ given' = given \ {n}
  /\ Call(n[1])
  /\ UNCHANGED <<resource, sts, seen, status, ready, rec, data, told, faults>>

\* NiFi keeps listing a node that stopped without leaving.
Stopped(n) ==
  /\ pod' = [pod EXCEPT ![n] = FALSE]
  /\ node' = [node EXCEPT ![n] = IF @ = Absent THEN Absent ELSE "DISCONNECTED"]
  /\ Call(n[1])
  /\ UNCHANGED <<resource, sts, seen, status, ready, rec, data, given, told>>

PodStops(n) ==
  /\ n[2] >= sts[n[1]] /\ pod[n]
  /\ Stopped(n)
  /\ UNCHANGED faults

PodCrashes(n) ==
  /\ n[2] < sts[n[1]] /\ pod[n]
  /\ Fault
  /\ Stopped(n)

Moves(n, from, to) ==
  /\ pod[n] /\ node[n] = from
  /\ node' = [node EXCEPT ![n] = to]
  /\ UNCHANGED <<resource, sts, seen, status, ready, rec, pod, given, calls>>

Connected(n) == Moves(n, "CONNECTING", "CONNECTED") /\ UNCHANGED <<data, faults>>

Disconnected(n) == Moves(n, "DISCONNECTING", "DISCONNECTED") /\ UNCHANGED <<data, faults>>

\* The flow files of the node go to one that is connected.
Offloaded(n) ==
  /\ Moves(n, "OFFLOADING", "OFFLOADED")
  /\ \E m \in Nodes :
       /\ node[m] = "CONNECTED"
       /\ data' = [data EXCEPT ![m] = data[m] \/ data[n], ![n] = FALSE]
  /\ UNCHANGED faults

\* Someone connects a drained node again, as NiFi lets them.
Reconnected(n) ==
  /\ Fault
  /\ \E s \in {"DISCONNECTED", "OFFLOADED"} : Moves(n, s, "CONNECTING")
  /\ UNCHANGED data

\* Sources bring in flow files, on a disconnected node as well.
Ingest(n) ==
  /\ pod[n] /\ node[n] \in {"CONNECTED", "DISCONNECTING", "DISCONNECTED"} /\ ~data[n]
  /\ data' = [data EXCEPT ![n] = TRUE]
  /\ UNCHANGED <<resource, sts, seen, status, ready, rec, node, pod, given, calls,
                 faults>>

\* The timeout of the drain in the status passes.
Expire(p) ==
  /\ status[p] # NoStatus /\ ~status[p].late
  /\ status' = [status EXCEPT ![p].late = TRUE]
  /\ UNCHANGED <<resource, sts, seen, ready, rec, cluster, calls, faults>>

CacheCatchesUp(p) ==
  /\ seen[p] # sts[p]
  /\ seen' = [seen EXCEPT ![p] = sts[p]]
  /\ Call(p)
  /\ UNCHANGED <<resource, sts, status, ready, rec, cluster, told, faults>>

\* The resource has another spec: what its status says is of the old one.
Respec(p) ==
  /\ edits < MaxEdits /\ edits' = edits + 1
  /\ Call(p) /\ told' = told \ {p}
  /\ UNCHANGED <<sts, seen, status, ready, rec, cluster, faults>>

\* The user, or an autoscaler through the scale subresource, sets spec.replicas.
Scale(p) ==
  /\ Respec(p)
  /\ \E r \in Sizes(p) \ {desired[p]} : desired' = [desired EXCEPT ![p] = r]
  /\ UNCHANGED <<offload, force>>

SwitchOffload(p) ==
  /\ Respec(p)
  /\ offload' = [offload EXCEPT ![p] = ~@]
  /\ UNCHANGED <<desired, force>>

SwitchPolicy(p) ==
  /\ Respec(p)
  /\ force' = [force EXCEPT ![p] = ~@]
  /\ UNCHANGED <<desired, offload>>

Surroundings ==
  \/ \E n \in Nodes :
       \/ PodStarts(n) \/ PodStops(n) \/ PodCrashes(n)
       \/ Connected(n) \/ Disconnected(n) \/ Offloaded(n) \/ Reconnected(n) \/ Ingest(n)
  \/ \E p \in Pools : Expire(p) \/ CacheCatchesUp(p)
                        \/ Scale(p) \/ SwitchOffload(p) \/ SwitchPolicy(p)

Next == (\E p \in Pools : Reconcile(p)) \/ Surroundings

Spec == Init /\ [][Next]_vars

\* A reconcile that is due or under way goes on; a group that nobody called may rest for
\* ever. A change of a StatefulSet reaches the cache; pods that are wanted start, and NiFi
\* gets on with what it accepted.
Fairness ==
  /\ \A p \in Pools :
       /\ WF_vars((p \in due \/ rec[p].pc # "idle") /\ Reconcile(p))
       /\ WF_vars(CacheCatchesUp(p))
  /\ \A n \in Nodes :
       /\ SF_vars(PodStarts(n)) /\ WF_vars(PodStops(n))
       /\ WF_vars(Connected(n) \/ Disconnected(n) \/ Offloaded(n))

FairSpec == Spec /\ Fairness

-----------------------------------------------------------------------------
(* Properties *)

\* The StatefulSet that was read is the one there is: the informer was not behind.
Current(p) == rec[p].cur = sts[p]

\* As long as offload is on, no pod that runs with flow files in its repositories is taken
\* away, unless its node was force-removed: what computeOffloadStep is for.
NoStranded ==
  [][\A p \in Pools : rec[p].offload /\ Current(p) =>
       \A i \in sts'[p]..(sts[p] - 1) :
         pod[<<p, i>>] /\ data[<<p, i>>] => <<p, i>> \in given]_vars

\* A pod that comes back does not inherit the timer of the drain that removed it: the
\* status, which a removal keeps, is clear when the StatefulSet grows (offloadStartedAt).
FreshTimer ==
  [][\A p \in Pools : Current(p) /\ sts'[p] > sts[p] => status[p] = NoStatus]_vars

Done(p) == sts[p] = desired[p] \/ status[p].late

\* A scale-down ends, or a status says why not: its timeout has passed, or that of the primary
\* pool a group waits for, or the StatefulSet of the group could not be written, twice in a
\* row, and nothing has called the group since.
ScaleDownEnds == \A p \in Pools : <>[](Done(p) \/ status[Primary].late \/ p \in told \ due)

\* A StatefulSet that could not be written is tried again, that of a group as well.
WritesAreRetried == \A p \in Pools : <>[](Done(p) \/ status[Primary].late)

\* Under Force a timeout is acted on: the node is removed and its drain does not stay late.
ForceEnds == \A p \in Pools : <>[](force[p] => ~status[p].late)

=============================================================================
