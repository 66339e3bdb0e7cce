----------------------------- MODULE RemoteGroup -----------------------------
(***************************************************************************)
(* One NiFiRemoteProcessGroup (Group) with one remote port, and the        *)
(* NiFiConnection (Link) that leads to the port: their reconcilers, the    *)
(* remote process groups and connections in NiFi.                          *)
(*                                                                         *)
(* The two resources wait for each other. The port is discovered by NiFi   *)
(* some time after the group exists, can transmit only when a connection   *)
(* leads to it, and the group is not Ready before; the connection takes    *)
(* the ids of group and port from the group's status. Nothing tells the    *)
(* group of the connection: it asks again while it waits for ports.        *)
(*                                                                         *)
(* A reconcile is one step, in which each of its calls to NiFi may fail    *)
(* after the ones before it took effect. Every call is made with the       *)
(* revision just read, so revisions are left out. The configuration of the *)
(* group and that of the port are one value each; settings of the          *)
(* connection are in ManagedComponent, as are finalizers being added, the  *)
(* parent process group and Secrets waited for.                            *)
(***************************************************************************)
EXTENDS Integers, FiniteSets

CONSTANTS
  Modes,      \* the driftPolicy modes the group may have
  MaxMade,    \* bound: groups, and connections, there ever are in NiFi
  MaxEvents   \* bound: edits, deletions, changes of the cluster and of NiFi by others,
              \* failing calls and lost writes, together

ASSUME ModesAssumption == Modes \subseteq {"Warn", "Fail", "Ignore", "Reconcile"}
ASSUME RemoteBoundsAssumption == MaxMade \in Nat \ {0} /\ MaxEvents \in Nat

Group == "group"
Link == "link"
Objects == {Group, Link}
Ids == 1..MaxMade
None == 0

VARIABLES
  spec,     \* of Group: its configuration, that of the port, and what the port is to do
  mode,     \* of Group: driftPolicy.mode
  adopts,   \* of Group: adoptionPolicy lets it take over a group to the same target
  purge,    \* deletionPolicy is Delete: chosen when the resource is deleted
  life, statuses, queued,   \* of both resources
  nifiCluster,  \* the NiFiCluster: "ready", "unready" or "gone"
  groups,   \* NiFi: the remote process groups by id
  links,    \* NiFi: the group every connection leads to, None if there is no connection
  made,     \* NiFi: how many groups and connections there ever were
  touched,  \* history: others "never" changed groups, or since Group was last
            \* reconciled ("unseen") or before ("seen")
  events, losses   \* how much of the bound is used up; losses are what may duplicate

nifi == <<groups, links, made>>
fixed == <<mode, adopts>>
remoteVars ==
  <<spec, fixed, purge, life, statuses, queued, nifiCluster, nifi, touched, events, losses>>

NoGroup == [exists |-> FALSE, config |-> 0, tuned |-> 0, known |-> FALSE, sending |-> FALSE]
GroupRecord ==
  [exists : BOOLEAN, config : 0..1, tuned : 0..1, known : BOOLEAN, sending : BOOLEAN]

\* What the status says of the port.
PortStates == {"unknown", "idle", "connected", "sending"}

Specs == [config : 0..1, tuned : 0..1, port : {"undeclared", "idle", "send"}]
Statuses ==
  [id : 0..MaxMade, seen : BOOLEAN, drift : BOOLEAN, port : PortStates,
   why : {"none", "Ready", "Waiting", "Failed", "PortsPending", "Drift"}]
Counts == [group : 0..MaxMade, link : 0..MaxMade]

RemoteTypeOK ==
  /\ spec \in Specs
  /\ mode \in Modes /\ adopts \in BOOLEAN /\ purge \in [Objects -> BOOLEAN]
  /\ life \in [Objects -> {"live", "deleting", "gone"}] /\ queued \in [Objects -> BOOLEAN]
  /\ statuses \in [Objects -> Statuses]
  /\ nifiCluster \in {"ready", "unready", "gone"}
  /\ groups \in [Ids -> GroupRecord] /\ links \in [Ids -> 0..MaxMade]
  /\ made \in Counts
  /\ touched \in {"never", "unseen", "seen"} /\ events \in 0..MaxEvents /\ losses \in 0..MaxEvents
  \* What NiFi sees to: a port transmits only if it is known and connected.
  /\ \A id \in Ids : groups[id].sending =>
       groups[id].known /\ \E l \in Ids : links[l] = id
  \* A status that is Ready for the present spec with drift is one of mode Warn.
  /\ statuses[Group].drift /\ statuses[Group].why = "Ready" => mode = "Warn"

RemoteInit ==
  /\ spec \in [config : {0}, tuned : {1}, port : {"undeclared", "idle", "send"}]
  /\ mode \in Modes /\ adopts \in BOOLEAN
  /\ purge = [x \in Objects |-> FALSE] /\ life = [x \in Objects |-> "live"]
  /\ statuses = [x \in Objects |->
       [id |-> None, seen |-> FALSE, drift |-> FALSE, port |-> "unknown", why |-> "none"]]
  /\ queued = [x \in Objects |-> TRUE]
  /\ nifiCluster = "ready"
  /\ links = [l \in Ids |-> None]
  /\ \/ /\ groups = [id \in Ids |-> NoGroup] /\ made = [group |-> 0, link |-> 0]
        /\ touched = "never"
     \* A group somebody made before, with another configuration.
     \/ /\ adopts /\ groups = [[id \in Ids |-> NoGroup] EXCEPT
                                 ![1] = [NoGroup EXCEPT !.exists = TRUE, !.config = 1]]
        /\ made = [group |-> 1, link |-> 0] /\ touched = "seen"
  /\ events = 0 /\ losses = 0

-----------------------------------------------------------------------------
(* Watches and writes *)

Wakes(x) == IF x = Group THEN Objects ELSE {Link}
Wake(x) == queued' = [y \in Objects |-> life[y] # "gone" /\ (queued[y] \/ y \in Wakes(x))]

Happens == events + losses < MaxEvents /\ events' = events + 1
Lost == events + losses < MaxEvents /\ losses' = losses + 1

\* A status that says the same is not written again, also when drift is found again.
AlreadyReported(x, s) == s = statuses[x]

\* Written, which is an event, or the write fails; a reconcile that writes nothing is
\* called again if it asked for it.
SaveStatus(x, s, again) ==
  \/ /\ AlreadyReported(x, s)
     /\ queued' = [queued EXCEPT ![x] = again] /\ UNCHANGED <<statuses, losses>>
  \/ /\ ~AlreadyReported(x, s)
     /\ statuses' = [statuses EXCEPT ![x] = s] /\ Wake(x) /\ UNCHANGED losses
  \/ ~AlreadyReported(x, s) /\ Lost /\ UNCHANGED <<statuses, queued>>

MarkReady(x, id, port) ==
  [id |-> id, seen |-> TRUE, drift |-> FALSE, port |-> port, why |-> "Ready"]
MarkNotReady(x) == [statuses[x] EXCEPT !.seen = TRUE, !.why = "Failed"]
MarkWaiting(x) == [statuses[x] EXCEPT !.seen = TRUE, !.why = "Waiting"]

Turn(x) == life[x] = "live" /\ queued[x]

-----------------------------------------------------------------------------
(* The remote process group *)

Exists(id) == id \in Ids /\ groups[id].exists
Linked(id) == \E l \in Ids : links[l] = id

\* What NiFi says of the port.
Discovered(id, g) ==
  IF ~g.known THEN "unknown"
  ELSE IF g.sending THEN "sending"
  ELSE IF Linked(id) THEN "connected" ELSE "idle"

\* Mutant: the id is published once the group is Ready.
MarkPortsPendingNoId(id, g) ==
  [statuses[Group] EXCEPT !.seen = TRUE, !.why = "PortsPending", !.port = Discovered(id, g)]
\* Id and ports are published for the connection although the group is not Ready.
MarkPortsPending(id, g) ==
  [statuses[Group] EXCEPT !.id = id, !.seen = TRUE, !.why = "PortsPending",
                          !.port = Discovered(id, g)]

MarkDrift(id, g, fail) ==
  [id |-> id, seen |-> TRUE, drift |-> TRUE, port |-> Discovered(id, g),
   why |-> IF fail THEN "Drift" ELSE "Ready"]

NeedsUpdate(g) == g.config # spec.config
Applies(g) == NeedsUpdate(g) /\ (~statuses[Group].seen \/ mode = "Reconcile")

\* NiFi refuses to change a group that transmits, so it is stopped first.
StoppedGroup(g) == [g EXCEPT !.sending = FALSE]
Applied(g) == IF Applies(g) THEN [StoppedGroup(g) EXCEPT !.config = spec.config] ELSE g

Declared == spec.port # "undeclared"

\* The port, if it is declared and discovered: its configuration, for which it is stopped
\* if it transmits, and whether it transmits, for which it has to be connected.
Tuned(g) ==
  IF Declared /\ g.known /\ g.tuned # spec.tuned
  THEN [StoppedGroup(g) EXCEPT !.tuned = spec.tuned] ELSE g
Transmits(id, g) ==
  IF ~Declared \/ ~g.known THEN g
  ELSE [g EXCEPT !.sending = spec.port = "send" /\ (@ \/ Linked(id))]
Ports(id, g) == Transmits(id, Tuned(g))
\* Mutant: ports need only be discovered.
PortWaitingDiscovery(id, g) == Declared /\ ~g.known
PortWaiting(id, g) == Declared /\ (~g.known \/ (spec.port = "send" /\ ~g.sending))

Reconciled(id, g) == Ports(id, Applied(g))

\* What NiFi has when a call fails that the reconcile makes: some of the changes.
Partial(id, g) ==
  (IF Applies(g) THEN {g, StoppedGroup(g)} ELSE {})
  \cup LET h == Applied(g) IN
       IF Ports(id, h) = h THEN {} ELSE {h, StoppedGroup(h), Tuned(h)}

Publish(id, g) ==
  IF PortWaiting(id, g) THEN SaveStatus(Group, MarkPortsPending(id, g), TRUE)
  ELSE IF NeedsUpdate(g) /\ mode = "Warn" THEN SaveStatus(Group, MarkDrift(id, g, FALSE), TRUE)
  ELSE SaveStatus(Group, MarkReady(Group, id, Discovered(id, g)), FALSE)

\* The reconcile of a group there is, also for one just created. Mode Fail leaves it alone.
ReconcileExisting(id, g) ==
  \/ /\ NeedsUpdate(g) /\ ~Applies(g) /\ mode = "Fail"
     /\ groups' = [groups EXCEPT ![id] = g]
     /\ SaveStatus(Group, MarkDrift(id, g, TRUE), TRUE) /\ UNCHANGED events
  \/ /\ ~(NeedsUpdate(g) /\ ~Applies(g) /\ mode = "Fail")
     /\ \/ /\ groups' = [groups EXCEPT ![id] = Reconciled(id, g)]
           /\ Publish(id, Reconciled(id, g)) /\ UNCHANGED events
        \/ /\ \E h \in Partial(id, g) : groups' = [groups EXCEPT ![id] = h]
           /\ Happens /\ SaveStatus(Group, MarkNotReady(Group), TRUE)

\* The group of the status; if there is none, one to adopt. (Adoption by target or name only
\* while no id is known; adoption by id, which is tried in either case, is not modelled.)
Found ==
  IF Exists(statuses[Group].id) THEN {statuses[Group].id}
  ELSE IF adopts /\ statuses[Group].id = None THEN {id \in Ids : Exists(id)} ELSE {}

\* The group may be created although the call fails.
Create ==
  LET id == made.group + 1
      new == [NoGroup EXCEPT !.exists = TRUE, !.config = spec.config] IN
  /\ made.group < MaxMade
  /\ made' = [made EXCEPT !.group = id]
  /\ \/ ReconcileExisting(id, new)
     \/ /\ groups' = [groups EXCEPT ![id] = new]
        /\ losses' = losses + 1 /\ events + losses < MaxEvents
        /\ statuses' = [statuses EXCEPT ![Group] = MarkNotReady(Group)] /\ Wake(Group)
        /\ UNCHANGED events

ReconcileGroup ==
  /\ Turn(Group)
  /\ \/ /\ nifiCluster # "ready" /\ SaveStatus(Group, MarkWaiting(Group), FALSE)
        /\ UNCHANGED <<nifi, touched, events>>
     \/ /\ nifiCluster = "ready" /\ Happens /\ SaveStatus(Group, MarkNotReady(Group), TRUE)
        /\ UNCHANGED <<nifi, touched>>
     \/ /\ nifiCluster = "ready" /\ touched' = (IF touched = "unseen" THEN "seen" ELSE touched)
        /\ \/ \E id \in Found : ReconcileExisting(id, groups[id]) /\ UNCHANGED made
           \/ Found = {} /\ Create
        /\ UNCHANGED links
  /\ UNCHANGED <<spec, fixed, purge, life, nifiCluster>>

-----------------------------------------------------------------------------
(* The connection *)

\* Mutant: the group must be Ready, as what other connections join must be.
DependencyReadyOnly == life[Group] # "gone" /\ statuses[Group].why = "Ready"
\* It is enough that the port is discovered.
Dependency == life[Group] # "gone" /\ statuses[Group].port # "unknown"

LinkExists(l) == l \in Ids /\ links[l] # None

\* With the ids of the group's status, which NiFi may not know any more.
CreateLink ==
  LET id == statuses[Group].id
      l == made.link + 1 IN
  \/ /\ Exists(id) /\ groups[id].known /\ made.link < MaxMade
     /\ made' = [made EXCEPT !.link = l]
     /\ links' = [links EXCEPT ![l] = id]
     /\ \/ SaveStatus(Link, MarkReady(Link, l, "unknown"), FALSE)
        \/ /\ losses' = losses + 1 /\ events + losses < MaxEvents
           /\ statuses' = [statuses EXCEPT ![Link] = MarkNotReady(Link)] /\ Wake(Link)
     /\ UNCHANGED events
  \/ /\ ~(Exists(id) /\ groups[id].known) /\ SaveStatus(Link, MarkNotReady(Link), TRUE)
     /\ UNCHANGED <<made, links, events>>

\* A connection that is gone from NiFi is an error and not made again.
ReconcileLink ==
  /\ Turn(Link)
  /\ \/ /\ nifiCluster # "ready" \/ ~Dependency
        /\ SaveStatus(Link, MarkWaiting(Link), FALSE) /\ UNCHANGED <<made, links, events>>
     \/ /\ nifiCluster = "ready" /\ Dependency
        /\ \/ Happens /\ SaveStatus(Link, MarkNotReady(Link), TRUE) /\ UNCHANGED <<made, links>>
           \/ /\ statuses[Link].id # None /\ UNCHANGED <<made, links, events>>
              /\ IF LinkExists(statuses[Link].id)
                 THEN SaveStatus(Link, MarkReady(Link, statuses[Link].id, "unknown"), FALSE)
                 ELSE SaveStatus(Link, MarkNotReady(Link), TRUE)
           \/ statuses[Link].id = None /\ CreateLink
  /\ UNCHANGED <<spec, fixed, purge, life, nifiCluster, groups, touched>>

-----------------------------------------------------------------------------
(* Deletion *)

Keeps(x) == ~purge[x] \/ statuses[x].id = None \/ nifiCluster = "gone"

DropFinalizer(x) ==
  /\ life' = [life EXCEPT ![x] = "gone"]
  /\ queued' = [y \in Objects |-> y # x /\ life[y] # "gone" /\ (queued[y] \/ y \in Wakes(x))]

Deleting(x) == life[x] = "deleting" /\ queued[x]
Again == UNCHANGED <<life, queued>>

\* Transmission is stopped; NiFi refuses to delete a group that is connected.
DeleteCalls(id) == [groups EXCEPT ![id] = IF Linked(id) THEN StoppedGroup(@) ELSE NoGroup]

DeleteGroup ==
  /\ Deleting(Group)
  /\ \/ Keeps(Group) /\ DropFinalizer(Group) /\ UNCHANGED <<groups, events>>
     \/ /\ ~Keeps(Group) /\ nifiCluster = "ready" /\ Happens /\ Again
        /\ \/ UNCHANGED groups
           \/ /\ Exists(statuses[Group].id)
              /\ groups' = [groups EXCEPT ![statuses[Group].id] = StoppedGroup(@)]
     \/ /\ ~Keeps(Group) /\ nifiCluster = "ready" /\ UNCHANGED events
        /\ IF ~Exists(statuses[Group].id) THEN UNCHANGED groups /\ DropFinalizer(Group)
           ELSE /\ groups' = DeleteCalls(statuses[Group].id)
                /\ IF groups'[statuses[Group].id].exists THEN Again ELSE DropFinalizer(Group)
  /\ UNCHANGED <<spec, fixed, purge, statuses, nifiCluster, links, made, touched, losses>>

\* NiFi refuses to delete a connection to a port that transmits.
DeleteLink ==
  LET l == statuses[Link].id IN
  /\ Deleting(Link)
  /\ \/ Keeps(Link) /\ DropFinalizer(Link) /\ UNCHANGED <<links, events>>
     \/ ~Keeps(Link) /\ nifiCluster = "ready" /\ Happens /\ Again /\ UNCHANGED links
     \/ /\ ~Keeps(Link) /\ nifiCluster = "ready" /\ UNCHANGED events
        /\ IF LinkExists(l) /\ groups[links[l]].sending THEN Again /\ UNCHANGED links
           ELSE links' = [links EXCEPT ![l] = None] /\ DropFinalizer(Link)
  /\ UNCHANGED <<spec, fixed, purge, statuses, nifiCluster, groups, made, touched, losses>>

-----------------------------------------------------------------------------
(* Users of the cluster and NiFi *)

Edit ==
  /\ life[Group] = "live" /\ Happens
  /\ \/ spec' = [spec EXCEPT !.config = 1 - @]
     \/ spec' = [spec EXCEPT !.tuned = 1 - @]
     \/ Declared /\ spec' = [spec EXCEPT !.port = IF @ = "send" THEN "idle" ELSE "send"]
  /\ statuses' = [statuses EXCEPT ![Group].seen = FALSE] /\ Wake(Group)
  /\ UNCHANGED <<fixed, purge, life, nifiCluster, nifi, touched, losses>>

RequestDelete(x) ==
  /\ life[x] = "live" /\ Happens
  /\ life' = [life EXCEPT ![x] = "deleting"] /\ Wake(x)
  /\ \E policy \in BOOLEAN : purge' = [purge EXCEPT ![x] = policy]
  /\ UNCHANGED <<spec, fixed, statuses, nifiCluster, nifi, touched, losses>>

ClusterChanges(to) ==
  /\ nifiCluster # to /\ nifiCluster # "gone"
  /\ IF to = "ready" THEN UNCHANGED events ELSE Happens
  /\ nifiCluster' = to /\ queued' = [x \in Objects |-> life[x] # "gone"]
  /\ UNCHANGED <<spec, fixed, purge, life, statuses, nifi, touched, losses>>

\* Somebody changes the configuration of a group or deletes it in NiFi.
Meddle(id) ==
  /\ Exists(id) /\ ~groups[id].sending /\ Happens
  /\ \/ groups' = [groups EXCEPT ![id].config = 1 - @]
     \/ ~Linked(id) /\ groups' = [groups EXCEPT ![id] = NoGroup]
  /\ touched' = "unseen"
  /\ UNCHANGED <<spec, fixed, purge, life, statuses, queued, nifiCluster, links, made, losses>>

\* NiFi learns the ports of the target.
Discover(id) ==
  /\ Exists(id) /\ ~groups[id].known
  /\ groups' = [groups EXCEPT ![id].known = TRUE]
  /\ UNCHANGED <<spec, fixed, purge, life, statuses, queued, nifiCluster, links, made, touched,
                 events, losses>>

RemoteNext ==
  \/ ReconcileGroup \/ ReconcileLink \/ DeleteGroup \/ DeleteLink
  \/ Edit
  \/ \E x \in Objects : RequestDelete(x)
  \/ \E to \in {"ready", "unready", "gone"} : ClusterChanges(to)
  \/ \E id \in Ids : Meddle(id) \/ Discover(id)

RemoteSpec == RemoteInit /\ [][RemoteNext]_remoteVars

\* The two workqueues call for what they hold, and NiFi reaches the target in the end.
RemoteFairSpec ==
  /\ RemoteSpec
  /\ WF_remoteVars(ReconcileGroup \/ DeleteGroup) /\ WF_remoteVars(ReconcileLink \/ DeleteLink)
  /\ \A id \in Ids : WF_remoteVars(Discover(id))

-----------------------------------------------------------------------------
(* Properties *)

Settled == life[Group] = "live" /\ statuses[Group].why = "Ready" /\ statuses[Group].seen
           /\ (statuses[Group].drift \/ ~queued[Group])
           /\ touched # "unseen" /\ Exists(statuses[Group].id)

\* Ready is true of NiFi: the port is configured and transmits as the present spec says,
\* also after edits for which transmission was stopped and calls that failed in between;
\* and where the group is not configured so, drift is reported or ignored.
ReadyIsTrue ==
  Settled => LET g == groups[statuses[Group].id] IN
    /\ Declared => g.known /\ g.tuned = spec.tuned /\ g.sending = (spec.port = "send")
    /\ NeedsUpdate(g) => statuses[Group].drift \/ mode = "Ignore"

\* Waiting does not multiply: there is at most one remote process group and one connection,
\* and one more for each write of a status, or answer to a creation, that was lost.
NoDuplicates ==
  /\ Cardinality({id \in Ids : Exists(id)}) <= 1 + losses
  /\ Cardinality({l \in Ids : LinkExists(l)}) <= 1 + losses

\* Both resources are there and so is what they recorded; a port that is not declared is
\* not waited for, so nothing publishes it; mode Fail stops for good.
Calm ==
  /\ nifiCluster = "ready" /\ \A x \in Objects : life[x] = "live"
  /\ Declared
  /\ statuses[Group].id # None =>
       Exists(statuses[Group].id) /\ (mode = "Fail" => ~NeedsUpdate(groups[statuses[Group].id]))
  /\ made.group < MaxMade \/ Found # {}
  /\ made.link < MaxMade \/ statuses[Link].id # None

\* No deadlock: though each needs the other, both become Ready and the port transmits if
\* it is to, whatever came first and whichever call failed.
Converges ==
  <>[]Calm => <>[](/\ \A x \in Objects : statuses[x].why = "Ready"
                   /\ groups[statuses[Group].id].sending = (spec.port = "send"))

\* NiFi refuses to delete the group before the connection and the connection while the
\* port transmits; deleted in whichever order, both go.
DeletionEnds ==
  []<>~(/\ \A x \in Objects : life[x] # "live" /\ purge[x]
        /\ \E x \in Objects : life[x] = "deleting"
        /\ nifiCluster # "unready" /\ losses = 0)

\* What a settled group says is well formed and true of NiFi.
StatusIsTrue == RemoteTypeOK /\ ReadyIsTrue

\* Neither being set up nor being deleted do the two wait for each other for ever.
ComesToRest == Converges /\ DeletionEnds

\* What the comment at the update says: a spec change is always applied, driftPolicy only
\* governs what changed in NiFi. Stated where nobody changed anything in NiFi.
SpecChangeApplied ==
  Settled /\ touched = "never" => ~NeedsUpdate(groups[statuses[Group].id])

=============================================================================
