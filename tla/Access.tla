-------------------------------- MODULE Access --------------------------------
(***************************************************************************)
(* NiFiUser, NiFiUserGroup and NiFiPolicy resources of one cluster, their  *)
(* reconcilers, and NiFi's users, user groups and one access policy. The   *)
(* policy resources are for the same resource and action, so they share    *)
(* the access policy; they and the group name users by resource and write  *)
(* the ids the users' statuses hold.                                       *)
(*                                                                         *)
(* Unlike in ManagedComponent the resources depend on each other: a group  *)
(* waits for its users and a policy for its users and group, without a     *)
(* requeue, and every event of a user or group wakes what names it. A      *)
(* reconcile is one step. `seen` says that a status is for the current     *)
(* generation, `fresh` that it holds NiFi's revision. Finalizers are there *)
(* from the start, and group and access policy are never renamed.          *)
(***************************************************************************)
EXTENDS Integers, FiniteSets

CONSTANTS
  Users, Policies, \* the NiFiUser and NiFiPolicy resources
  Group,           \* the NiFiUserGroup resource
  Refs,            \* what the group and the policies may name to begin with
  MaxMade,         \* bound: tenants and policies of each kind in NiFi
  MaxEvents        \* bound: edits, deletions, changes of the cluster and of NiFi by others,
                   \* failing calls and lost writes, together

ASSUME ObjectsAssumption == Group \notin Users \cup Policies /\ Users \cap Policies = {}
ASSUME RefsAssumption ==
  \A r \in Refs : /\ r \in [{Group} \cup Policies -> (SUBSET (Users \cup {Group})) \ {{}}]
                  /\ r[Group] \subseteq Users
ASSUME BoundsAssumption == MaxMade \in Nat \ {0} /\ MaxEvents \in Nat

Objects == Users \cup {Group} \cup Policies

VARIABLES
  identity,  \* the identity each NiFiUser asks for: its own or another one
  refs,      \* the users the group, and the users and group the policies name
  purge,     \* deletionPolicy is Delete (otherwise Orphan): it is read only, and so chosen
             \* only, when the resource is deleted
  life, status, fresh, queued,   \* of every resource
  cluster,   \* the NiFiCluster: "ready", "unready" or "gone"
  tenants,   \* NiFi: the identity of every user id, <<>> if there is none
  members,   \* NiFi: the ids of the users of every group id
  groups,    \* NiFi: the ids of the groups
  access,    \* NiFi: id of the access policy (0 if there is none) and what it grants to
  made,      \* NiFi: how many users, groups and access policies there were
  edited,    \* history: a group or policy was edited
  events, losses   \* how much of the bound is used up, lost writes apart

specs == <<identity, refs, purge>>
resources == <<life, status, fresh, queued>>
nifi == <<tenants, members, groups, access, made>>
vars == <<specs, resources, cluster, nifi, edited, events, losses>>

-----------------------------------------------------------------------------

None == 0
UserIds == 1..MaxMade
GroupIds == (MaxMade + 1)..(2 * MaxMade)
\* The user somebody else created and granted access.
Admin == 2 * MaxMade + 1
TenantIds == UserIds \cup GroupIds \cup {Admin}
Nobody == <<>>
Identities == (Users \X BOOLEAN) \cup {Nobody}

UserExists(id) == id \in UserIds /\ tenants[id] # Nobody
GroupExists(id) == id \in groups
Existing == {id \in UserIds : UserExists(id)} \cup groups \cup {Admin}

Statuses == [id : 0..(2 * MaxMade), why : {"", "Ready", "Waiting", "Failed"}, seen : BOOLEAN,
             ids : SUBSET (UserIds \cup GroupIds)]
Grants == [id : 0..MaxMade, to : SUBSET TenantIds]
Counts == [user : 0..MaxMade, group : 0..MaxMade, policy : 0..MaxMade]

TypeOK ==
  /\ identity \in [Users -> Users \X BOOLEAN]
  /\ refs \in [{Group} \cup Policies -> SUBSET (Users \cup {Group})] /\ refs[Group] \subseteq Users
  /\ purge \in [Objects -> BOOLEAN]
  /\ life \in [Objects -> {"live", "deleting", "gone"}]
  /\ status \in [Objects -> Statuses]
  /\ fresh \in [Objects -> BOOLEAN] /\ queued \in [Objects -> BOOLEAN]
  /\ cluster \in {"ready", "unready", "gone"}
  /\ tenants \in [UserIds -> Identities]
  /\ groups \subseteq GroupIds /\ members \in [GroupIds -> SUBSET UserIds]
  /\ access \in Grants
  /\ made \in Counts
  /\ edited \in BOOLEAN /\ events \in 0..MaxEvents /\ losses \in 0..MaxEvents

Init ==
  /\ identity = [u \in Users |-> <<u, FALSE>>]
  /\ refs \in Refs
  /\ purge = [x \in Objects |-> FALSE]
  /\ life = [x \in Objects |-> "live"]
  /\ status = [x \in Objects |-> [id |-> None, why |-> "", seen |-> FALSE, ids |-> {}]]
  /\ fresh = [x \in Objects |-> FALSE] /\ queued = [x \in Objects |-> TRUE]
  /\ cluster = "ready"
  /\ tenants = [id \in UserIds |-> Nobody] /\ groups = {} /\ members = [id \in GroupIds |-> {}]
  /\ \/ access = [id |-> None, to |-> {}] /\ made = [user |-> 0, group |-> 0, policy |-> 0]
     \/ access = [id |-> 1, to |-> {Admin}] /\ made = [user |-> 0, group |-> 0, policy |-> 1]
  /\ edited = FALSE /\ events = 0 /\ losses = 0

-----------------------------------------------------------------------------
(* Watches and writes *)

\* Mutant: only policies wait for tenants.
MemberWatchPoliciesOnly(u) == {}
\* An event of a user wakes the group that lists it and the policies that name it.
RequestsForMemberUser(u) == {x \in {Group} : u \in refs[x]}
RequestsForPolicyUser(u) == {p \in Policies : u \in refs[p]}
\* An event of the group wakes the policies that name it.
RequestsForPolicyUserGroup == {p \in Policies : Group \in refs[p]}

Wakes(x) ==
  {x} \cup (IF x \in Users THEN RequestsForMemberUser(x) \cup RequestsForPolicyUser(x)
            ELSE IF x = Group THEN RequestsForPolicyUserGroup ELSE {})

Wake(x) == queued' = [y \in Objects |-> life[y] # "gone" /\ (queued[y] \/ y \in Wakes(x))]

Happens == events + losses < MaxEvents /\ events' = events + 1
Failing == Happens
Lost == events + losses < MaxEvents /\ losses' = losses + 1

\* The status is written if it or the revision changed, which is an event, or the write
\* fails; otherwise the reconcile asks to be called again or does not.
Save(x, s, again, wrote) ==
  LET current == fresh[x] /\ ~wrote
      same == s = status[x] /\ (s.why = "Ready" => current) IN
  \/ /\ same
     /\ queued' = [queued EXCEPT ![x] = again]
     /\ UNCHANGED <<status, losses>>
  \/ ~same /\ status' = [status EXCEPT ![x] = s] /\ Wake(x) /\ UNCHANGED losses
  \/ ~same /\ Lost /\ UNCHANGED <<status, queued>>

MarkReady(x, id, ids) == [id |-> id, why |-> "Ready", seen |-> TRUE, ids |-> ids]
MarkNotReady(x) == [status[x] EXCEPT !.why = "Failed", !.seen = TRUE]
MarkWaiting(x) == [status[x] EXCEPT !.why = "Waiting", !.seen = TRUE]

\* The end of a reconcile, with what it made of the revision of the others.
Conclude(x, s, again, wrote) ==
  /\ Save(x, s, again, wrote)
  /\ fresh' = [y \in Objects |->
       IF y = x THEN (IF losses' # losses THEN fresh[x] /\ ~wrote
                      ELSE s.why = "Ready" \/ (fresh[x] /\ ~wrote))
       ELSE fresh[y] /\ ~(wrote /\ {x, y} \subseteq Policies)]

Turn(x) == life[x] = "live" /\ queued[x]

AwaitCluster(x) ==
  /\ Turn(x) /\ cluster # "ready"
  /\ Conclude(x, MarkWaiting(x), FALSE, FALSE)
  /\ UNCHANGED <<specs, life, cluster, nifi, edited, events>>

\* A call fails before it took effect.
CallFails(x) == Failing /\ Conclude(x, MarkNotReady(x), TRUE, FALSE) /\ UNCHANGED nifi

Refused(x) == Conclude(x, MarkNotReady(x), TRUE, FALSE) /\ UNCHANGED <<nifi, events>>

-----------------------------------------------------------------------------
(* Users *)

\* By the id of the status; if that is gone, by identity, whoever created it.
FoundUsers(u) ==
  IF UserExists(status[u].id) THEN {status[u].id}
  ELSE {id \in UserIds : tenants[id] = identity[u]}

\* Rename the tenant if the identity is another; NiFi refuses one that is taken.
ReconcileExistingUser(u, id) ==
  IF tenants[id] = identity[u]
  THEN Conclude(u, MarkReady(u, id, {}), FALSE, FALSE) /\ UNCHANGED <<nifi, events>>
  ELSE IF \E other \in UserIds : tenants[other] = identity[u]
  THEN Refused(u)
  ELSE /\ tenants' = [tenants EXCEPT ![id] = identity[u]]
       /\ Conclude(u, MarkReady(u, id, {}), FALSE, TRUE)
       /\ UNCHANGED <<members, groups, access, made, events>>

CreateUser(u) ==
  /\ made.user < MaxMade
  /\ made' = [made EXCEPT !.user = @ + 1]
  /\ tenants' = [tenants EXCEPT ![made.user + 1] = identity[u]]
  /\ \/ Conclude(u, MarkReady(u, made.user + 1, {}), FALSE, TRUE) /\ UNCHANGED events
     \/ Failing /\ Conclude(u, MarkNotReady(u), TRUE, FALSE)
  /\ UNCHANGED <<members, groups, access>>

ReconcileUser(u) ==
  /\ Turn(u) /\ cluster = "ready"
  /\ \/ CallFails(u)
     \/ \E id \in FoundUsers(u) : ReconcileExistingUser(u, id)
     \/ FoundUsers(u) = {} /\ CreateUser(u)
  /\ UNCHANGED <<specs, life, cluster, edited>>

-----------------------------------------------------------------------------
(* The group *)

\* A resource that is not there, or is not Ready, is waited for.
MemberDependencies == {u \in refs[Group] : life[u] = "gone" \/ status[u].why # "Ready"}
ResolveMemberIds == {status[u].id : u \in refs[Group]} \ {None}

FoundGroups == IF GroupExists(status[Group].id) THEN {status[Group].id} ELSE groups

\* NiFi refuses users it does not know.
WriteMembers(id) ==
  IF ResolveMemberIds \subseteq Existing
  THEN /\ members' = [members EXCEPT ![id] = ResolveMemberIds]
       /\ Conclude(Group, MarkReady(Group, id, ResolveMemberIds), FALSE, TRUE)
       /\ UNCHANGED <<tenants, access, events>>
  ELSE Conclude(Group, MarkNotReady(Group), TRUE, FALSE) /\ UNCHANGED <<tenants, members, access, events>>

ReconcileExistingUserGroup(id) ==
  /\ IF members[id] # ResolveMemberIds THEN WriteMembers(id)
     ELSE /\ Conclude(Group, MarkReady(Group, id, ResolveMemberIds), FALSE, FALSE)
          /\ UNCHANGED <<tenants, members, access, events>>
  /\ UNCHANGED <<groups, made>>

CreateUserGroup ==
  LET id == MaxMade + made.group + 1 IN
  /\ made.group < MaxMade /\ ResolveMemberIds \subseteq Existing
  /\ made' = [made EXCEPT !.group = @ + 1]
  /\ groups' = groups \cup {id}
  /\ members' = [members EXCEPT ![id] = ResolveMemberIds]
  /\ \/ Conclude(Group, MarkReady(Group, id, ResolveMemberIds), FALSE, TRUE) /\ UNCHANGED events
     \/ Failing /\ Conclude(Group, MarkNotReady(Group), TRUE, FALSE)
  /\ UNCHANGED <<tenants, access>>

ReconcileUserGroup ==
  /\ Turn(Group) /\ cluster = "ready"
  /\ \/ /\ MemberDependencies # {}
        /\ Conclude(Group, MarkWaiting(Group), FALSE, FALSE) /\ UNCHANGED <<nifi, events>>
     \/ /\ MemberDependencies = {}
        /\ \/ CallFails(Group)
           \/ \E id \in FoundGroups : ReconcileExistingUserGroup(id)
           \/ FoundGroups = {} /\ CreateUserGroup
           \/ FoundGroups = {} /\ ~(ResolveMemberIds \subseteq Existing) /\ Refused(Group)
  /\ UNCHANGED <<specs, life, cluster, edited>>

-----------------------------------------------------------------------------
(* Policies *)

PolicyDependencies(p) ==
  {x \in refs[p] : life[x] = "gone" \/ status[x].why # "Ready" \/ status[x].id = None}
ResolvePolicyTenants(p) == {status[x].id : x \in refs[p]}

\* Mutant: the policy grants exactly what the resource names.
PolicyNeedsUpdateExact(p) == access.to # ResolvePolicyTenants(p)
PolicyNeedsUpdate(p) == ~(ResolvePolicyTenants(p) \subseteq access.to)

\* Mutant: as update, but nothing is kept.
MergeTenantRefsDesired(p) == ResolvePolicyTenants(p)
\* What is granted already stays granted.
MergeTenantRefs(p) == access.to \cup ResolvePolicyTenants(p)

\* Found by id or by resource and action: there is only the one. The grants are merged.
ReconcileExistingPolicy(p) ==
  LET ready == MarkReady(p, access.id, ResolvePolicyTenants(p)) IN
  \/ /\ ~PolicyNeedsUpdate(p)
     /\ Conclude(p, ready, FALSE, FALSE) /\ UNCHANGED <<access, events>>
  \/ /\ PolicyNeedsUpdate(p)
     /\ IF ResolvePolicyTenants(p) \subseteq Existing
        THEN access' = [access EXCEPT !.to = MergeTenantRefs(p)] /\ Conclude(p, ready, FALSE, TRUE)
        ELSE Conclude(p, MarkNotReady(p), TRUE, FALSE) /\ UNCHANGED access
     /\ UNCHANGED events

CreateAccessPolicy(p) ==
  LET ids == ResolvePolicyTenants(p) IN
  \/ /\ made.policy < MaxMade /\ ids \subseteq Existing
     /\ made' = [made EXCEPT !.policy = @ + 1]
     /\ access' = [id |-> made.policy + 1, to |-> ids]
     /\ \/ Conclude(p, MarkReady(p, made.policy + 1, ids), FALSE, TRUE) /\ UNCHANGED events
        \/ Failing /\ Conclude(p, MarkNotReady(p), TRUE, FALSE)
     /\ UNCHANGED <<tenants, members, groups>>
  \/ ~(ids \subseteq Existing) /\ Refused(p)

ReconcilePolicy(p) ==
  /\ Turn(p) /\ cluster = "ready"
  /\ \/ /\ PolicyDependencies(p) # {}
        /\ Conclude(p, MarkWaiting(p), FALSE, FALSE) /\ UNCHANGED <<nifi, events>>
     \/ /\ PolicyDependencies(p) = {}
        /\ \/ CallFails(p)
           \/ /\ access.id # None /\ ReconcileExistingPolicy(p)
              /\ UNCHANGED <<tenants, members, groups, made>>
           \/ access.id = None /\ CreateAccessPolicy(p)
  /\ UNCHANGED <<specs, life, cluster, edited>>

-----------------------------------------------------------------------------
(* Deletion *)

Keeps(x) == ~purge[x] \/ status[x].id = None \/ cluster = "gone"

\* The finalizer is dropped (an event for what watches x), or the write fails.
DropFinalizer(x) ==
  \/ /\ life' = [life EXCEPT ![x] = "gone"]
     /\ queued' = [y \in Objects |-> y # x /\ life[y] # "gone" /\ (queued[y] \/ y \in Wakes(x))]
     /\ UNCHANGED losses
  \/ Lost /\ UNCHANGED <<life, queued>>

\* A call fails, or NiFi refuses: the reconcile is called again.
TryAgain == UNCHANGED <<nifi, life, queued, losses>>

Deleting(x) == life[x] = "deleting" /\ queued[x]

DropKept(x) ==
  /\ Deleting(x) /\ Keeps(x)
  /\ DropFinalizer(x)
  /\ UNCHANGED <<specs, status, fresh, cluster, nifi, edited, events>>

Calls(x) == Deleting(x) /\ ~Keeps(x) /\ cluster = "ready"

\* With the revision of the status: NiFi refuses one that is out of date, and forgets the
\* tenant everywhere when it deletes it.
RemoveTenant(id) ==
  /\ tenants' = [t \in UserIds |-> IF t = id THEN Nobody ELSE tenants[t]]
  /\ groups' = groups \ {id}
  /\ members' = [g \in GroupIds |-> IF g = id THEN {} ELSE members[g] \ {id}]
  /\ access' = [access EXCEPT !.to = @ \ {id}]
  /\ UNCHANGED made

DeleteTenant(x) ==
  /\ Calls(x)
  /\ \/ Failing /\ TryAgain
     \/ status[x].id \in Existing /\ ~fresh[x] /\ TryAgain /\ UNCHANGED events
     \/ /\ status[x].id \in Existing => fresh[x]
        /\ RemoveTenant(status[x].id) /\ DropFinalizer(x) /\ UNCHANGED events
  /\ UNCHANGED <<specs, status, fresh, cluster, edited>>

DeleteUser(u) == DeleteTenant(u)
DeleteUserGroup == DeleteTenant(Group)

\* Mutant: groups are not taken out.
RemainingGroups(p) == access.to \ (status[p].ids \cap UserIds)
Remaining(p) == access.to \ status[p].ids

\* What the status recorded is taken out of the policy; the policy is deleted if it then
\* grants to nobody, and left alone if it has been deleted or nothing is to be taken out.
DeletePolicy(p) ==
  /\ Calls(p)
  /\ \/ Failing /\ TryAgain /\ UNCHANGED fresh
     \/ /\ access' = IF status[p].id # access.id THEN access
                     ELSE IF Remaining(p) = {} THEN [id |-> None, to |-> {}]
                     ELSE [access EXCEPT !.to = Remaining(p)]
        /\ fresh' = [x \in Objects |-> fresh[x] /\ (x \in Policies => access' = access)]
        /\ DropFinalizer(p)
        /\ UNCHANGED <<tenants, members, groups, made, events>>
  /\ UNCHANGED <<specs, status, cluster, edited>>

-----------------------------------------------------------------------------
(* Users of the cluster *)

\* An edit of a spec: a user is renamed, a group or policy names others.
Edit(x) ==
  /\ life[x] = "live" /\ Happens
  /\ \/ /\ x \in Users /\ identity' = [identity EXCEPT ![x][2] = ~@]
        /\ UNCHANGED refs
     \/ /\ x \notin Users /\ UNCHANGED identity
        /\ \E to \in (SUBSET (IF x = Group THEN Users ELSE Users \cup {Group})) \ {{}, refs[x]} :
             refs' = [refs EXCEPT ![x] = to]
  /\ edited' = (edited \/ x \notin Users)
  /\ status' = [status EXCEPT ![x].seen = FALSE]
  /\ Wake(x)
  /\ UNCHANGED <<purge, life, fresh, cluster, nifi, losses>>

RequestDelete(x) ==
  /\ life[x] = "live" /\ Happens
  /\ life' = [life EXCEPT ![x] = "deleting"] /\ Wake(x)
  /\ \E policy \in BOOLEAN : purge' = [purge EXCEPT ![x] = policy]
  /\ UNCHANGED <<identity, refs, status, fresh, cluster, nifi, edited, losses>>

\* Every resource of the cluster is told.
ClusterChanges(to) ==
  /\ cluster # to /\ cluster # "gone"
  /\ IF to = "ready" THEN UNCHANGED events ELSE Happens
  /\ cluster' = to
  /\ queued' = [x \in Objects |-> life[x] # "gone"]
  /\ UNCHANGED <<specs, life, status, fresh, nifi, edited, losses>>

\* Somebody deletes a user or the group in NiFi.
Meddle(id) ==
  /\ id \in Existing \ {Admin} /\ Happens
  /\ RemoveTenant(id)
  /\ UNCHANGED <<specs, resources, cluster, edited, losses>>

Reconcile(x) ==
  \/ AwaitCluster(x)
  \/ x \in Users /\ (ReconcileUser(x) \/ DeleteUser(x))
  \/ x = Group /\ (ReconcileUserGroup \/ DeleteUserGroup)
  \/ x \in Policies /\ (ReconcilePolicy(x) \/ DeletePolicy(x))
  \/ DropKept(x)

Next ==
  \/ \E x \in Objects : Reconcile(x) \/ Edit(x) \/ RequestDelete(x)
  \/ \E to \in {"ready", "unready", "gone"} : ClusterChanges(to)
  \/ \E id \in TenantIds : Meddle(id)

Spec == Init /\ [][Next]_vars

\* Each kind has a workqueue of its own, which calls for every resource it holds.
FairSpec == Spec /\ \A x \in Objects : WF_vars(Reconcile(x))

-----------------------------------------------------------------------------
(* Properties *)

Settled(x) == life[x] = "live" /\ ~queued[x] /\ status[x].why = "Ready" /\ status[x].seen
CurrentIds(x) == {status[y].id : y \in refs[x]}

\* Ids follow the users: a group that has settled has in NiFi exactly the users it lists,
\* by the ids their statuses hold now, after users were renamed, deleted in NiFi and made
\* again; as far as the group and those users still are in NiFi.
MembersFollow ==
  Settled(Group) /\ GroupExists(status[Group].id)
  => members[status[Group].id] = CurrentIds(Group) \cap Existing

\* A policy that has settled grants access to all that it names, whatever other policies
\* for the same access policy do; unless one with a tenant in common was deleted, which
\* takes the access away from both.
GrantsFollow ==
  \A p \in Policies :
    Settled(p) /\ (\A q \in Policies \ {p} : life[q] = "live" \/ status[q].ids \cap status[p].ids = {})
    => CurrentIds(p) \cap Existing \subseteq access.to

\* What others granted stays: no edit or deletion of policies takes access from a user
\* that no resource names.
OthersKeepAccess == [][(Admin \in access.to) => (Admin \in access'.to)]_vars

\* Once a policy with deletionPolicy Delete is gone, nobody has access through what it had
\* recorded, except by another policy. (If the other policy is edited, what it granted
\* before stays as well.)
DeletionRevokes ==
  \A p \in Policies :
    life[p] = "gone" /\ purge[p] /\ cluster # "gone" /\ ~edited
    => \A id \in access.to \cap status[p].ids :
         \E q \in Policies \ {p} : id \in ResolvePolicyTenants(q) \cup status[q].ids

\* Every resource of the policies is there and none lacks what NiFi no longer has.
Calm ==
  /\ cluster = "ready" /\ \A x \in Objects : life[x] = "live"
  /\ \A x \in Users \cup {Group} : status[x].id \in Existing \cup {None}
  /\ made.user < MaxMade \/ \A u \in Users : FoundUsers(u) # {}
  /\ made.group < MaxMade \/ groups # {}

\* Everything becomes Ready in the end, in whatever order the resources are reconciled:
\* whoever waits is woken.
Converges == <>[]Calm => <>[](\A x \in Objects : status[x].why = "Ready" /\ status[x].seen)

\* NiFi refuses to delete a tenant that changed since its status was written, for ever.
Stuck(x) == x \notin Policies /\ status[x].id \in Existing /\ ~fresh[x]
DeletionEnds ==
  \A x \in Objects :
    []<>~(life[x] = "deleting" /\ cluster # "unready" /\ (Keeps(x) \/ ~Stuck(x)))

\* Policies that share an access policy do not fight: where everything stays Ready, the
\* workqueues empty.
Settles ==
  <>[](Calm /\ \A x \in Objects : status[x].why = "Ready") => <>[](\A x \in Objects : ~queued[x])

\* What settled resources say is well formed and true of NiFi.
StatusIsTrue == TypeOK /\ MembersFollow /\ GrantsFollow

\* Resources that wait for each other and share an access policy come to rest.
ComesToRest == Converges /\ DeletionEnds /\ Settles

\* What the comment of the reconciler says: the access policy grants exactly the tenants
\* that the resource names. Stated where it is the only one and nobody else granted access.
GrantsExactly ==
  \A p \in Policies :
    Settled(p) /\ Policies = {p} /\ Admin \notin access.to => access.to \subseteq CurrentIds(p)

=============================================================================
