---------------------------- MODULE AccessProofs ----------------------------
(***************************************************************************)
(* Proofs about Access: what settled groups and policies say is true of    *)
(* NiFi, a deleted policy leaves no access of its own behind, and what     *)
(* others granted stays.                                                   *)
(***************************************************************************)
EXTENDS Access, TLAPS

LiveUsers == {id \in UserIds : UserExists(id)}
UsersMade == 1..made.user
GroupsMade == (MaxMade + 1)..(MaxMade + made.group)
Tenants == Users \cup {Group}

\* Ids are NiFi's, each given once: whatever a status records, NiFi has made, and what
\* NiFi holds refers only to what it has.
IdsMade ==
  /\ \A u \in Users : status[u].id \in {None} \cup UsersMade
  /\ status[Group].id \in {None} \cup GroupsMade
  /\ \A p \in Policies : status[p].ids \subseteq UsersMade \cup GroupsMade
  /\ \A p \in Policies : status[p].id = None => status[p].ids = {}
  /\ LiveUsers \subseteq UsersMade
  /\ groups \subseteq GroupsMade
  /\ access.id = None => access.to = {}
  /\ access.to \subseteq Existing
  /\ \A g \in GroupIds : members[g] \subseteq LiveUsers

\* A policy that has settled has recorded the ids of what it names.
Recorded == \A p \in Policies : Settled(p) => status[p].ids = CurrentIds(p)

\* Another policy names the tenant with this id.
Named(p, id) == \E q \in Policies \ {p} : id \in ResolvePolicyTenants(q)

\* What a policy recorded it still names, as far as it exists.
RecordsNamed == \A p \in Policies : status[p].ids \cap Existing \subseteq ResolvePolicyTenants(p)

\* A policy can take back all that it recorded, or another one names it: a live one, ...
LiveRevocable ==
  \A p \in Policies :
    life[p] = "live" =>
      \A id \in status[p].ids \cap Existing :
        (access.id = status[p].id /\ id \in access.to) \/ Named(p, id)

\* ... one that is being deleted, ...
DeletingRevocable ==
  \A p \in Policies :
    life[p] = "deleting" =>
      \A id \in status[p].ids \cap access.to : access.id = status[p].id \/ Named(p, id)

\* ... and one that is gone has done so.
GoneRevoked ==
  \A p \in Policies :
    life[p] = "gone" /\ purge[p] /\ cluster # "gone" =>
      \A id \in status[p].ids \cap access.to : Named(p, id)

Revocable == ~edited => RecordsNamed /\ LiveRevocable /\ DeletingRevocable /\ GoneRevoked

AccessInv == TypeOK /\ IdsMade /\ Recorded /\ MembersFollow /\ GrantsFollow /\ Revocable

-----------------------------------------------------------------------------
(* The end of a reconcile *)

\* What the end of a reconcile of x leaves: the status is s or the old one, and whoever
\* still rests rested before and names nothing that changed; x itself rests only if there
\* was nothing to write.
Ended(x, s) ==
  /\ status' = status \/ status' = [status EXCEPT ![x] = s]
  /\ status' \in [Objects -> Statuses]
  /\ fresh' \in [Objects -> BOOLEAN] /\ queued' \in [Objects -> BOOLEAN]
  /\ losses' \in 0..MaxEvents
  /\ \A y \in Objects :
       life[y] = "live" /\ ~queued'[y] =>
         \/ y # x /\ ~queued[y] /\ (status' = status \/ y \notin Wakes(x))
         \/ y = x /\ s = status[x] /\ status' = status

\* A reconcile that ends with Conclude leaves what Ended says.
LEMMA ConcludeEnds ==
  ASSUME TypeOK, NEW x \in Objects, NEW s \in Statuses, NEW again \in BOOLEAN,
         NEW wrote \in BOOLEAN, Turn(x), Conclude(x, s, again, wrote)
  PROVE  Ended(x, s)
<1>1. x \in Wakes(x)
  BY DEF Wakes
<1>2. queued[x] /\ life[x] = "live"
  BY DEF Turn
<1>3. Save(x, s, again, wrote)
  BY DEF Conclude
<1>4. status' = status \/ status' = [status EXCEPT ![x] = s]
  BY <1>3 DEF Save
<1>5. status' \in [Objects -> Statuses]
  BY <1>4 DEF TypeOK
<1>6. fresh' \in [Objects -> BOOLEAN]
  <2>1. fresh \in [Objects -> BOOLEAN]
    BY DEF TypeOK
  <2>2. \A y \in Objects :
          (IF y = x THEN (IF losses' # losses THEN fresh[x] /\ ~wrote
                          ELSE s.why = "Ready" \/ (fresh[x] /\ ~wrote))
           ELSE fresh[y] /\ ~(wrote /\ {x, y} \subseteq Policies)) \in BOOLEAN
    BY <2>1, Zenon
  <2>3. QED
    BY <2>2, Zenon DEF Conclude
<1>7. queued' \in [Objects -> BOOLEAN]
  <2>1. queued \in [Objects -> BOOLEAN]
    BY DEF TypeOK
  <2>2. CASE queued' = [queued EXCEPT ![x] = again]
    BY <2>1, <2>2
  <2>3. CASE Wake(x)
    <3>1. \A y \in Objects : (life[y] # "gone" /\ (queued[y] \/ y \in Wakes(x))) \in BOOLEAN
      BY <2>1, Zenon
    <3>2. QED
      BY <2>3, <3>1, Zenon DEF Wake
  <2>4. CASE queued' = queued
    BY <2>1, <2>4
  <2>5. QED
    BY <1>3, <2>2, <2>3, <2>4 DEF Save
<1>8. losses' \in 0..MaxEvents
  <2>1. losses' = losses \/ (losses' = losses + 1 /\ events + losses < MaxEvents)
    BY <1>3 DEF Save, Lost
  <2>2. QED
    BY <2>1, BoundsAssumption DEF TypeOK
<1>9. ASSUME NEW y \in Objects, life[y] = "live", ~queued'[y]
      PROVE  \/ y # x /\ ~queued[y] /\ (status' = status \/ y \notin Wakes(x))
             \/ y = x /\ s = status[x] /\ status' = status
  <2>1. CASE s = status[x] /\ queued' = [queued EXCEPT ![x] = again] /\ status' = status
    BY <1>9, <2>1 DEF TypeOK
  <2>2. CASE Wake(x)
    <3>1. ~queued[y] /\ y \notin Wakes(x)
      BY <1>9, <2>2 DEF Wake
    <3>2. QED
      BY <3>1, <1>1
  <2>3. CASE queued' = queued /\ status' = status
    BY <1>9, <1>2, <2>3
  <2>4. QED
    BY <1>3, <2>1, <2>2, <2>3 DEF Save
<1>10. QED
  BY <1>4, <1>5, <1>6, <1>7, <1>8, <1>9 DEF Ended

\* The statuses a reconcile may write are statuses.
LEMMA StatusTypes ==
  ASSUME TypeOK, NEW x \in Objects
  PROVE  /\ MarkNotReady(x) \in Statuses /\ MarkWaiting(x) \in Statuses
         /\ MarkNotReady(x).id = status[x].id /\ MarkWaiting(x).id = status[x].id
         /\ MarkNotReady(x).ids = status[x].ids /\ MarkWaiting(x).ids = status[x].ids
         /\ MarkNotReady(x).why = "Failed" /\ MarkWaiting(x).why = "Waiting"
         /\ \A id \in 0..(2 * MaxMade), ids \in SUBSET (UserIds \cup GroupIds) :
              /\ MarkReady(x, id, ids) \in Statuses
              /\ MarkReady(x, id, ids).id = id /\ MarkReady(x, id, ids).ids = ids
<1>1. status[x] \in Statuses
  BY DEF TypeOK
<1>2. QED
  BY <1>1 DEF Statuses, MarkNotReady, MarkWaiting, MarkReady

\* An identity is not the absence of one.
LEMMA IdentityTypes ==
  ASSUME TypeOK, NEW u \in Users
  PROVE  identity[u] \in Identities /\ identity[u] # Nobody
<1>1. PICK v \in Users, b \in BOOLEAN : identity[u] = <<v, b>>
  BY DEF TypeOK
<1>2. QED
  BY <1>1 DEF Identities, Nobody

\* Ids of users, groups and the administrator are told apart.
LEMMA IdsApart ==
  ASSUME TypeOK
  PROVE  /\ UsersMade \subseteq UserIds /\ GroupsMade \subseteq GroupIds
         /\ UserIds \cap GroupIds = {} /\ Admin \notin UserIds \cup GroupIds
         /\ None \notin UserIds \cup GroupIds \cup {Admin}
         /\ UserIds \cup GroupIds \subseteq 0..(2 * MaxMade)
         /\ LiveUsers \subseteq UserIds
         /\ Existing = LiveUsers \cup groups \cup {Admin}
         /\ made.user \in 0..MaxMade /\ made.group \in 0..MaxMade /\ made.policy \in 0..MaxMade
<1>1. made.user \in 0..MaxMade /\ made.group \in 0..MaxMade /\ made.policy \in 0..MaxMade
  BY DEF TypeOK, Counts
<1>2. QED
  BY <1>1, BoundsAssumption
     DEF UsersMade, GroupsMade, UserIds, GroupIds, Admin, None, LiveUsers, Existing

\* The bound on events is kept.
LEMMA EventsTypes ==
  ASSUME TypeOK, Happens
  PROVE  events' \in 0..MaxEvents
BY BoundsAssumption DEF TypeOK, Happens

-----------------------------------------------------------------------------
(* What a reconcile of a user, of the group and of a policy does *)

\* A user keeps its id unless NiFi no longer has it; then it takes over an existing user
\* or the one it creates.
UserDone(u, s) ==
  /\ Ended(u, s)
  /\ UNCHANGED <<specs, life, cluster, edited, members, groups, access>>
  /\ events' \in 0..MaxEvents /\ tenants' \in [UserIds -> Identities]
  /\ \/ /\ made' = made /\ LiveUsers' = LiveUsers
        /\ s.id = status[u].id \/ (status[u].id \notin LiveUsers /\ s.id \in LiveUsers)
     \/ /\ made.user < MaxMade /\ made' = [made EXCEPT !.user = @ + 1]
        /\ LiveUsers' = LiveUsers \cup {made.user + 1}
        /\ status[u].id \notin LiveUsers /\ s.id \in {status[u].id, made.user + 1}

\* Reconciles of users, cluster ready or not, do what UserDone says.
LEMMA UserReconciles ==
  ASSUME TypeOK, IdsMade, NEW u \in Users, ReconcileUser(u) \/ AwaitCluster(u)
  PROVE  \E s \in Statuses : UserDone(u, s)
<1> u \in Objects
  BY DEF Objects
<1>1. CASE AwaitCluster(u)
  <2>1. Ended(u, MarkWaiting(u))
    BY <1>1, ConcludeEnds, StatusTypes DEF AwaitCluster
  <2>2. UNCHANGED <<specs, life, cluster, nifi, edited, events>>
    BY <1>1 DEF AwaitCluster
  <2>3. LiveUsers' = LiveUsers
    BY <2>2 DEF LiveUsers, UserExists, nifi
  <2>4. QED
    BY <2>1, <2>2, <2>3, StatusTypes DEF UserDone, nifi, TypeOK
<1>2. CASE ReconcileUser(u)
  <2>1. Turn(u) /\ UNCHANGED <<specs, life, cluster, edited>>
    BY <1>2 DEF ReconcileUser
  <2>2. CASE CallFails(u)
    <3>1. Ended(u, MarkNotReady(u))
      BY <2>1, <2>2, ConcludeEnds, StatusTypes DEF CallFails
    <3>2. UNCHANGED nifi /\ events' \in 0..MaxEvents
      BY <2>2, EventsTypes DEF CallFails, Failing
    <3>3. LiveUsers' = LiveUsers
      BY <3>2 DEF LiveUsers, UserExists, nifi
    <3>4. QED
      BY <2>1, <3>1, <3>2, <3>3, StatusTypes DEF UserDone, nifi, TypeOK
  <2>3. ASSUME NEW id \in FoundUsers(u), ReconcileExistingUser(u, id)
        PROVE  \E s \in Statuses : UserDone(u, s)
    <3>1. id \in LiveUsers /\ (status[u].id \in LiveUsers => id = status[u].id)
      BY IdentityTypes DEF FoundUsers, LiveUsers, UserExists
    <3>2. id \in 0..(2 * MaxMade) /\ id \in UserIds
      BY <3>1, IdsApart
    <3>3. MarkReady(u, id, {}) \in Statuses /\ MarkReady(u, id, {}).id = id
      BY <3>2, StatusTypes
    <3>4. CASE UNCHANGED <<nifi, events>> /\ Ended(u, MarkReady(u, id, {}))
      <4>1. LiveUsers' = LiveUsers
        BY <3>4 DEF LiveUsers, UserExists, nifi
      <4>2. QED
        BY <2>1, <3>1, <3>3, <3>4, <4>1 DEF UserDone, nifi, TypeOK
    <3>5. CASE Refused(u)
      <4>1. Ended(u, MarkNotReady(u)) /\ UNCHANGED <<nifi, events>>
        BY <2>1, <3>5, ConcludeEnds, StatusTypes DEF Refused
      <4>2. LiveUsers' = LiveUsers
        BY <4>1 DEF LiveUsers, UserExists, nifi
      <4>3. QED
        BY <2>1, <4>1, <4>2, StatusTypes DEF UserDone, nifi, TypeOK
    <3>6. CASE /\ tenants' = [tenants EXCEPT ![id] = identity[u]]
               /\ Ended(u, MarkReady(u, id, {}))
               /\ UNCHANGED <<members, groups, access, made, events>>
      <4>1. tenants' \in [UserIds -> Identities]
        BY <3>6, IdentityTypes DEF TypeOK
      <4>2. LiveUsers' = LiveUsers
        BY <3>1, <3>6, IdentityTypes DEF LiveUsers, UserExists, TypeOK
      <4>3. QED
        BY <2>1, <3>1, <3>3, <3>6, <4>1, <4>2 DEF UserDone, TypeOK
    <3>7. QED
      BY <2>1, <2>3, <3>3, <3>4, <3>5, <3>6, ConcludeEnds DEF ReconcileExistingUser
  <2>4. CASE FoundUsers(u) = {} /\ CreateUser(u)
    <3>1. status[u].id \notin LiveUsers
      BY <2>4 DEF FoundUsers, LiveUsers
    <3>2. made.user < MaxMade /\ made' = [made EXCEPT !.user = @ + 1]
      BY <2>4 DEF CreateUser
    <3>3. made.user + 1 \in UserIds /\ made.user + 1 \in 0..(2 * MaxMade)
      BY <3>2, IdsApart, BoundsAssumption DEF UserIds
    <3>4. /\ tenants' = [tenants EXCEPT ![made.user + 1] = identity[u]]
          /\ UNCHANGED <<members, groups, access>>
      BY <2>4 DEF CreateUser
    <3>5. tenants' \in [UserIds -> Identities]
      BY <3>4, IdentityTypes DEF TypeOK
    <3>6. LiveUsers' = LiveUsers \cup {made.user + 1}
      BY <3>3, <3>4, IdentityTypes DEF LiveUsers, UserExists, TypeOK
    <3>7. CASE Conclude(u, MarkReady(u, made.user + 1, {}), FALSE, TRUE) /\ UNCHANGED events
      <4>1. /\ MarkReady(u, made.user + 1, {}) \in Statuses
            /\ MarkReady(u, made.user + 1, {}).id = made.user + 1
        BY <3>3, StatusTypes
      <4>2. Ended(u, MarkReady(u, made.user + 1, {}))
        BY <2>1, <3>7, <4>1, ConcludeEnds
      <4>3. QED
        BY <2>1, <3>1, <3>2, <3>4, <3>5, <3>6, <3>7, <4>1, <4>2 DEF UserDone, TypeOK
    <3>8. CASE Failing /\ Conclude(u, MarkNotReady(u), TRUE, FALSE)
      <4>1. Ended(u, MarkNotReady(u)) /\ events' \in 0..MaxEvents
        BY <2>1, <3>8, ConcludeEnds, StatusTypes, EventsTypes DEF Failing
      <4>2. QED
        BY <2>1, <3>1, <3>2, <3>4, <3>5, <3>6, <4>1, StatusTypes DEF UserDone
    <3>9. QED
      BY <2>4, <3>7, <3>8 DEF CreateUser
  <2>5. QED
    BY <1>2, <2>2, <2>3, <2>4 DEF ReconcileUser
<1>3. QED
  BY <1>1, <1>2

\* The group keeps its id likewise; it is Ready only with exactly its users, all of them
\* in NiFi.
GroupDone(s) ==
  /\ Ended(Group, s)
  /\ UNCHANGED <<specs, life, cluster, edited, tenants, access>>
  /\ events' \in 0..MaxEvents /\ members' \in [GroupIds -> SUBSET UserIds]
  /\ \A g \in GroupIds : members'[g] \subseteq LiveUsers
  /\ \/ /\ made' = made /\ groups' = groups
        /\ s.id = status[Group].id \/ (status[Group].id \notin groups /\ s.id \in groups)
     \/ /\ made.group < MaxMade /\ made' = [made EXCEPT !.group = @ + 1]
        /\ groups' = groups \cup {MaxMade + made.group + 1}
        /\ status[Group].id \notin groups
        /\ s.id \in {status[Group].id, MaxMade + made.group + 1}
  /\ s.why = "Ready" =>
       members'[s.id] = ResolveMemberIds /\ ResolveMemberIds \subseteq Existing

\* The ids of the group's users are ids of users.
LEMMA MemberIdTypes ==
  ASSUME TypeOK, IdsMade
  PROVE  ResolveMemberIds \subseteq UserIds
<1>1. \A u \in refs[Group] : status[u].id \in {None} \cup UsersMade
  BY DEF TypeOK, IdsMade
<1>2. UsersMade \subseteq UserIds
  BY IdsApart
<1>3. QED
  BY <1>1, <1>2 DEF ResolveMemberIds

\* Reconciles of the group, cluster ready or not, do what GroupDone says.
LEMMA GroupReconciles ==
  ASSUME TypeOK, IdsMade, ReconcileUserGroup \/ AwaitCluster(Group)
  PROVE  \E s \in Statuses : GroupDone(s)
<1> Group \in Objects
  BY DEF Objects
<1>a. members \in [GroupIds -> SUBSET UserIds] /\ \A g \in GroupIds : members[g] \subseteq LiveUsers
  BY DEF TypeOK, IdsMade
<1>b. ResolveMemberIds \subseteq UserIds
  BY MemberIdTypes
<1>c. ResolveMemberIds \subseteq Existing => ResolveMemberIds \subseteq LiveUsers
  BY <1>b, IdsApart DEF TypeOK
<1>1. CASE AwaitCluster(Group)
  <2>1. Ended(Group, MarkWaiting(Group))
    BY <1>1, ConcludeEnds, StatusTypes DEF AwaitCluster
  <2>2. UNCHANGED <<specs, life, cluster, nifi, edited, events>>
    BY <1>1 DEF AwaitCluster
  <2>3. QED
    BY <1>a, <2>1, <2>2, StatusTypes DEF GroupDone, nifi, TypeOK
<1>2. CASE ReconcileUserGroup
  <2>1. Turn(Group) /\ UNCHANGED <<specs, life, cluster, edited>>
    BY <1>2 DEF ReconcileUserGroup
  <2>2. CASE Conclude(Group, MarkWaiting(Group), FALSE, FALSE) /\ UNCHANGED <<nifi, events>>
    <3>1. Ended(Group, MarkWaiting(Group))
      BY <2>1, <2>2, ConcludeEnds, StatusTypes
    <3>2. QED
      BY <1>a, <2>1, <2>2, <3>1, StatusTypes DEF GroupDone, nifi, TypeOK
  <2>3. CASE CallFails(Group)
    <3>1. Ended(Group, MarkNotReady(Group))
      BY <2>1, <2>3, ConcludeEnds, StatusTypes DEF CallFails
    <3>2. UNCHANGED nifi /\ events' \in 0..MaxEvents
      BY <2>3, EventsTypes DEF CallFails, Failing
    <3>3. QED
      BY <1>a, <2>1, <3>1, <3>2, StatusTypes DEF GroupDone, nifi
  <2>4. CASE Refused(Group)
    <3>1. Ended(Group, MarkNotReady(Group)) /\ UNCHANGED <<nifi, events>>
      BY <2>1, <2>4, ConcludeEnds, StatusTypes DEF Refused
    <3>2. QED
      BY <1>a, <2>1, <3>1, StatusTypes DEF GroupDone, nifi, TypeOK
  <2>5. ASSUME NEW id \in FoundGroups, ReconcileExistingUserGroup(id)
        PROVE  \E s \in Statuses : GroupDone(s)
    <3>1. id \in groups /\ (status[Group].id \in groups => id = status[Group].id)
      BY DEF FoundGroups, GroupExists
    <3>2. id \in GroupIds /\ id \in 0..(2 * MaxMade)
      BY <3>1, IdsApart DEF TypeOK
    <3> DEFINE ready == MarkReady(Group, id, ResolveMemberIds)
    <3>3. ready \in Statuses /\ ready.id = id
      BY <1>b, <3>2, StatusTypes
    <3>4. UNCHANGED <<groups, made>>
      BY <2>5 DEF ReconcileExistingUserGroup
    <3>5. CASE /\ members[id] = ResolveMemberIds /\ Conclude(Group, ready, FALSE, FALSE)
               /\ UNCHANGED <<tenants, members, access, events>>
      <4>1. Ended(Group, ready)
        BY <2>1, <3>3, <3>5, ConcludeEnds
      <4>2. ResolveMemberIds \subseteq Existing
        BY <1>a, <3>2, <3>5, IdsApart
      <4> HIDE DEF ready
      <4>3. QED
        BY <1>a, <2>1, <3>1, <3>3, <3>4, <3>5, <4>1, <4>2 DEF GroupDone, TypeOK
    <3>6. CASE /\ ResolveMemberIds \subseteq Existing
               /\ members' = [members EXCEPT ![id] = ResolveMemberIds]
               /\ Conclude(Group, ready, FALSE, TRUE)
               /\ UNCHANGED <<tenants, access, events>>
      <4>1. Ended(Group, ready)
        BY <2>1, <3>3, <3>6, ConcludeEnds
      <4>2. /\ members' \in [GroupIds -> SUBSET UserIds]
            /\ \A g \in GroupIds : members'[g] \subseteq LiveUsers
            /\ members'[id] = ResolveMemberIds
        BY <1>a, <1>b, <1>c, <3>2, <3>6
      <4> HIDE DEF ready
      <4>3. QED
        BY <2>1, <3>1, <3>3, <3>4, <3>6, <4>1, <4>2 DEF GroupDone, TypeOK
    <3>7. CASE /\ Conclude(Group, MarkNotReady(Group), TRUE, FALSE)
               /\ UNCHANGED <<tenants, members, access, events>>
      <4>1. Ended(Group, MarkNotReady(Group))
        BY <2>1, <3>7, ConcludeEnds, StatusTypes
      <4>2. QED
        BY <1>a, <2>1, <3>4, <3>7, <4>1, StatusTypes DEF GroupDone, TypeOK
    <3>8. QED
      BY <2>5, <3>5, <3>6, <3>7 DEF ReconcileExistingUserGroup, WriteMembers
  <2>6. CASE FoundGroups = {} /\ CreateUserGroup
    <3> DEFINE id == MaxMade + made.group + 1
               ready == MarkReady(Group, id, ResolveMemberIds)
    <3>1. status[Group].id \notin groups
      BY <2>6 DEF FoundGroups, GroupExists
    <3>2. /\ made.group < MaxMade /\ made' = [made EXCEPT !.group = @ + 1]
          /\ groups' = groups \cup {id}
          /\ members' = [members EXCEPT ![id] = ResolveMemberIds]
          /\ ResolveMemberIds \subseteq Existing
          /\ UNCHANGED <<tenants, access>>
      BY <2>6 DEF CreateUserGroup
    <3>3. id \in GroupIds /\ id \in 0..(2 * MaxMade)
      BY <3>2, IdsApart, BoundsAssumption DEF GroupIds
    <3>4. ready \in Statuses /\ ready.id = id
      BY <1>b, <3>3, StatusTypes
    <3>5. \/ Conclude(Group, ready, FALSE, TRUE) /\ UNCHANGED events
          \/ Failing /\ Conclude(Group, MarkNotReady(Group), TRUE, FALSE)
      BY <2>6 DEF CreateUserGroup
    <3>i. id = MaxMade + made.group + 1
      OBVIOUS
    <3> HIDE DEF id, ready
    <3>6. /\ members' \in [GroupIds -> SUBSET UserIds]
          /\ \A g \in GroupIds : members'[g] \subseteq LiveUsers
          /\ members'[id] = ResolveMemberIds
      BY <1>a, <1>b, <1>c, <3>2, <3>3
    <3>7. CASE Conclude(Group, ready, FALSE, TRUE) /\ UNCHANGED events
      <4>1. Ended(Group, ready)
        BY <2>1, <3>4, <3>7, ConcludeEnds
      <4>2. QED
        BY <2>1, <3>1, <3>2, <3>4, <3>6, <3>7, <3>i, <4>1 DEF GroupDone, TypeOK
    <3>8. CASE Failing /\ Conclude(Group, MarkNotReady(Group), TRUE, FALSE)
      <4>1. Ended(Group, MarkNotReady(Group)) /\ events' \in 0..MaxEvents
        BY <2>1, <3>8, ConcludeEnds, StatusTypes, EventsTypes DEF Failing
      <4>2. QED
        BY <2>1, <3>1, <3>2, <3>6, <3>i, <4>1, StatusTypes DEF GroupDone
    <3>9. QED
      BY <3>5, <3>7, <3>8
  <2>7. QED
    BY <1>2, <2>2, <2>3, <2>4, <2>5, <2>6 DEF ReconcileUserGroup
<1>3. QED
  BY <1>1, <1>2

\* A policy adds to the access policy what it names, all of it in NiFi, or creates the
\* access policy with it; it is Ready only if all is granted and recorded.
PolicyDone(p, s) ==
  /\ Ended(p, s)
  /\ UNCHANGED <<specs, life, cluster, edited, tenants, members, groups>>
  /\ events' \in 0..MaxEvents /\ access' \in Grants /\ made' \in Counts
  /\ made'.user = made.user /\ made'.group = made.group
  /\ \/ access' = access
     \/ /\ access.id # None /\ access'.id = access.id
        /\ access'.to = access.to \cup ResolvePolicyTenants(p)
        /\ ResolvePolicyTenants(p) \subseteq Existing
     \/ /\ access.id = None /\ access'.id # None
        /\ access'.to = ResolvePolicyTenants(p)
        /\ ResolvePolicyTenants(p) \subseteq Existing
  /\ \/ s.id = status[p].id /\ s.ids = status[p].ids /\ s.why # "Ready"
     \/ /\ s.id = access'.id /\ access'.id # None
        /\ s.ids = ResolvePolicyTenants(p) /\ ResolvePolicyTenants(p) \subseteq access'.to
        /\ ResolvePolicyTenants(p) \subseteq UsersMade \cup GroupsMade

\* What a policy that need not wait names, NiFi has made.
LEMMA PolicyIdTypes ==
  ASSUME TypeOK, IdsMade, NEW p \in Policies, PolicyDependencies(p) = {}
  PROVE  ResolvePolicyTenants(p) \subseteq UsersMade \cup GroupsMade
<1>1. refs[p] \subseteq Users \cup {Group}
  BY DEF TypeOK
<1>2. \A x \in refs[p] : status[x].id # None
  BY DEF PolicyDependencies
<1>3. \A x \in refs[p] : status[x].id \in UsersMade \cup GroupsMade
  BY <1>1, <1>2 DEF IdsMade
<1>4. QED
  BY <1>3 DEF ResolvePolicyTenants

\* Reconciles of policies, cluster ready or not, do what PolicyDone says.
LEMMA PolicyReconciles ==
  ASSUME TypeOK, IdsMade, NEW p \in Policies, ReconcilePolicy(p) \/ AwaitCluster(p)
  PROVE  \E s \in Statuses : PolicyDone(p, s)
<1> p \in Objects
  BY DEF Objects
<1>1. CASE AwaitCluster(p)
  <2>1. Ended(p, MarkWaiting(p))
    BY <1>1, ConcludeEnds, StatusTypes DEF AwaitCluster
  <2>2. UNCHANGED <<specs, life, cluster, nifi, edited, events>>
    BY <1>1 DEF AwaitCluster
  <2>3. QED
    BY <2>1, <2>2, StatusTypes DEF PolicyDone, nifi, TypeOK
<1>2. CASE ReconcilePolicy(p)
  <2>1. Turn(p) /\ UNCHANGED <<specs, life, cluster, edited>>
    BY <1>2 DEF ReconcilePolicy
  <2>2. CASE Conclude(p, MarkWaiting(p), FALSE, FALSE) /\ UNCHANGED <<nifi, events>>
    <3>1. Ended(p, MarkWaiting(p))
      BY <2>1, <2>2, ConcludeEnds, StatusTypes
    <3>2. QED
      BY <2>1, <2>2, <3>1, StatusTypes DEF PolicyDone, nifi, TypeOK
  <2>3. CASE CallFails(p)
    <3>1. Ended(p, MarkNotReady(p))
      BY <2>1, <2>3, ConcludeEnds, StatusTypes DEF CallFails
    <3>2. UNCHANGED nifi /\ events' \in 0..MaxEvents
      BY <2>3, EventsTypes DEF CallFails, Failing
    <3>3. QED
      BY <2>1, <3>1, <3>2, StatusTypes DEF PolicyDone, nifi, TypeOK
  <2>4. CASE Refused(p)
    <3>1. Ended(p, MarkNotReady(p)) /\ UNCHANGED <<nifi, events>>
      BY <2>1, <2>4, ConcludeEnds, StatusTypes DEF Refused
    <3>2. QED
      BY <2>1, <3>1, StatusTypes DEF PolicyDone, nifi, TypeOK
  <2>5. CASE /\ PolicyDependencies(p) = {} /\ access.id # None /\ ReconcileExistingPolicy(p)
             /\ UNCHANGED <<tenants, members, groups, made>>
    <3> DEFINE ready == MarkReady(p, access.id, ResolvePolicyTenants(p))
    <3>1. ResolvePolicyTenants(p) \subseteq UsersMade \cup GroupsMade
      BY <2>5, PolicyIdTypes
    <3>2. ResolvePolicyTenants(p) \subseteq UserIds \cup GroupIds
      BY <3>1, IdsApart
    <3>3. access \in Grants /\ access.id \in 0..MaxMade /\ access.to \subseteq TenantIds
      BY DEF TypeOK, Grants
    <3>4. access.id \in 0..(2 * MaxMade)
      BY <3>3, BoundsAssumption
    <3>5. ready \in Statuses /\ ready.id = access.id /\ ready.ids = ResolvePolicyTenants(p)
      BY <3>2, <3>4, StatusTypes
    <3>6. CASE /\ ~PolicyNeedsUpdate(p) /\ Conclude(p, ready, FALSE, FALSE)
               /\ UNCHANGED <<access, events>>
      <4>1. Ended(p, ready)
        BY <2>1, <3>5, <3>6, ConcludeEnds
      <4>2. ResolvePolicyTenants(p) \subseteq access.to
        BY <3>6 DEF PolicyNeedsUpdate
      <4> HIDE DEF ready
      <4>3. QED
        BY <2>1, <2>5, <3>1, <3>5, <3>6, <4>1, <4>2 DEF PolicyDone, TypeOK
    <3>7. CASE /\ ResolvePolicyTenants(p) \subseteq Existing
               /\ access' = [access EXCEPT !.to = MergeTenantRefs(p)]
               /\ Conclude(p, ready, FALSE, TRUE) /\ UNCHANGED events
      <4>1. Ended(p, ready)
        BY <2>1, <3>5, <3>7, ConcludeEnds
      <4>2. /\ access' \in Grants /\ access'.id = access.id
            /\ access'.to = access.to \cup ResolvePolicyTenants(p)
        BY <3>2, <3>3, <3>7 DEF Grants, MergeTenantRefs, TenantIds
      <4> HIDE DEF ready
      <4>3. QED
        BY <2>1, <2>5, <3>1, <3>5, <3>7, <4>1, <4>2 DEF PolicyDone, TypeOK
    <3>8. CASE Conclude(p, MarkNotReady(p), TRUE, FALSE) /\ UNCHANGED <<access, events>>
      <4>1. Ended(p, MarkNotReady(p))
        BY <2>1, <3>8, ConcludeEnds, StatusTypes
      <4>2. QED
        BY <2>1, <2>5, <3>8, <4>1, StatusTypes DEF PolicyDone, TypeOK
    <3>9. QED
      BY <2>5, <3>6, <3>7, <3>8 DEF ReconcileExistingPolicy
  <2>6. CASE /\ PolicyDependencies(p) = {} /\ access.id = None
             /\ made.policy < MaxMade /\ ResolvePolicyTenants(p) \subseteq Existing
             /\ made' = [made EXCEPT !.policy = @ + 1]
             /\ access' = [id |-> made.policy + 1, to |-> ResolvePolicyTenants(p)]
             /\ \/ /\ Conclude(p, MarkReady(p, made.policy + 1, ResolvePolicyTenants(p)), FALSE, TRUE)
                   /\ UNCHANGED events
                \/ Failing /\ Conclude(p, MarkNotReady(p), TRUE, FALSE)
             /\ UNCHANGED <<tenants, members, groups>>
    <3> DEFINE ready == MarkReady(p, made.policy + 1, ResolvePolicyTenants(p))
    <3>1. ResolvePolicyTenants(p) \subseteq UsersMade \cup GroupsMade
      BY <2>6, PolicyIdTypes
    <3>2. ResolvePolicyTenants(p) \subseteq UserIds \cup GroupIds
      BY <3>1, IdsApart
    <3>3. made.policy + 1 \in 0..MaxMade /\ made.policy + 1 \in 0..(2 * MaxMade) /\ made.policy + 1 # None
      BY <2>6, IdsApart, BoundsAssumption DEF None
    <3>4. /\ ready \in Statuses /\ ready.id = made.policy + 1
          /\ ready.ids = ResolvePolicyTenants(p)
      BY <3>2, <3>3, StatusTypes
    <3>5. /\ access' \in Grants /\ access'.id = made.policy + 1
          /\ access'.to = ResolvePolicyTenants(p)
      BY <2>6, <3>2, <3>3 DEF Grants, TenantIds
    <3>6. made' \in Counts /\ made'.user = made.user /\ made'.group = made.group
      BY <2>6, <3>3 DEF TypeOK, Counts
    <3>7. CASE Conclude(p, ready, FALSE, TRUE) /\ UNCHANGED events
      <4>1. Ended(p, ready)
        BY <2>1, <3>4, <3>7, ConcludeEnds
      <4>2. events' \in 0..MaxEvents
        BY <3>7 DEF TypeOK
      <4> HIDE DEF ready
      <4>3. QED
        BY <2>1, <2>6, <3>1, <3>3, <3>4, <3>5, <3>6, <4>1, <4>2 DEF PolicyDone
    <3>8. CASE Failing /\ Conclude(p, MarkNotReady(p), TRUE, FALSE)
      <4>1. Ended(p, MarkNotReady(p)) /\ events' \in 0..MaxEvents
        BY <2>1, <3>8, ConcludeEnds, StatusTypes, EventsTypes DEF Failing
      <4>2. QED
        BY <2>1, <2>6, <3>3, <3>5, <3>6, <4>1, StatusTypes DEF PolicyDone
    <3>9. QED
      BY <2>6, <3>7, <3>8
  <2>7. QED
    BY <1>2, <2>2, <2>3, <2>4, <2>5, <2>6 DEF ReconcilePolicy, CreateAccessPolicy
<1>3. QED
  BY <1>1, <1>2

-----------------------------------------------------------------------------
(* What a deletion does *)

\* The tenant is gone from everywhere in NiFi.
TenantRemoved(id) ==
  /\ tenants' \in [UserIds -> Identities] /\ members' \in [GroupIds -> SUBSET UserIds]
  /\ access' \in Grants /\ made' = made
  /\ LiveUsers' = LiveUsers \ {id} /\ groups' = groups \ {id} /\ Existing' = Existing \ {id}
  /\ access'.id = access.id /\ access'.to = access.to \ {id}
  /\ \A g \in GroupIds \ {id} : members'[g] = members[g] \ {id}
  /\ \A g \in GroupIds : members'[g] \subseteq members[g] \ {id}

\* RemoveTenant does so, for whoever is not the administrator.
LEMMA RemoveTenantRemoves ==
  ASSUME TypeOK, NEW id \in 0..(2 * MaxMade), RemoveTenant(id)
  PROVE  TenantRemoved(id)
<1>1. /\ tenants' = [t \in UserIds |-> IF t = id THEN Nobody ELSE tenants[t]]
      /\ groups' = groups \ {id}
      /\ members' = [g \in GroupIds |-> IF g = id THEN {} ELSE members[g] \ {id}]
      /\ access' = [access EXCEPT !.to = @ \ {id}] /\ made' = made
  BY DEF RemoveTenant
<1>2. tenants' \in [UserIds -> Identities]
  BY <1>1 DEF TypeOK, Identities
<1>3. /\ members' \in [GroupIds -> SUBSET UserIds]
      /\ \A g \in GroupIds \ {id} : members'[g] = members[g] \ {id}
      /\ \A g \in GroupIds : members'[g] \subseteq members[g] \ {id}
  BY <1>1 DEF TypeOK
<1>4. access' \in Grants /\ access'.id = access.id /\ access'.to = access.to \ {id}
  BY <1>1 DEF TypeOK, Grants
<1>5. LiveUsers' = LiveUsers \ {id}
  BY <1>1 DEF LiveUsers, UserExists
<1>6. id # Admin
  BY BoundsAssumption DEF Admin
<1>7. Existing' = Existing \ {id}
  BY <1>1, <1>5, <1>6 DEF Existing, LiveUsers
<1>8. QED
  BY <1>1, <1>2, <1>3, <1>4, <1>5, <1>7 DEF TenantRemoved

\* The finalizer of x is dropped or not; who still rests rested before.
Dropped(x) ==
  /\ life' = life \/ life' = [life EXCEPT ![x] = "gone"]
  /\ life' \in [Objects -> {"live", "deleting", "gone"}]
  /\ queued' \in [Objects -> BOOLEAN] /\ losses' \in 0..MaxEvents
  /\ \A y \in Objects : life'[y] = "live" /\ ~queued'[y] => ~queued[y]

\* DropFinalizer does so, and so does a reconcile that will try again.
LEMMA DropFinalizerDrops ==
  ASSUME TypeOK, NEW x \in Objects, life[x] = "deleting",
         DropFinalizer(x) \/ UNCHANGED <<life, queued, losses>>
  PROVE  Dropped(x)
<1>0. queued \in [Objects -> BOOLEAN] /\ life \in [Objects -> {"live", "deleting", "gone"}]
  BY DEF TypeOK
<1>1. CASE UNCHANGED <<life, queued, losses>>
  BY <1>1 DEF Dropped, TypeOK
<1>2. CASE Lost /\ UNCHANGED <<life, queued>>
  <2>1. losses' = losses + 1 /\ events + losses < MaxEvents
    BY <1>2 DEF Lost
  <2>2. losses' \in 0..MaxEvents
    BY <2>1, BoundsAssumption DEF TypeOK
  <2>3. QED
    BY <1>0, <1>2, <2>2 DEF Dropped
<1>3. CASE /\ life' = [life EXCEPT ![x] = "gone"]
           /\ queued' = [y \in Objects |-> y # x /\ life[y] # "gone" /\ (queued[y] \/ y \in Wakes(x))]
           /\ UNCHANGED losses
  <2>1. queued' \in [Objects -> BOOLEAN]
    <3>1. \A y \in Objects :
            (y # x /\ life[y] # "gone" /\ (queued[y] \/ y \in Wakes(x))) \in BOOLEAN
      BY <1>0, Zenon
    <3>2. QED
      BY <1>3, <3>1, Zenon
  <2>2. losses' \in 0..MaxEvents
    BY <1>3 DEF TypeOK
  <2>3. life' \in [Objects -> {"live", "deleting", "gone"}]
    BY <1>0, <1>3
  <2>4. ASSUME NEW y \in Objects, life'[y] = "live", ~queued'[y]
        PROVE  ~queued[y]
    <3>1. y # x /\ life[y] = "live"
      BY <1>0, <1>3, <2>4
    <3>2. QED
      BY <1>3, <2>4, <3>1
  <2>5. QED
    BY <1>3, <2>1, <2>2, <2>3, <2>4 DEF Dropped
<1>4. QED
  BY <1>1, <1>2, <1>3 DEF DropFinalizer

-----------------------------------------------------------------------------
(* Facts that the steps below share *)

\* Who is settled after a reconcile of another resource was settled before, and nothing
\* that it names has changed: otherwise it would have been woken.
LEMMA SettledStays ==
  ASSUME TypeOK, NEW x \in Objects, NEW s \in Statuses, Ended(x, s), UNCHANGED <<refs, life>>,
         NEW y \in {Group} \cup Policies, y # x, Settled(y)'
  PROVE  Settled(y) /\ status'[y] = status[y] /\ CurrentIds(y)' = CurrentIds(y)
<1>0. y \in Objects /\ status \in [Objects -> Statuses]
  BY DEF Objects, TypeOK
<1>1. life[y] = "live" /\ ~queued'[y] /\ status'[y].why = "Ready" /\ status'[y].seen
  BY DEF Settled
<1>2. ~queued[y] /\ (status' = status \/ y \notin Wakes(x))
  BY <1>0, <1>1 DEF Ended
<1>3. status' = status \/ status' = [status EXCEPT ![x] = s]
  BY DEF Ended
<1>4. status'[y] = status[y]
  BY <1>0, <1>3
<1>5. refs[y] \subseteq Users \cup {Group} /\ refs[Group] \subseteq Users
  BY DEF TypeOK
<1>6. y \notin Wakes(x) => x \notin refs[y]
  BY <1>5, ObjectsAssumption
     DEF Objects, Wakes, RequestsForMemberUser, RequestsForPolicyUser, RequestsForPolicyUserGroup
<1>7. \A z \in refs[y] : status'[z] = status[z]
  BY <1>0, <1>2, <1>3, <1>5, <1>6 DEF Objects
<1>8. CurrentIds(y)' = CurrentIds(y)
  BY <1>7 DEF CurrentIds
<1>9. QED
  BY <1>1, <1>2, <1>4, <1>8 DEF Settled

\* Who is settled after a reconcile of its own had nothing to write.
LEMMA SettledSelf ==
  ASSUME NEW x \in Objects, NEW s \in Statuses, Ended(x, s), UNCHANGED life, Settled(x)'
  PROVE  status' = status /\ s = status[x] /\ s.why = "Ready"
BY DEF Settled, Ended

\* A tenant that exists is still named by whoever named it, if the tenants change their
\* ids only once they are gone.
LEMMA NamesStay ==
  ASSUME TypeOK, UNCHANGED refs,
         \A x \in Tenants : status'[x].id = status[x].id \/ status[x].id \notin Existing,
         NEW q \in Policies, NEW id \in Existing, id \in ResolvePolicyTenants(q)
  PROVE  id \in ResolvePolicyTenants(q)'
<1>1. PICK x \in refs[q] : id = status[x].id
  BY DEF ResolvePolicyTenants
<1>2. x \in Tenants
  BY DEF TypeOK, Tenants
<1>3. status'[x].id = id
  BY <1>1, <1>2
<1>4. QED
  BY <1>1, <1>3 DEF ResolvePolicyTenants

\* What policies recorded stays revocable while only tenants change.
LEMMA TenantsKeepRevocable ==
  ASSUME TypeOK, IdsMade, Revocable, UNCHANGED <<refs, access, edited>>,
         cluster = "gone" => cluster' = "gone",
         \A p \in Policies : /\ life'[p] = life[p] /\ purge'[p] = purge[p]
                             /\ status'[p].id = status[p].id /\ status'[p].ids = status[p].ids
                             /\ status[p].ids \cap Existing' \subseteq Existing,
         \A x \in Tenants : status'[x].id = status[x].id \/ status[x].id \notin Existing
  PROVE  Revocable'
<1>1. SUFFICES ASSUME ~edited
               PROVE  (RecordsNamed /\ LiveRevocable /\ DeletingRevocable /\ GoneRevoked)'
  BY DEF Revocable
<1>2. RecordsNamed /\ LiveRevocable /\ DeletingRevocable /\ GoneRevoked
  BY <1>1 DEF Revocable
<1>3. \A p \in Policies, id \in Existing : Named(p, id) => Named(p, id)'
  BY NamesStay DEF Named
<1>4. access.to \subseteq Existing
  BY DEF IdsMade
<1>5. RecordsNamed'
  BY <1>2, NamesStay DEF RecordsNamed
<1>6. LiveRevocable'
  BY <1>2, <1>3 DEF LiveRevocable
<1>7. DeletingRevocable'
  BY <1>2, <1>3, <1>4 DEF DeletingRevocable
<1>8. GoneRevoked'
  BY <1>2, <1>3, <1>4 DEF GoneRevoked
<1>9. QED
  BY <1>5, <1>6, <1>7, <1>8

-----------------------------------------------------------------------------
(* The invariant is kept: reconciles *)

\* Reconciles of users keep the invariant.
LEMMA UsersKeep ==
  ASSUME AccessInv, NEW u \in Users, NEW s \in Statuses, UserDone(u, s)
  PROVE  AccessInv'
<1> USE DEF AccessInv
<1>0. u \in Objects /\ u \in Tenants /\ u # Group /\ u \notin Policies
  BY ObjectsAssumption DEF Objects, Tenants
<1>1. /\ Ended(u, s) /\ UNCHANGED <<identity, refs, purge, life, cluster, edited, members, groups, access>>
      /\ events' \in 0..MaxEvents /\ tenants' \in [UserIds -> Identities]
  BY DEF UserDone, specs
<1>2. status' = status \/ status' = [status EXCEPT ![u] = s]
  BY <1>1 DEF Ended
<1>3. status \in [Objects -> Statuses]
  BY DEF TypeOK
<1>4. \A x \in Objects \ {u} : status'[x] = status[x]
  BY <1>2, <1>3
<1>5. status'[u].id = status[u].id \/ status'[u].id = s.id
  BY <1>2, <1>3, <1>0
<1>6. /\ status[u].id \in UserIds \cup {None}
      /\ LiveUsers \subseteq UsersMade
  BY IdsApart DEF IdsMade
<1>7. \/ /\ made' = made /\ LiveUsers' = LiveUsers
         /\ s.id = status[u].id \/ (status[u].id \notin LiveUsers /\ s.id \in LiveUsers)
      \/ /\ made.user < MaxMade /\ made' = [made EXCEPT !.user = @ + 1]
         /\ LiveUsers' = LiveUsers \cup {made.user + 1}
         /\ status[u].id \notin LiveUsers /\ s.id \in {status[u].id, made.user + 1}
  BY DEF UserDone
<1>8. made' \in Counts /\ made'.group = made.group
  BY <1>7, IdsApart, BoundsAssumption DEF TypeOK, Counts
<1>9. TypeOK'
  BY <1>1, <1>8 DEF TypeOK, Ended
<1>10. UsersMade \subseteq UsersMade' /\ GroupsMade' = GroupsMade
  BY <1>7, <1>8, IdsApart, BoundsAssumption DEF UsersMade, GroupsMade, TypeOK, Counts
<1>11. LiveUsers' \subseteq UsersMade'
  BY <1>6, <1>7, <1>10, IdsApart, BoundsAssumption DEF UsersMade, TypeOK, Counts
<1>12. LiveUsers \subseteq LiveUsers' /\ Existing' = LiveUsers' \cup groups \cup {Admin}
  BY <1>1, <1>7 DEF Existing, LiveUsers
<1>13. \A id \in LiveUsers' \ LiveUsers : id \notin UsersMade \cup GroupsMade
  BY <1>7, IdsApart, BoundsAssumption DEF UsersMade, GroupsMade, GroupIds
<1>14. status[u].id \in Existing => status[u].id \in LiveUsers
  BY <1>6, IdsApart DEF TypeOK
<1>15. status'[u].id = status[u].id \/ status[u].id \notin Existing
  BY <1>5, <1>7, <1>14
<1>16. status'[u].id \in {None} \cup UsersMade'
  BY <1>5, <1>6, <1>7, <1>10, IdsApart, BoundsAssumption DEF IdsMade, UsersMade, TypeOK, Counts
<1>17. IdsMade'
  <2>1. \A v \in Users : status'[v].id \in {None} \cup UsersMade'
    BY <1>4, <1>10, <1>16 DEF IdsMade, Objects
  <2>2. status'[Group] = status[Group]
    BY <1>0, <1>4 DEF Objects
  <2>3. \A p \in Policies : status'[p] = status[p]
    BY <1>0, <1>4 DEF Objects
  <2>4. access.to \subseteq Existing'
    BY <1>12, IdsApart DEF IdsMade
  <2>5. QED
    BY <1>1, <1>10, <1>11, <1>12, <2>1, <2>2, <2>3, <2>4 DEF IdsMade
<1>18. \A y \in {Group} \cup Policies :
         Settled(y)' => Settled(y) /\ status'[y] = status[y] /\ CurrentIds(y)' = CurrentIds(y)
  BY <1>0, <1>1, SettledStays
<1>19. Recorded'
  BY <1>18 DEF Recorded
<1>20. \A y \in {Group} \cup Policies :
         Settled(y) => CurrentIds(y) \cap Existing' \subseteq Existing
  <2>1. \A x \in Tenants : status[x].id \in {None} \cup UsersMade \cup GroupsMade
    BY DEF IdsMade, Tenants
  <2>2. \A y \in {Group} \cup Policies : refs[y] \subseteq Tenants
    BY DEF TypeOK, Tenants
  <2>3. \A y \in {Group} \cup Policies : CurrentIds(y) \subseteq {None} \cup UsersMade \cup GroupsMade
    BY <2>1, <2>2 DEF CurrentIds
  <2>4. None \notin Existing'
    BY <1>12, IdsApart DEF TypeOK, LiveUsers
  <2>5. QED
    BY <1>12, <1>13, <2>3, <2>4, IdsApart
<1>21. MembersFollow'
  <2>1. SUFFICES ASSUME Settled(Group)', GroupExists(status[Group].id)'
                 PROVE  members'[status'[Group].id] = CurrentIds(Group)' \cap Existing'
    BY DEF MembersFollow
  <2>2. Settled(Group) /\ status'[Group] = status[Group] /\ CurrentIds(Group)' = CurrentIds(Group)
    BY <1>18, <2>1
  <2>3. GroupExists(status[Group].id)
    BY <1>1, <2>1, <2>2 DEF GroupExists
  <2>4. members[status[Group].id] = CurrentIds(Group) \cap Existing
    BY <2>2, <2>3 DEF MembersFollow
  <2>5. CurrentIds(Group) \cap Existing' = CurrentIds(Group) \cap Existing
    BY <1>12, <1>20, <2>2, IdsApart
  <2>6. QED
    BY <1>1, <2>2, <2>4, <2>5
<1>22. GrantsFollow'
  <2>1. SUFFICES ASSUME NEW p \in Policies, Settled(p)',
                        \A q \in Policies \ {p} :
                          life'[q] = "live" \/ status'[q].ids \cap status'[p].ids = {}
                 PROVE  CurrentIds(p)' \cap Existing' \subseteq access'.to
    BY DEF GrantsFollow
  <2>2. Settled(p) /\ CurrentIds(p)' = CurrentIds(p)
    BY <1>18, <2>1
  <2>3. \A q \in Policies : status'[q] = status[q]
    BY <1>0, <1>4 DEF Objects
  <2>4. CurrentIds(p) \cap Existing \subseteq access.to
    BY <1>1, <2>1, <2>2, <2>3 DEF GrantsFollow
  <2>5. QED
    BY <1>1, <1>20, <2>2, <2>4
<1>23. Revocable'
  <2>1. \A p \in Policies : status'[p] = status[p]
    BY <1>0, <1>4 DEF Objects
  <2>2. \A p \in Policies : status[p].ids \cap Existing' \subseteq Existing
    BY <1>12, <1>13, IdsApart DEF IdsMade
  <2>3. \A x \in Tenants : status'[x].id = status[x].id \/ status[x].id \notin Existing
    BY <1>4, <1>15 DEF Objects, Tenants
  <2>4. QED
    BY <1>1, <2>1, <2>2, <2>3, TenantsKeepRevocable
<1>24. QED
  BY <1>9, <1>17, <1>19, <1>21, <1>22, <1>23

\* Reconciles of the group keep the invariant.
LEMMA GroupsKeep ==
  ASSUME AccessInv, NEW s \in Statuses, GroupDone(s)
  PROVE  AccessInv'
<1> USE DEF AccessInv
<1>0. Group \in Objects /\ Group \in Tenants /\ Group \notin Users /\ Group \notin Policies
  BY ObjectsAssumption DEF Objects, Tenants
<1>1. /\ Ended(Group, s) /\ UNCHANGED <<identity, refs, purge, life, cluster, edited, tenants, access>>
      /\ events' \in 0..MaxEvents /\ members' \in [GroupIds -> SUBSET UserIds]
      /\ \A g \in GroupIds : members'[g] \subseteq LiveUsers
      /\ s.why = "Ready" =>
           members'[s.id] = ResolveMemberIds /\ ResolveMemberIds \subseteq Existing
  BY DEF GroupDone, specs
<1>2. status' = status \/ status' = [status EXCEPT ![Group] = s]
  BY <1>1 DEF Ended
<1>3. status \in [Objects -> Statuses]
  BY DEF TypeOK
<1>4. \A x \in Objects \ {Group} : status'[x] = status[x]
  BY <1>2, <1>3
<1>5. status'[Group].id = status[Group].id \/ status'[Group].id = s.id
  BY <1>2, <1>3, <1>0
<1>6. /\ status[Group].id \in GroupIds \cup {None} /\ status[Group].id \in GroupsMade \cup {None}
      /\ groups \subseteq GroupsMade
  BY IdsApart DEF IdsMade
<1>7. \/ /\ made' = made /\ groups' = groups
         /\ s.id = status[Group].id \/ (status[Group].id \notin groups /\ s.id \in groups)
      \/ /\ made.group < MaxMade /\ made' = [made EXCEPT !.group = @ + 1]
         /\ groups' = groups \cup {MaxMade + made.group + 1}
         /\ status[Group].id \notin groups
         /\ s.id \in {status[Group].id, MaxMade + made.group + 1}
  BY DEF GroupDone
<1>8. made' \in Counts /\ made'.user = made.user
  BY <1>7, IdsApart, BoundsAssumption DEF TypeOK, Counts
<1>9. GroupsMade \subseteq GroupsMade' /\ UsersMade' = UsersMade /\ groups' \subseteq GroupsMade'
  BY <1>6, <1>7, <1>8, IdsApart, BoundsAssumption DEF UsersMade, GroupsMade, TypeOK, Counts
<1>10. groups' \subseteq GroupIds
  BY <1>6, <1>7, IdsApart, BoundsAssumption DEF GroupIds, TypeOK
<1>11. TypeOK'
  BY <1>1, <1>8, <1>10 DEF TypeOK, Ended
<1>12. /\ groups \subseteq groups' /\ LiveUsers' = LiveUsers
       /\ Existing' = LiveUsers \cup groups' \cup {Admin}
  BY <1>1, <1>7 DEF Existing, LiveUsers, UserExists
<1>13. \A id \in groups' \ groups : id \notin UsersMade \cup GroupsMade
  BY <1>7, IdsApart, BoundsAssumption DEF UsersMade, GroupsMade, UserIds
<1>14. status[Group].id \in Existing => status[Group].id \in groups
  BY <1>6, IdsApart DEF TypeOK
<1>15. status'[Group].id = status[Group].id \/ status[Group].id \notin Existing
  BY <1>5, <1>7, <1>14
<1>16. status'[Group].id \in {None} \cup GroupsMade'
  BY <1>5, <1>6, <1>7, <1>9, IdsApart, BoundsAssumption DEF GroupsMade, TypeOK, Counts
<1>17. \A p \in Policies : status'[p] = status[p]
  BY <1>0, <1>4 DEF Objects
<1>18. IdsMade'
  <2>1. \A v \in Users : status'[v] = status[v]
    BY <1>0, <1>4 DEF Objects
  <2>2. access.to \subseteq Existing'
    BY <1>12, IdsApart DEF IdsMade
  <2>3. QED
    BY <1>1, <1>9, <1>12, <1>16, <1>17, <2>1, <2>2 DEF IdsMade
<1>19. \A p \in Policies :
         Settled(p)' => Settled(p) /\ status'[p] = status[p] /\ CurrentIds(p)' = CurrentIds(p)
  BY <1>0, <1>1, SettledStays
<1>20. Recorded'
  BY <1>19 DEF Recorded
<1>21. MembersFollow'
  <2>1. SUFFICES ASSUME Settled(Group)', GroupExists(status[Group].id)'
                 PROVE  members'[status'[Group].id] = CurrentIds(Group)' \cap Existing'
    BY DEF MembersFollow
  <2>2. status' = status /\ s = status[Group] /\ s.why = "Ready"
    BY <1>0, <1>1, <2>1, SettledSelf
  <2>3. members'[status'[Group].id] = ResolveMemberIds /\ ResolveMemberIds \subseteq Existing
    BY <1>1, <2>2
  <2>4. CurrentIds(Group)' = CurrentIds(Group)
    BY <1>1, <2>2 DEF CurrentIds
  <2>5. ResolveMemberIds = CurrentIds(Group) \ {None}
    BY DEF ResolveMemberIds, CurrentIds
  <2>6. None \notin Existing'
    BY <1>10, <1>12, IdsApart
  <2>7. ResolveMemberIds \subseteq Existing'
    BY <1>12, <2>3, IdsApart
  <2>8. QED
    BY <2>3, <2>4, <2>5, <2>6, <2>7
<1>22. GrantsFollow'
  <2>1. SUFFICES ASSUME NEW p \in Policies, Settled(p)',
                        \A q \in Policies \ {p} :
                          life'[q] = "live" \/ status'[q].ids \cap status'[p].ids = {}
                 PROVE  CurrentIds(p)' \cap Existing' \subseteq access'.to
    BY DEF GrantsFollow
  <2>2. Settled(p) /\ CurrentIds(p)' = CurrentIds(p)
    BY <1>19, <2>1
  <2>3. CurrentIds(p) \cap Existing \subseteq access.to
    BY <1>1, <1>17, <2>1, <2>2 DEF GrantsFollow
  <2>4. CurrentIds(p) \subseteq UsersMade \cup GroupsMade
    BY <2>2 DEF Recorded, IdsMade
  <2>5. QED
    BY <1>1, <1>12, <1>13, <2>2, <2>3, <2>4, IdsApart
<1>23. Revocable'
  <2>1. \A p \in Policies : status[p].ids \cap Existing' \subseteq Existing
    BY <1>12, <1>13, IdsApart DEF IdsMade
  <2>2. \A x \in Tenants : status'[x].id = status[x].id \/ status[x].id \notin Existing
    BY <1>4, <1>15 DEF Objects, Tenants
  <2>3. QED
    BY <1>1, <1>17, <2>1, <2>2, TenantsKeepRevocable
<1>24. QED
  BY <1>11, <1>18, <1>20, <1>21, <1>22, <1>23

\* Reconciles of policies keep the invariant.
LEMMA PoliciesKeep ==
  ASSUME AccessInv, NEW p \in Policies, NEW s \in Statuses, life[p] = "live", PolicyDone(p, s)
  PROVE  AccessInv'
<1> USE DEF AccessInv
<1>0. p \in Objects /\ p # Group /\ p \notin Tenants
  BY ObjectsAssumption DEF Objects, Tenants
<1>1. /\ Ended(p, s)
      /\ UNCHANGED <<identity, refs, purge, life, cluster, edited, tenants, members, groups>>
      /\ events' \in 0..MaxEvents /\ access' \in Grants /\ made' \in Counts
      /\ made'.user = made.user /\ made'.group = made.group
  BY DEF PolicyDone, specs
<1>2. \/ access' = access
      \/ /\ access.id # None /\ access'.id = access.id
         /\ access'.to = access.to \cup ResolvePolicyTenants(p)
         /\ ResolvePolicyTenants(p) \subseteq Existing
      \/ /\ access.id = None /\ access'.id # None
         /\ access'.to = ResolvePolicyTenants(p)
         /\ ResolvePolicyTenants(p) \subseteq Existing
  BY DEF PolicyDone
<1>3. \/ s.id = status[p].id /\ s.ids = status[p].ids /\ s.why # "Ready"
      \/ /\ s.id = access'.id /\ access'.id # None
         /\ s.ids = ResolvePolicyTenants(p) /\ ResolvePolicyTenants(p) \subseteq access'.to
         /\ ResolvePolicyTenants(p) \subseteq UsersMade \cup GroupsMade
  BY DEF PolicyDone
<1>4. status' = status \/ status' = [status EXCEPT ![p] = s]
  BY <1>1 DEF Ended
<1>5. status \in [Objects -> Statuses]
  BY DEF TypeOK
<1>6. \A x \in Objects \ {p} : status'[x] = status[x]
  BY <1>4, <1>5
<1>7. status'[p] = status[p] \/ status'[p] = s
  BY <1>0, <1>4, <1>5
<1>8. \A x \in Tenants : status'[x] = status[x]
  BY <1>0, <1>6 DEF Objects, Tenants
<1>9. \A y \in {Group} \cup Policies : refs[y] \subseteq Tenants
  BY DEF TypeOK, Tenants
<1>10. /\ \A q \in Policies : ResolvePolicyTenants(q)' = ResolvePolicyTenants(q)
       /\ \A y \in {Group} \cup Policies : CurrentIds(y)' = CurrentIds(y)
  BY <1>1, <1>8, <1>9 DEF ResolvePolicyTenants, CurrentIds
<1>11. Existing' = Existing /\ LiveUsers' = LiveUsers
  BY <1>1 DEF Existing, LiveUsers, UserExists
<1>12. UsersMade' = UsersMade /\ GroupsMade' = GroupsMade
  BY <1>1 DEF UsersMade, GroupsMade
<1>13. access.to \subseteq Existing /\ (access.id = None => access.to = {})
  BY DEF IdsMade
<1>14. access.to \subseteq access'.to
  BY <1>2, <1>13
<1>15. TypeOK'
  BY <1>1 DEF TypeOK, Ended
<1>16. IdsMade'
  <2>1. \A u \in Users : status'[u] = status[u]
    BY <1>8 DEF Tenants
  <2>2. status'[Group] = status[Group]
    BY <1>8 DEF Tenants
  <2>3. \A q \in Policies :
          /\ status'[q].ids \subseteq UsersMade \cup GroupsMade
          /\ status'[q].id = None => status'[q].ids = {}
    BY <1>3, <1>6, <1>7 DEF IdsMade, Objects
  <2>4. access'.to \subseteq Existing /\ (access'.id = None => access'.to = {})
    BY <1>2, <1>13
  <2>5. QED
    BY <1>1, <1>11, <1>12, <2>1, <2>2, <2>3, <2>4 DEF IdsMade
<1>17. \A y \in ({Group} \cup Policies) \ {p} :
         Settled(y)' => Settled(y) /\ status'[y] = status[y] /\ CurrentIds(y)' = CurrentIds(y)
  BY <1>0, <1>1, SettledStays
<1>18. Settled(p)' =>
         /\ status'[p].ids = ResolvePolicyTenants(p)
         /\ ResolvePolicyTenants(p) \subseteq access'.to
  <2>1. SUFFICES ASSUME Settled(p)'
                 PROVE  /\ status'[p].ids = ResolvePolicyTenants(p)
                        /\ ResolvePolicyTenants(p) \subseteq access'.to
    OBVIOUS
  <2>2. status' = status /\ s = status[p] /\ s.why = "Ready"
    BY <1>0, <1>1, <2>1, SettledSelf
  <2>3. QED
    BY <1>3, <2>2
<1>19. CurrentIds(p) = ResolvePolicyTenants(p)
  BY DEF CurrentIds, ResolvePolicyTenants
<1>20. Recorded'
  BY <1>10, <1>17, <1>18, <1>19 DEF Recorded
<1>21. MembersFollow'
  <2>1. SUFFICES ASSUME Settled(Group)', GroupExists(status[Group].id)'
                 PROVE  members'[status'[Group].id] = CurrentIds(Group)' \cap Existing'
    BY DEF MembersFollow
  <2>2. Settled(Group) /\ status'[Group] = status[Group] /\ CurrentIds(Group)' = CurrentIds(Group)
    BY <1>0, <1>17, <2>1
  <2>3. GroupExists(status[Group].id)
    BY <1>1, <2>1, <2>2 DEF GroupExists
  <2>4. QED
    BY <1>1, <1>11, <2>2, <2>3 DEF MembersFollow
<1>22. GrantsFollow'
  <2>1. SUFFICES ASSUME NEW r \in Policies, Settled(r)',
                        \A q \in Policies \ {r} :
                          life'[q] = "live" \/ status'[q].ids \cap status'[r].ids = {}
                 PROVE  CurrentIds(r)' \cap Existing' \subseteq access'.to
    BY DEF GrantsFollow
  <2>2. CASE r = p
    BY <1>10, <1>18, <1>19, <2>1, <2>2
  <2>3. CASE r # p
    <3>1. Settled(r) /\ status'[r] = status[r]
      BY <1>17, <2>1, <2>3
    <3>2. \A q \in Policies \ {r} : life[q] = "live" \/ status[q].ids \cap status[r].ids = {}
      BY <1>1, <1>6, <2>1, <3>1 DEF Objects
    <3>3. CurrentIds(r) \cap Existing \subseteq access.to
      BY <3>1, <3>2 DEF GrantsFollow
    <3>4. QED
      BY <1>10, <1>11, <1>14, <3>3
  <2>4. QED
    BY <2>2, <2>3
<1>23. Revocable'
  <2>1. SUFFICES ASSUME ~edited
                 PROVE  (RecordsNamed /\ LiveRevocable /\ DeletingRevocable /\ GoneRevoked)'
    BY <1>1 DEF Revocable
  <2>2. RecordsNamed /\ LiveRevocable /\ DeletingRevocable /\ GoneRevoked
    BY <2>1 DEF Revocable
  <2>3. \A id : \A q \in Policies : Named(q, id)' <=> Named(q, id)
    BY <1>10 DEF Named
  <2>4. \A q \in Policies \ {p}, id \in ResolvePolicyTenants(p) : Named(q, id)
    BY DEF Named
  <2>5. \A q \in Policies \ {p} : status'[q] = status[q]
    BY <1>6 DEF Objects
  <2>6. RecordsNamed'
    BY <1>3, <1>7, <1>10, <1>11, <2>2, <2>5 DEF RecordsNamed
  <2>7. \A q \in Policies, id \in Existing :
          (access.id = status[q].id /\ id \in access.to) =>
          (access'.id = status[q].id /\ id \in access'.to)
    BY <1>2, <1>13
  <2>8. LiveRevocable'
    <3>1. SUFFICES ASSUME NEW q \in Policies, life[q] = "live",
                          NEW id \in status'[q].ids \cap Existing
                   PROVE  (access'.id = status'[q].id /\ id \in access'.to) \/ Named(q, id)
      BY <1>1, <1>11, <2>3 DEF LiveRevocable
    <3>2. CASE status'[q].id = status[q].id /\ status'[q].ids = status[q].ids
      BY <2>2, <2>7, <3>1, <3>2 DEF LiveRevocable
    <3>3. CASE q = p /\ status'[q] = s /\ s.id = access'.id /\ s.ids \subseteq access'.to
      BY <3>1, <3>3
    <3>4. QED
      BY <1>3, <1>7, <2>5, <3>2, <3>3
  <2>9. \A q \in Policies : life[q] # "live" =>
          /\ status'[q] = status[q]
          /\ \A id \in access'.to : id \in access.to \/ Named(q, id)
    BY <1>2, <2>4, <2>5
  <2>10. \A q \in Policies : life[q] # "live" =>
          \A id \in access'.to : access'.id = access.id \/ Named(q, id)
    BY <1>2, <2>4
  <2>11. DeletingRevocable'
    BY <1>1, <2>2, <2>3, <2>9, <2>10 DEF DeletingRevocable
  <2>12. GoneRevoked'
    BY <1>1, <2>2, <2>3, <2>9 DEF GoneRevoked
  <2>13. QED
    BY <2>6, <2>8, <2>11, <2>12
<1>24. QED
  BY <1>15, <1>16, <1>20, <1>21, <1>22, <1>23

-----------------------------------------------------------------------------
(* The invariant is kept: deletions *)

\* Steps that leave NiFi and all recorded ids alone keep what settled resources say.
LEMMA QuietKeeps ==
  ASSUME AccessInv, TypeOK', UNCHANGED nifi, Revocable',
         \A x \in Objects : status'[x].id = status[x].id /\ status'[x].ids = status[x].ids,
         \A y \in {Group} \cup Policies : Settled(y)' => Settled(y) /\ refs'[y] = refs[y],
         \A p \in Policies : life'[p] = "live" => life[p] = "live"
  PROVE  AccessInv'
<1> USE DEF AccessInv
<1>1. UNCHANGED <<tenants, members, groups, access, made>>
  BY DEF nifi
<1>2. /\ Existing' = Existing /\ LiveUsers' = LiveUsers
      /\ UsersMade' = UsersMade /\ GroupsMade' = GroupsMade
  BY <1>1 DEF Existing, LiveUsers, UserExists, UsersMade, GroupsMade
<1>3. \A y \in {Group} \cup Policies : refs[y] \subseteq Objects
  BY DEF TypeOK, Objects
<1>4. \A y \in {Group} \cup Policies :
        Settled(y)' => Settled(y) /\ CurrentIds(y)' = CurrentIds(y)
  BY <1>3 DEF CurrentIds
<1>5. IdsMade'
  BY <1>1, <1>2 DEF IdsMade, Objects
<1>6. Recorded'
  BY <1>4 DEF Recorded, Objects
<1>7. MembersFollow'
  <2>1. SUFFICES ASSUME Settled(Group)', GroupExists(status[Group].id)'
                 PROVE  members'[status'[Group].id] = CurrentIds(Group)' \cap Existing'
    BY DEF MembersFollow
  <2>2. Settled(Group) /\ CurrentIds(Group)' = CurrentIds(Group)
    BY <1>4, <2>1
  <2>3. status'[Group].id = status[Group].id
    BY DEF Objects
  <2>4. GroupExists(status[Group].id)
    BY <1>1, <2>1, <2>3 DEF GroupExists
  <2>5. QED
    BY <1>1, <1>2, <2>2, <2>3, <2>4 DEF MembersFollow
<1>8. GrantsFollow'
  <2>1. SUFFICES ASSUME NEW p \in Policies, Settled(p)',
                        \A q \in Policies \ {p} :
                          life'[q] = "live" \/ status'[q].ids \cap status'[p].ids = {}
                 PROVE  CurrentIds(p)' \cap Existing' \subseteq access'.to
    BY DEF GrantsFollow
  <2>2. Settled(p) /\ CurrentIds(p)' = CurrentIds(p)
    BY <1>4, <2>1
  <2>3. \A q \in Policies \ {p} : life[q] = "live" \/ status[q].ids \cap status[p].ids = {}
    BY <2>1 DEF Objects
  <2>4. QED
    BY <1>1, <1>2, <2>2, <2>3 DEF GrantsFollow
<1>9. QED
  BY <1>5, <1>6, <1>7, <1>8

\* A tenant that goes, by a deletion or by somebody else's hand, goes from what is said
\* and from what is there alike.
LEMMA RemovalKeeps ==
  ASSUME AccessInv, NEW id \in 0..(2 * MaxMade), TenantRemoved(id), TypeOK',
         UNCHANGED <<refs, purge, status, cluster, edited>>,
         \A p \in Policies : life'[p] = life[p],
         \A y \in {Group} \cup Policies : Settled(y)' => Settled(y)
  PROVE  AccessInv'
<1> USE DEF AccessInv
<1>1. /\ made' = made /\ LiveUsers' = LiveUsers \ {id} /\ groups' = groups \ {id}
      /\ Existing' = Existing \ {id} /\ access'.id = access.id /\ access'.to = access.to \ {id}
      /\ \A g \in GroupIds \ {id} : members'[g] = members[g] \ {id}
      /\ \A g \in GroupIds : members'[g] \subseteq members[g] \ {id}
  BY DEF TenantRemoved
<1>2. UsersMade' = UsersMade /\ GroupsMade' = GroupsMade
  BY <1>1 DEF UsersMade, GroupsMade
<1>3. /\ \A y \in {Group} \cup Policies : CurrentIds(y)' = CurrentIds(y)
      /\ \A q \in Policies : ResolvePolicyTenants(q)' = ResolvePolicyTenants(q)
  BY DEF CurrentIds, ResolvePolicyTenants
<1>4. IdsMade'
  BY <1>1, <1>2 DEF IdsMade
<1>5. Recorded'
  BY <1>3 DEF Recorded
<1>6. MembersFollow'
  <2>1. SUFFICES ASSUME Settled(Group)', GroupExists(status[Group].id)'
                 PROVE  members'[status[Group].id] = CurrentIds(Group) \cap (Existing \ {id})
    BY <1>1, <1>3 DEF MembersFollow
  <2>2. Settled(Group) /\ status[Group].id \in groups \ {id}
    BY <1>1, <2>1 DEF GroupExists
  <2>3. members[status[Group].id] = CurrentIds(Group) \cap Existing
    BY <2>2 DEF MembersFollow, GroupExists
  <2>4. status[Group].id \in GroupIds \ {id}
    BY <2>2 DEF TypeOK
  <2>5. members'[status[Group].id] = members[status[Group].id] \ {id}
    BY <1>1, <2>4
  <2>6. QED
    BY <2>3, <2>5
<1>7. GrantsFollow'
  <2>1. SUFFICES ASSUME NEW p \in Policies, Settled(p)',
                        \A q \in Policies \ {p} :
                          life'[q] = "live" \/ status'[q].ids \cap status'[p].ids = {}
                 PROVE  CurrentIds(p)' \cap Existing' \subseteq access'.to
    BY DEF GrantsFollow
  <2>2. CurrentIds(p) \cap Existing \subseteq access.to
    BY <2>1 DEF GrantsFollow
  <2>3. QED
    BY <1>1, <1>3, <2>2
<1>8. Revocable'
  <2>1. SUFFICES ASSUME ~edited
                 PROVE  (RecordsNamed /\ LiveRevocable /\ DeletingRevocable /\ GoneRevoked)'
    BY DEF Revocable
  <2>2. RecordsNamed /\ LiveRevocable /\ DeletingRevocable /\ GoneRevoked
    BY <2>1 DEF Revocable
  <2>3. \A i : \A q \in Policies : Named(q, i)' <=> Named(q, i)
    BY <1>3 DEF Named
  <2>4. RecordsNamed'
    BY <1>1, <1>3, <2>2 DEF RecordsNamed
  <2>5. LiveRevocable'
    BY <1>1, <2>2, <2>3 DEF LiveRevocable
  <2>6. DeletingRevocable'
    BY <1>1, <2>2, <2>3 DEF DeletingRevocable
  <2>7. GoneRevoked'
    BY <1>1, <2>2, <2>3 DEF GoneRevoked
  <2>8. QED
    BY <2>4, <2>5, <2>6, <2>7
<1>9. QED
  BY <1>4, <1>5, <1>6, <1>7, <1>8

\* Deletions of users and of the group keep the invariant.
LEMMA DeleteTenantKeeps ==
  ASSUME AccessInv, NEW x \in Tenants, DeleteTenant(x)
  PROVE  AccessInv'
<1> USE DEF AccessInv
<1>0. x \in Objects /\ x \notin Policies
  BY ObjectsAssumption DEF Objects, Tenants
<1>1. life[x] = "deleting" /\ UNCHANGED <<identity, refs, purge, status, fresh, cluster, edited>>
  BY DEF DeleteTenant, Calls, Deleting, specs
<1>2. Dropped(x)
  BY <1>0, <1>1, DropFinalizerDrops DEF DeleteTenant, TryAgain
<1>3. events' \in 0..MaxEvents
  BY EventsTypes DEF DeleteTenant, Failing, TypeOK
<1>4. \A p \in Policies : life'[p] = life[p]
  BY <1>0, <1>2 DEF Dropped, TypeOK, Objects
<1>5. \A y \in {Group} \cup Policies : Settled(y)' => Settled(y)
  <2>1. SUFFICES ASSUME NEW y \in {Group} \cup Policies, Settled(y)'
                 PROVE  Settled(y)
    OBVIOUS
  <2>2. y \in Objects /\ life'[y] = "live" /\ ~queued'[y] /\ status[y].why = "Ready" /\ status[y].seen
    BY <1>1, <2>1 DEF Settled, Objects
  <2>3. life[y] = "live" /\ ~queued[y]
    BY <1>0, <1>2, <2>2 DEF Dropped, TypeOK
  <2>4. QED
    BY <2>2, <2>3 DEF Settled
<1>6. CASE UNCHANGED nifi
  <2>1. TypeOK'
    BY <1>1, <1>2, <1>3, <1>6 DEF TypeOK, Dropped, nifi
  <2>2. Revocable'
    <3>1. Existing' = Existing /\ UNCHANGED access
      BY <1>6 DEF Existing, UserExists, nifi
    <3>2. QED
      BY <1>1, <1>4, <3>1, TenantsKeepRevocable
  <2>3. QED
    BY <1>1, <1>4, <1>5, <1>6, <2>1, <2>2, QuietKeeps
<1>7. CASE RemoveTenant(status[x].id)
  <2>1. status[x].id \in 0..(2 * MaxMade)
    BY <1>0 DEF TypeOK, Statuses
  <2>2. TenantRemoved(status[x].id)
    BY <1>7, <2>1, RemoveTenantRemoves
  <2>3. groups' \subseteq GroupIds
    BY <2>2 DEF TypeOK, TenantRemoved
  <2>4. TypeOK'
    BY <1>1, <1>2, <1>3, <2>2, <2>3 DEF TypeOK, Dropped, TenantRemoved
  <2>5. QED
    BY <1>1, <1>4, <1>5, <2>1, <2>2, <2>4, RemovalKeeps
<1>8. QED
  BY <1>6, <1>7 DEF DeleteTenant, TryAgain

\* A deletion of a policy takes from the access policy only what the policy recorded, and
\* all of that before the policy is gone, if the access policy is still the one it had.
PolicyGone(p) ==
  /\ Dropped(p) /\ fresh' \in [Objects -> BOOLEAN] /\ events' \in 0..MaxEvents
  /\ UNCHANGED <<specs, status, cluster, edited, tenants, members, groups, made>>
  /\ access' \in Grants
  /\ access'.to \subseteq access.to /\ access.to \ access'.to \subseteq status[p].ids
  /\ access'.id = access.id \/ access'.to = {}
  /\ access'.id = None => access'.to = {}
  /\ \/ life' = life
     \/ status[p].id = access.id /\ access'.to \cap status[p].ids = {}
     \/ status[p].id # access.id /\ access' = access

\* DeletePolicy does so.
LEMMA DeletePolicyDoes ==
  ASSUME TypeOK, IdsMade, NEW p \in Policies, DeletePolicy(p)
  PROVE  PolicyGone(p)
<1>0. p \in Objects /\ life[p] = "deleting" /\ (access.id = None => access.to = {})
  BY DEF DeletePolicy, Calls, Deleting, Objects, IdsMade
<1>1. UNCHANGED <<specs, status, cluster, edited>>
  BY DEF DeletePolicy
<1>2. fresh \in [Objects -> BOOLEAN] /\ access \in Grants
  BY DEF TypeOK
<1>3. CASE Failing /\ TryAgain /\ UNCHANGED fresh
  <2>1. Dropped(p)
    BY <1>0, <1>3, DropFinalizerDrops DEF TryAgain
  <2>2. events' \in 0..MaxEvents
    BY <1>3, EventsTypes DEF Failing
  <2>3. UNCHANGED <<tenants, members, groups, made, access, life>>
    BY <1>3 DEF TryAgain, nifi
  <2>4. QED
    BY <1>0, <1>1, <1>2, <1>3, <2>1, <2>2, <2>3 DEF PolicyGone
<1>4. CASE /\ access' = IF status[p].id # access.id THEN access
                        ELSE IF Remaining(p) = {} THEN [id |-> None, to |-> {}]
                        ELSE [access EXCEPT !.to = Remaining(p)]
           /\ fresh' = [x \in Objects |-> fresh[x] /\ (x \in Policies => access' = access)]
           /\ DropFinalizer(p)
           /\ UNCHANGED <<tenants, members, groups, made, events>>
  <2>1. Dropped(p)
    BY <1>0, <1>4, DropFinalizerDrops
  <2>2. fresh' \in [Objects -> BOOLEAN]
    <3>1. \A x \in Objects : (fresh[x] /\ (x \in Policies => access' = access)) \in BOOLEAN
      BY <1>2, Zenon
    <3>2. QED
      BY <1>4, <3>1, Zenon
  <2>3. events' \in 0..MaxEvents
    BY <1>4 DEF TypeOK
  <2>4. Remaining(p) = access.to \ status[p].ids
    BY DEF Remaining
  <2>5. CASE status[p].id # access.id
    BY <1>0, <1>1, <1>2, <1>4, <2>1, <2>2, <2>3, <2>5 DEF PolicyGone
  <2>6. CASE status[p].id = access.id /\ Remaining(p) = {}
    <3>1. access' = [id |-> None, to |-> {}]
      BY <1>4, <2>6
    <3>2. access' \in Grants /\ access'.id = None /\ access'.to = {}
      BY <3>1, BoundsAssumption DEF Grants, None
    <3>3. access.to \subseteq status[p].ids
      BY <2>4, <2>6
    <3>4. QED
      BY <1>1, <1>4, <2>1, <2>2, <2>3, <2>6, <3>2, <3>3 DEF PolicyGone
  <2>7. CASE status[p].id = access.id /\ Remaining(p) # {}
    <3>1. access' = [access EXCEPT !.to = Remaining(p)]
      BY <1>4, <2>7
    <3>2. access' \in Grants /\ access'.id = access.id /\ access'.to = access.to \ status[p].ids
      BY <1>2, <2>4, <3>1 DEF Grants
    <3>3. QED
      BY <1>0, <1>1, <1>4, <2>1, <2>2, <2>3, <2>7, <3>2 DEF PolicyGone
  <2>8. QED
    BY <2>5, <2>6, <2>7
<1>5. QED
  BY <1>3, <1>4 DEF DeletePolicy

\* Deletions of policies keep the invariant: whatever one takes away from another, it
\* names itself.
LEMMA DeletePolicyKeeps ==
  ASSUME AccessInv, NEW p \in Policies, life[p] = "deleting", PolicyGone(p)
  PROVE  AccessInv'
<1> USE DEF AccessInv
<1>0. p \in Objects /\ p # Group
  BY ObjectsAssumption DEF Objects
<1>1. /\ UNCHANGED <<identity, refs, purge, status, cluster, edited, tenants, members, groups, made>>
      /\ Dropped(p) /\ fresh' \in [Objects -> BOOLEAN] /\ events' \in 0..MaxEvents
      /\ access' \in Grants
      /\ access'.to \subseteq access.to /\ access.to \ access'.to \subseteq status[p].ids
      /\ access'.id = access.id \/ access'.to = {}
      /\ access'.id = None => access'.to = {}
  BY DEF PolicyGone, specs
<1>2. \/ life' = life
      \/ status[p].id = access.id /\ access'.to \cap status[p].ids = {}
      \/ status[p].id # access.id /\ access' = access
  BY DEF PolicyGone
<1>3. life \in [Objects -> {"live", "deleting", "gone"}] /\ (life' = life \/ life' = [life EXCEPT ![p] = "gone"])
  BY <1>1 DEF TypeOK, Dropped
<1>4. /\ \A q \in Policies \ {p} : life'[q] = life[q]
      /\ life'[p] \in {"deleting", "gone"} /\ life'[Group] = life[Group]
      /\ life'[p] = "gone" => life' # life
  BY <1>0, <1>3 DEF Objects
<1>5. /\ Existing' = Existing /\ LiveUsers' = LiveUsers
      /\ UsersMade' = UsersMade /\ GroupsMade' = GroupsMade
  BY <1>1 DEF Existing, LiveUsers, UserExists, UsersMade, GroupsMade
<1>6. /\ \A y \in {Group} \cup Policies : CurrentIds(y)' = CurrentIds(y)
      /\ \A q \in Policies : ResolvePolicyTenants(q)' = ResolvePolicyTenants(q)
  BY <1>1 DEF CurrentIds, ResolvePolicyTenants
<1>7. TypeOK'
  BY <1>1 DEF TypeOK, Dropped
<1>8. \A y \in {Group} \cup Policies : Settled(y)' => Settled(y) /\ y # p
  <2>1. SUFFICES ASSUME NEW y \in {Group} \cup Policies, Settled(y)'
                 PROVE  Settled(y) /\ y # p
    OBVIOUS
  <2>2. y \in Objects /\ life'[y] = "live" /\ ~queued'[y] /\ status[y].why = "Ready" /\ status[y].seen
    BY <1>1, <2>1 DEF Settled, Objects
  <2>3. life[y] = "live" /\ ~queued[y] /\ y # p
    BY <1>1, <1>4, <2>2 DEF Dropped
  <2>4. QED
    BY <2>2, <2>3 DEF Settled
<1>9. IdsMade'
  BY <1>1, <1>5 DEF IdsMade
<1>10. Recorded'
  BY <1>1, <1>6, <1>8 DEF Recorded
<1>11. MembersFollow'
  <2>1. SUFFICES ASSUME Settled(Group)', GroupExists(status[Group].id)'
                 PROVE  members'[status'[Group].id] = CurrentIds(Group)' \cap Existing'
    BY DEF MembersFollow
  <2>2. Settled(Group) /\ GroupExists(status[Group].id)
    BY <1>1, <1>8, <2>1 DEF GroupExists
  <2>3. QED
    BY <1>1, <1>5, <1>6, <2>2 DEF MembersFollow
<1>12. GrantsFollow'
  <2>1. SUFFICES ASSUME NEW r \in Policies, Settled(r)',
                        \A q \in Policies \ {r} :
                          life'[q] = "live" \/ status'[q].ids \cap status'[r].ids = {}
                 PROVE  CurrentIds(r)' \cap Existing' \subseteq access'.to
    BY DEF GrantsFollow
  <2>2. Settled(r) /\ r # p
    BY <1>8, <2>1
  <2>3. \A q \in Policies \ {r} : life[q] = "live" \/ status[q].ids \cap status[r].ids = {}
    BY <1>1, <1>4, <2>1
  <2>4. CurrentIds(r) \cap Existing \subseteq access.to
    BY <2>2, <2>3 DEF GrantsFollow
  <2>5. status[p].ids \cap status[r].ids = {}
    BY <1>1, <1>4, <2>1, <2>2
  <2>6. status[r].ids = CurrentIds(r)
    BY <2>2 DEF Recorded
  <2>7. QED
    BY <1>1, <1>5, <1>6, <2>4, <2>5, <2>6
<1>13. Revocable'
  <2>1. SUFFICES ASSUME ~edited
                 PROVE  (RecordsNamed /\ LiveRevocable /\ DeletingRevocable /\ GoneRevoked)'
    BY <1>1 DEF Revocable
  <2>2. RecordsNamed /\ LiveRevocable /\ DeletingRevocable /\ GoneRevoked
    BY <2>1 DEF Revocable
  <2>3. \A i : \A q \in Policies : Named(q, i)' <=> Named(q, i)
    BY <1>6 DEF Named
  <2>4. \A q \in Policies \ {p}, i \in status[p].ids \cap Existing : Named(q, i)
    BY <2>2 DEF RecordsNamed, Named
  <2>5. RecordsNamed'
    BY <1>1, <1>5, <1>6, <2>2 DEF RecordsNamed
  <2>6. LiveRevocable'
    <3>1. SUFFICES ASSUME NEW q \in Policies, life'[q] = "live",
                          NEW id \in status[q].ids \cap Existing
                   PROVE  (access'.id = status[q].id /\ id \in access'.to) \/ Named(q, id)
      BY <1>1, <1>5, <2>3 DEF LiveRevocable
    <3>2. q # p /\ life[q] = "live"
      BY <1>4, <3>1
    <3>3. (access.id = status[q].id /\ id \in access.to) \/ Named(q, id)
      BY <2>2, <3>1, <3>2 DEF LiveRevocable
    <3>4. CASE id \in access'.to
      BY <1>1, <3>3, <3>4
    <3>5. CASE id \in access.to \ access'.to
      BY <1>1, <2>4, <3>1, <3>2, <3>5
    <3>6. QED
      BY <3>3, <3>4, <3>5
  <2>7. DeletingRevocable'
    <3>1. SUFFICES ASSUME NEW q \in Policies, life'[q] = "deleting",
                          NEW id \in status[q].ids \cap access'.to
                   PROVE  access'.id = status[q].id \/ Named(q, id)
      BY <1>1, <2>3 DEF DeletingRevocable
    <3>2. life[q] = "deleting" /\ id \in access.to /\ access'.id = access.id
      BY <1>1, <1>4, <3>1
    <3>3. QED
      BY <2>2, <3>1, <3>2 DEF DeletingRevocable
  <2>8. GoneRevoked'
    <3>1. SUFFICES ASSUME NEW q \in Policies, life'[q] = "gone", purge[q], cluster # "gone",
                          NEW id \in status[q].ids \cap access'.to
                   PROVE  Named(q, id)
      BY <1>1, <2>3 DEF GoneRevoked
    <3>2. CASE q # p
      BY <1>1, <1>4, <2>2, <3>1, <3>2 DEF GoneRevoked
    <3>3. CASE q = p
      <4>1. status[p].id # access.id /\ access' = access
        BY <1>2, <1>4, <3>1, <3>3
      <4>2. QED
        BY <2>2, <3>1, <3>3, <4>1 DEF DeletingRevocable
    <3>4. QED
      BY <3>2, <3>3
  <2>9. QED
    BY <2>5, <2>6, <2>7, <2>8
<1>14. QED
  BY <1>7, <1>9, <1>10, <1>11, <1>12, <1>13

\* Finalizers dropped without a call to NiFi keep the invariant: what is kept there was
\* meant to be, was never recorded, or its cluster is gone.
LEMMA DropKeptKeeps ==
  ASSUME AccessInv, NEW x \in Objects, DropKept(x)
  PROVE  AccessInv'
<1> USE DEF AccessInv
<1>1. /\ life[x] = "deleting" /\ Keeps(x) /\ DropFinalizer(x)
      /\ UNCHANGED <<identity, refs, purge, status, fresh, cluster, edited, events>>
      /\ UNCHANGED nifi
  BY DEF DropKept, Deleting, specs
<1>2. Dropped(x)
  BY <1>1, DropFinalizerDrops
<1>3. TypeOK'
  BY <1>1, <1>2 DEF TypeOK, Dropped, nifi
<1>4. life \in [Objects -> {"live", "deleting", "gone"}] /\ (life' = life \/ life' = [life EXCEPT ![x] = "gone"])
  BY <1>2 DEF TypeOK, Dropped
<1>5. \A y \in {Group} \cup Policies : Settled(y)' => Settled(y)
  <2>1. SUFFICES ASSUME NEW y \in {Group} \cup Policies, Settled(y)'
                 PROVE  Settled(y)
    OBVIOUS
  <2>2. y \in Objects /\ life'[y] = "live" /\ ~queued'[y] /\ status[y].why = "Ready" /\ status[y].seen
    BY <1>1, <2>1 DEF Settled, Objects
  <2>3. life[y] = "live" /\ ~queued[y]
    BY <1>2, <1>4, <2>2 DEF Dropped
  <2>4. QED
    BY <2>2, <2>3 DEF Settled
<1>6. \A p \in Policies : life'[p] = "live" => life[p] = "live"
  BY <1>1, <1>4 DEF Objects
<1>7. /\ UNCHANGED access /\ Existing' = Existing
      /\ \A q \in Policies : ResolvePolicyTenants(q)' = ResolvePolicyTenants(q)
  BY <1>1 DEF nifi, Existing, UserExists, ResolvePolicyTenants
<1>8. Revocable'
  <2>1. SUFFICES ASSUME ~edited
                 PROVE  (RecordsNamed /\ LiveRevocable /\ DeletingRevocable /\ GoneRevoked)'
    BY <1>1 DEF Revocable
  <2>2. RecordsNamed /\ LiveRevocable /\ DeletingRevocable /\ GoneRevoked
    BY <2>1 DEF Revocable
  <2>3. \A i : \A q \in Policies : Named(q, i)' <=> Named(q, i)
    BY <1>7 DEF Named
  <2>4. RecordsNamed'
    BY <1>1, <1>7, <2>2 DEF RecordsNamed
  <2>5. LiveRevocable'
    BY <1>1, <1>6, <1>7, <2>2, <2>3 DEF LiveRevocable
  <2>6. \A p \in Policies : life'[p] = "deleting" => life[p] = "deleting"
    BY <1>1, <1>4 DEF Objects
  <2>7. DeletingRevocable'
    BY <1>1, <1>7, <2>2, <2>3, <2>6 DEF DeletingRevocable
  <2>8. \A p \in Policies : life'[p] = "gone" /\ purge[p] /\ cluster # "gone" =>
          life[p] = "gone" \/ status[p].ids = {}
    BY <1>1, <1>4 DEF Objects, Keeps, IdsMade
  <2>9. GoneRevoked'
    BY <1>1, <1>7, <2>2, <2>3, <2>8 DEF GoneRevoked
  <2>10. QED
    BY <2>4, <2>5, <2>7, <2>9
<1>9. QED
  BY <1>1, <1>3, <1>5, <1>6, <1>8, QuietKeeps

-----------------------------------------------------------------------------
(* The invariant is kept: what users of the cluster do *)

\* Waking up what watches x keeps the queue's type, and who rests rested before and is
\* not x.
LEMMA WakeWakes ==
  ASSUME TypeOK, NEW x \in Objects, Wake(x)
  PROVE  /\ queued' \in [Objects -> BOOLEAN]
         /\ \A y \in Objects : life[y] # "gone" /\ ~queued'[y] => ~queued[y] /\ y # x
<1>1. queued \in [Objects -> BOOLEAN]
  BY DEF TypeOK
<1>2. \A y \in Objects : (life[y] # "gone" /\ (queued[y] \/ y \in Wakes(x))) \in BOOLEAN
  BY <1>1, Zenon
<1>3. queued' \in [Objects -> BOOLEAN]
  BY <1>2, Zenon DEF Wake
<1>4. x \in Wakes(x)
  BY DEF Wakes
<1>5. QED
  BY <1>3, <1>4 DEF Wake

\* Edits keep the invariant.
LEMMA EditKeeps ==
  ASSUME AccessInv, NEW x \in Objects, Edit(x)
  PROVE  AccessInv'
<1> USE DEF AccessInv
<1>1. /\ life[x] = "live" /\ Happens /\ Wake(x)
      /\ UNCHANGED <<purge, life, fresh, cluster, losses>> /\ UNCHANGED nifi
  BY DEF Edit
<1>2. edited' = (edited \/ x \notin Users)
  BY DEF Edit
<1>3. status' = [status EXCEPT ![x].seen = FALSE]
  BY DEF Edit
<1>4. status \in [Objects -> Statuses] /\ status[x] \in Statuses
  BY DEF TypeOK
<1>5. status' \in [Objects -> Statuses]
  <2>1. [status[x] EXCEPT !.seen = FALSE] \in Statuses
    BY <1>4 DEF Statuses
  <2>2. QED
    BY <1>3, <1>4, <2>1
<1>6. \A y \in Objects : /\ status'[y].id = status[y].id /\ status'[y].ids = status[y].ids
                         /\ status'[y].why = status[y].why /\ (y # x => status'[y] = status[y])
  BY <1>3, <1>4 DEF Statuses
<1>7. identity' \in [Users -> Users \X BOOLEAN]
  <2>1. identity \in [Users -> Users \X BOOLEAN]
    BY DEF TypeOK
  <2>2. CASE x \in Users /\ identity' = [identity EXCEPT ![x][2] = ~@]
    <3>1. PICK u \in Users, b \in BOOLEAN : identity[x] = <<u, b>>
      BY <2>1, <2>2
    <3>2. [identity[x] EXCEPT ![2] = ~identity[x][2]] = <<u, ~b>>
      BY <3>1
    <3>3. identity' = [identity EXCEPT ![x] = <<u, ~b>>]
      BY <2>2, <3>2
    <3>4. <<u, ~b>> \in Users \X BOOLEAN
      OBVIOUS
    <3>5. QED
      BY <2>1, <2>2, <3>3, <3>4
  <2>3. CASE UNCHANGED identity
    BY <2>1, <2>3
  <2>4. QED
    BY <2>2, <2>3 DEF Edit
<1>8. /\ refs' \in [{Group} \cup Policies -> SUBSET (Users \cup {Group})] /\ refs'[Group] \subseteq Users
      /\ \A y \in {Group} \cup Policies : y # x => refs'[y] = refs[y]
      /\ x \in Users => refs' = refs
  <2>1. refs \in [{Group} \cup Policies -> SUBSET (Users \cup {Group})] /\ refs[Group] \subseteq Users
    BY DEF TypeOK
  <2>2. CASE x \in Users /\ UNCHANGED refs
    BY <2>1, <2>2
  <2>3. CASE x \notin Users /\ \E to \in (SUBSET (IF x = Group THEN Users ELSE Users \cup {Group})) \ {{}, refs[x]} :
                                 refs' = [refs EXCEPT ![x] = to]
    <3>1. PICK to \in SUBSET (IF x = Group THEN Users ELSE Users \cup {Group}) :
            refs' = [refs EXCEPT ![x] = to]
      BY <2>3
    <3>2. x \in {Group} \cup Policies
      BY <2>3 DEF Objects
    <3>3. QED
      BY <2>1, <2>3, <3>1, <3>2
  <2>4. QED
    BY <2>2, <2>3 DEF Edit
<1>9. edited' \in BOOLEAN
  BY <1>2
<1>10. TypeOK'
  BY <1>1, <1>5, <1>7, <1>8, <1>9, EventsTypes, WakeWakes DEF TypeOK, nifi
<1>11. \A y \in {Group} \cup Policies : Settled(y)' => Settled(y) /\ refs'[y] = refs[y]
  <2>1. SUFFICES ASSUME NEW y \in {Group} \cup Policies, Settled(y)'
                 PROVE  Settled(y) /\ refs'[y] = refs[y]
    OBVIOUS
  <2>2. y \in Objects /\ life[y] = "live" /\ ~queued'[y] /\ status'[y].why = "Ready" /\ status'[y].seen
    BY <1>1, <2>1 DEF Settled, Objects
  <2>3. ~queued[y] /\ y # x
    BY <1>1, <2>2, WakeWakes
  <2>4. status'[y] = status[y]
    BY <1>6, <2>2, <2>3
  <2>5. QED
    BY <1>8, <2>2, <2>3, <2>4 DEF Settled
<1>12. Revocable'
  <2>1. CASE x \notin Users
    BY <1>2, <2>1 DEF Revocable
  <2>2. CASE x \in Users
    <3>1. edited' = edited
      BY <1>2, <2>2 DEF TypeOK
    <3>2. UNCHANGED refs
      BY <1>8, <2>2
    <3>3. UNCHANGED access /\ Existing' = Existing
      BY <1>1 DEF nifi, Existing, UserExists
    <3>4. \A p \in Policies : p \in Objects
      BY DEF Objects
    <3>5. \A t \in Tenants : t \in Objects
      BY DEF Objects, Tenants
    <3>6. QED
      BY <1>1, <1>6, <3>1, <3>2, <3>3, <3>4, <3>5, TenantsKeepRevocable
  <2>3. QED
    BY <2>1, <2>2
<1>13. QED
  BY <1>1, <1>6, <1>10, <1>11, <1>12, QuietKeeps

\* Requests for deletion keep the invariant.
LEMMA RequestDeleteKeeps ==
  ASSUME AccessInv, NEW x \in Objects, RequestDelete(x)
  PROVE  AccessInv'
<1> USE DEF AccessInv
<1>1. /\ life[x] = "live" /\ Happens /\ Wake(x)
      /\ life' = [life EXCEPT ![x] = "deleting"]
      /\ UNCHANGED <<identity, refs, status, fresh, cluster, edited, losses>> /\ UNCHANGED nifi
  BY DEF RequestDelete
<1>2. PICK policy \in BOOLEAN : purge' = [purge EXCEPT ![x] = policy]
  BY DEF RequestDelete
<1>3. life \in [Objects -> {"live", "deleting", "gone"}] /\ purge \in [Objects -> BOOLEAN]
  BY DEF TypeOK
<1>4. life' \in [Objects -> {"live", "deleting", "gone"}] /\ purge' \in [Objects -> BOOLEAN]
  BY <1>1, <1>2, <1>3
<1>5. TypeOK'
  BY <1>1, <1>4, EventsTypes, WakeWakes DEF TypeOK, nifi
<1>6. \A y \in {Group} \cup Policies : Settled(y)' => Settled(y)
  <2>1. SUFFICES ASSUME NEW y \in {Group} \cup Policies, Settled(y)'
                 PROVE  Settled(y)
    OBVIOUS
  <2>2. y \in Objects /\ life'[y] = "live" /\ ~queued'[y] /\ status[y].why = "Ready" /\ status[y].seen
    BY <1>1, <2>1 DEF Settled, Objects
  <2>3. life[y] = "live"
    BY <1>1, <1>3, <2>2
  <2>4. ~queued[y]
    BY <1>1, <2>2, <2>3, WakeWakes
  <2>5. QED
    BY <2>2, <2>3, <2>4 DEF Settled
<1>7. \A p \in Policies : life'[p] = "live" => life[p] = "live"
  BY <1>1, <1>3 DEF Objects
<1>8. /\ UNCHANGED access /\ Existing' = Existing
      /\ \A q \in Policies : ResolvePolicyTenants(q)' = ResolvePolicyTenants(q)
  BY <1>1 DEF nifi, Existing, UserExists, ResolvePolicyTenants
<1>9. Revocable'
  <2>1. SUFFICES ASSUME ~edited
                 PROVE  (RecordsNamed /\ LiveRevocable /\ DeletingRevocable /\ GoneRevoked)'
    BY <1>1 DEF Revocable
  <2>2. RecordsNamed /\ LiveRevocable /\ DeletingRevocable /\ GoneRevoked
    BY <2>1 DEF Revocable
  <2>3. \A i : \A q \in Policies : Named(q, i)' <=> Named(q, i)
    BY <1>8 DEF Named
  <2>4. access.to \subseteq Existing
    BY DEF IdsMade
  <2>5. RecordsNamed'
    BY <1>1, <1>8, <2>2 DEF RecordsNamed
  <2>6. LiveRevocable'
    BY <1>1, <1>7, <1>8, <2>2, <2>3 DEF LiveRevocable
  <2>7. \A p \in Policies : life'[p] = "deleting" => life[p] \in {"live", "deleting"}
    BY <1>1, <1>3 DEF Objects
  <2>8. DeletingRevocable'
    BY <1>1, <1>8, <2>2, <2>3, <2>4, <2>7 DEF DeletingRevocable, LiveRevocable
  <2>9. \A p \in Policies : life'[p] = "gone" => life[p] = "gone" /\ purge'[p] = purge[p]
    BY <1>1, <1>2, <1>3 DEF Objects
  <2>10. GoneRevoked'
    BY <1>1, <1>8, <2>2, <2>3, <2>9 DEF GoneRevoked
  <2>11. QED
    BY <2>5, <2>6, <2>8, <2>10
<1>10. QED
  BY <1>1, <1>5, <1>6, <1>7, <1>9, QuietKeeps

\* Changes of the cluster keep the invariant.
LEMMA ClusterKeeps ==
  ASSUME AccessInv, NEW to \in {"ready", "unready", "gone"}, ClusterChanges(to)
  PROVE  AccessInv'
<1> USE DEF AccessInv
<1>1. /\ cluster # "gone" /\ cluster' = to
      /\ UNCHANGED <<identity, refs, purge, life, status, fresh, edited, losses>> /\ UNCHANGED nifi
  BY DEF ClusterChanges, specs
<1>2. queued' = [x \in Objects |-> life[x] # "gone"]
  BY DEF ClusterChanges
<1>3. events' \in 0..MaxEvents
  BY EventsTypes DEF ClusterChanges, TypeOK
<1>4. queued' \in [Objects -> BOOLEAN]
  BY <1>2
<1>5. TypeOK'
  BY <1>1, <1>3, <1>4 DEF TypeOK, nifi
<1>6. \A y \in {Group} \cup Policies : ~Settled(y)'
  BY <1>1, <1>2 DEF Settled, Objects
<1>7. Revocable'
  <2>1. UNCHANGED access /\ Existing' = Existing
    BY <1>1 DEF nifi, Existing, UserExists
  <2>2. QED
    BY <1>1, <2>1, TenantsKeepRevocable
<1>8. QED
  BY <1>1, <1>5, <1>6, <1>7, QuietKeeps

\* What others delete in NiFi keeps the invariant.
LEMMA MeddleKeeps ==
  ASSUME AccessInv, NEW id \in TenantIds, Meddle(id)
  PROVE  AccessInv'
<1> USE DEF AccessInv
<1>1. /\ id # Admin /\ Happens /\ RemoveTenant(id)
      /\ UNCHANGED <<identity, refs, purge, life, status, fresh, queued, cluster, edited, losses>>
  BY DEF Meddle, specs, resources
<1>2. id \in 0..(2 * MaxMade)
  BY <1>1, IdsApart DEF TenantIds
<1>3. TenantRemoved(id)
  BY <1>1, <1>2, RemoveTenantRemoves
<1>4. groups' \subseteq GroupIds
  BY <1>3 DEF TypeOK, TenantRemoved
<1>5. events' \in 0..MaxEvents
  BY <1>1, EventsTypes
<1>6. TypeOK'
  BY <1>1, <1>3, <1>4, <1>5 DEF TypeOK, TenantRemoved
<1>7. \A y \in {Group} \cup Policies : Settled(y)' => Settled(y)
  BY <1>1 DEF Settled
<1>8. QED
  BY <1>1, <1>2, <1>3, <1>6, <1>7, RemovalKeeps

-----------------------------------------------------------------------------
(* The theorems *)

\* The invariant holds at the start.
LEMMA InitInv ==
  ASSUME Init
  PROVE  AccessInv
<1>1. /\ identity = [u \in Users |-> <<u, FALSE>>] /\ refs \in Refs
      /\ purge = [x \in Objects |-> FALSE] /\ life = [x \in Objects |-> "live"]
      /\ status = [x \in Objects |-> [id |-> None, why |-> "", seen |-> FALSE, ids |-> {}]]
      /\ fresh = [x \in Objects |-> FALSE] /\ queued = [x \in Objects |-> TRUE]
      /\ cluster = "ready"
      /\ tenants = [id \in UserIds |-> Nobody] /\ groups = {} /\ members = [id \in GroupIds |-> {}]
      /\ edited = FALSE /\ events = 0 /\ losses = 0
  BY DEF Init
<1>2. \/ access = [id |-> None, to |-> {}] /\ made = [user |-> 0, group |-> 0, policy |-> 0]
      \/ access = [id |-> 1, to |-> {Admin}] /\ made = [user |-> 0, group |-> 0, policy |-> 1]
  BY DEF Init
<1>3. access \in Grants /\ access.to \subseteq {Admin} /\ (access.id = None => access.to = {})
  BY <1>2, BoundsAssumption DEF Grants, TenantIds, None
<1>4. made \in Counts
  BY <1>2, BoundsAssumption DEF Counts
<1>5. /\ status \in [Objects -> Statuses]
      /\ \A x \in Objects : status[x].id = None /\ status[x].ids = {}
  <2>1. [id |-> None, why |-> "", seen |-> FALSE, ids |-> {}] \in Statuses
    BY BoundsAssumption DEF Statuses, None
  <2>2. QED
    BY <1>1, <2>1
<1>6. /\ refs \in [{Group} \cup Policies -> SUBSET (Users \cup {Group})]
      /\ refs[Group] \subseteq Users
  <2>1. /\ refs \in [{Group} \cup Policies -> (SUBSET (Users \cup {Group})) \ {{}}]
        /\ refs[Group] \subseteq Users
    BY <1>1, RefsAssumption
  <2>2. QED
    BY <2>1
<1>7. tenants \in [UserIds -> Identities]
  BY <1>1 DEF Identities
<1>8. identity \in [Users -> Users \X BOOLEAN]
  BY <1>1
<1>9. events \in 0..MaxEvents /\ losses \in 0..MaxEvents
  <2>1. events = 0 /\ losses = 0
    BY Zenon DEF Init
  <2>2. QED
    BY <2>1, BoundsAssumption
<1>10. TypeOK
  BY <1>1, <1>3, <1>4, <1>5, <1>6, <1>7, <1>8, <1>9 DEF TypeOK
<1>11. LiveUsers = {} /\ Existing = {Admin}
  BY <1>1 DEF LiveUsers, Existing, UserExists
<1>12. IdsMade
  BY <1>1, <1>3, <1>5, <1>11 DEF IdsMade, Objects
<1>13. \A x \in Objects : ~Settled(x)
  BY <1>1 DEF Settled
<1>14. Recorded /\ MembersFollow /\ GrantsFollow
  BY <1>13 DEF Recorded, MembersFollow, GrantsFollow, Objects
<1>15. \A p \in Policies : status[p].ids = {}
  BY <1>5 DEF Objects
<1>16. Revocable
  BY <1>15 DEF Revocable, RecordsNamed, LiveRevocable, DeletingRevocable, GoneRevoked
<1>17. QED
  BY <1>10, <1>12, <1>14, <1>16 DEF AccessInv

\* Every step keeps the invariant.
LEMMA NextInv ==
  ASSUME AccessInv, [Next]_vars
  PROVE  AccessInv'
<1>a. TypeOK /\ IdsMade
  BY DEF AccessInv
<1>1. CASE UNCHANGED vars
  <2>1. /\ UNCHANGED <<identity, refs, purge, life, status, fresh, queued, cluster, edited, events, losses>>
        /\ UNCHANGED <<tenants, members, groups, access, made>>
    BY <1>1 DEF vars, specs, resources, nifi
  <2>2. QED
    BY <2>1 DEF AccessInv, TypeOK, IdsMade, Recorded, MembersFollow, GrantsFollow, Revocable,
      RecordsNamed, LiveRevocable, DeletingRevocable, GoneRevoked, Named, Settled, CurrentIds,
      ResolvePolicyTenants, Existing, LiveUsers, UserExists, GroupExists, UsersMade, GroupsMade
<1>2. ASSUME NEW x \in Objects, AwaitCluster(x)
      PROVE  AccessInv'
  <2>1. CASE x \in Users
    BY <1>a, <1>2, <2>1, UserReconciles, UsersKeep
  <2>2. CASE x = Group
    BY <1>a, <1>2, <2>2, GroupReconciles, GroupsKeep
  <2>3. CASE x \in Policies
    <3>1. life[x] = "live"
      BY <1>2 DEF AwaitCluster, Turn
    <3>2. QED
      BY <1>a, <1>2, <2>3, <3>1, PolicyReconciles, PoliciesKeep
  <2>4. QED
    BY <2>1, <2>2, <2>3 DEF Objects
<1>3. ASSUME NEW u \in Users, ReconcileUser(u)
      PROVE  AccessInv'
  BY <1>a, <1>3, UserReconciles, UsersKeep
<1>4. ASSUME NEW x \in Tenants, DeleteTenant(x)
      PROVE  AccessInv'
  BY <1>4, DeleteTenantKeeps
<1>5. CASE ReconcileUserGroup
  BY <1>a, <1>5, GroupReconciles, GroupsKeep
<1>6. ASSUME NEW p \in Policies, ReconcilePolicy(p)
      PROVE  AccessInv'
  <2>1. life[p] = "live"
    BY <1>6 DEF ReconcilePolicy, Turn
  <2>2. QED
    BY <1>a, <1>6, <2>1, PolicyReconciles, PoliciesKeep
<1>7. ASSUME NEW p \in Policies, DeletePolicy(p)
      PROVE  AccessInv'
  <2>1. life[p] = "deleting"
    BY <1>7 DEF DeletePolicy, Calls, Deleting
  <2>2. QED
    BY <1>a, <1>7, <2>1, DeletePolicyDoes, DeletePolicyKeeps
<1>8. ASSUME NEW x \in Objects, Reconcile(x)
      PROVE  AccessInv'
  BY <1>2, <1>3, <1>4, <1>5, <1>6, <1>7, <1>8, DropKeptKeeps
     DEF Reconcile, DeleteUser, DeleteUserGroup, Tenants
<1>9. QED
  BY <1>1, <1>8, EditKeeps, RequestDeleteKeeps, ClusterKeeps, MeddleKeeps DEF Next

\* The inductive invariant holds in every reachable state, for any number of users and
\* policies that share an access policy.
THEOREM AccessInvariant == Spec => []AccessInv
<1>1. Init => AccessInv
  BY InitInv
<1>2. AccessInv /\ [Next]_vars => AccessInv'
  BY NextInv
<1>3. QED
  BY <1>1, <1>2, PTL DEF Spec

\* What settled resources say is true of NiFi: the group has exactly its users, and a
\* policy grants all that it names, by the ids that the users' statuses hold now.
THEOREM StatusesAreTrue == Spec => []StatusIsTrue
<1>1. AccessInv => StatusIsTrue
  BY DEF AccessInv, StatusIsTrue
<1>2. QED
  BY <1>1, AccessInvariant, PTL

\* Once a policy with deletionPolicy Delete is gone, nobody has access by what it had
\* recorded, except through another policy.
THEOREM DeletionsRevoke == Spec => []DeletionRevokes
<1>1. AccessInv => DeletionRevokes
  BY DEF AccessInv, Revocable, GoneRevoked, Named, DeletionRevokes
<1>2. QED
  BY <1>1, AccessInvariant, PTL

\* No step takes access from the user that no resource names.
LEMMA OthersKeepStep ==
  ASSUME AccessInv, Next, Admin \in access.to
  PROVE  Admin \in access'.to
<1>a. TypeOK /\ IdsMade /\ access.id # None
  BY IdsApart DEF AccessInv, IdsMade
<1>b. ASSUME NEW id \in 0..(2 * MaxMade), RemoveTenant(id)
      PROVE  Admin \in access'.to
  <2>1. Admin # id
    BY BoundsAssumption DEF Admin
  <2>2. QED
    BY <1>a, <1>b, <2>1, RemoveTenantRemoves DEF TenantRemoved
<1>1. ASSUME NEW x \in Objects, AwaitCluster(x)
      PROVE  Admin \in access'.to
  BY <1>1 DEF AwaitCluster, nifi
<1>2. ASSUME NEW u \in Users, ReconcileUser(u)
      PROVE  Admin \in access'.to
  BY <1>a, <1>2, UserReconciles DEF UserDone
<1>3. CASE ReconcileUserGroup
  BY <1>a, <1>3, GroupReconciles DEF GroupDone
<1>4. ASSUME NEW p \in Policies, ReconcilePolicy(p)
      PROVE  Admin \in access'.to
  BY <1>a, <1>4, PolicyReconciles DEF PolicyDone
<1>5. ASSUME NEW x \in Tenants, DeleteTenant(x)
      PROVE  Admin \in access'.to
  <2>1. status[x].id \in 0..(2 * MaxMade)
    BY <1>a DEF TypeOK, Statuses, Tenants, Objects
  <2>2. QED
    BY <1>5, <1>b, <2>1 DEF DeleteTenant, TryAgain, nifi
<1>6. ASSUME NEW p \in Policies, DeletePolicy(p)
      PROVE  Admin \in access'.to
  <2>1. Admin \notin status[p].ids
    BY <1>a, IdsApart DEF IdsMade
  <2>2. QED
    BY <1>a, <1>6, <2>1, DeletePolicyDoes DEF PolicyGone
<1>7. ASSUME NEW x \in Objects, DropKept(x) \/ Edit(x) \/ RequestDelete(x)
      PROVE  Admin \in access'.to
  BY <1>7 DEF DropKept, Edit, RequestDelete, nifi
<1>8. ASSUME NEW to \in {"ready", "unready", "gone"}, ClusterChanges(to)
      PROVE  Admin \in access'.to
  BY <1>8 DEF ClusterChanges, nifi
<1>9. ASSUME NEW id \in TenantIds, Meddle(id)
      PROVE  Admin \in access'.to
  <2>1. id \in 0..(2 * MaxMade)
    BY <1>a, <1>9, IdsApart DEF Meddle, TenantIds
  <2>2. QED
    BY <1>9, <1>b, <2>1 DEF Meddle
<1>10. QED
  BY <1>1, <1>2, <1>3, <1>4, <1>5, <1>6, <1>7, <1>8, <1>9
     DEF Next, Reconcile, DeleteUser, DeleteUserGroup, Tenants

\* What others granted stays, whatever is reconciled, edited and deleted.
THEOREM OthersAreKept == Spec => OthersKeepAccess
<1>1. AccessInv /\ [Next]_vars => [(Admin \in access.to) => (Admin \in access'.to)]_vars
  BY OthersKeepStep
<1>2. QED
  BY <1>1, AccessInvariant, PTL DEF Spec, OthersKeepAccess

=============================================================================
