--------------------------- MODULE FlowEntryProofs ---------------------------
(***************************************************************************)
(* Proofs about FlowEntry for every number of contents, groups and events: *)
(* groups do not pile up, the status knows those in use, deletion removes  *)
(* them, and what is reported valid was found valid.                       *)
(***************************************************************************)
EXTENDS FlowEntry, FiniteSetTheorems, TLAPS

\* What a status may say: groups that were made, each in one role, and a candidate only of a
\* BlueGreen rollout to something newer than the live content.
Sound(s, m) ==
  /\ s \in Statuses
  /\ s.phase = "none" <=> s.temp = None
  /\ s.candidate # None => s.candidate \notin {s.pg, s.retiring, s.temp}
  /\ s.retiring # None => s.retiring # s.pg
  /\ {s.pg, s.candidate, s.retiring, s.temp} \subseteq 0..m
  /\ s.pg # None => s.digest \in 1..source
  /\ s.candidate # None =>
       /\ strategy = "BlueGreen" /\ s.pg # None /\ s.retiring = None
       /\ s.digest < s.target /\ s.target <= source
StatusInv == Sound(status, made)

\* Ids are handed out in order.
GroupsInv ==
  /\ groups \in [Ids -> Groups] /\ made \in 0..MaxMade
  /\ \A id \in Ids : id > made => groups[id].use = "none"

\* The groups that the next reconcile does not forget.
KnownBy(s) == {s.pg, s.retiring} \cup (IF s.target = source THEN {s.candidate} ELSE {})
Unknown == Flows \ KnownBy(status)
FlowsKnown == Cardinality(Unknown) <= losses + leaks + Forgotten

\* Without losses there is no temporary group but that of the dry run under way.
TempsKnown == losses + leaks = 0 => Temps \subseteq {status.temp}

\* What a deletion leaves.
DeletedInv ==
  life = "gone" /\ cluster # "gone" =>
    /\ losses + leaks = 0 => Temps = {}
    /\ purge => status.pg \notin Flows

EntryInv ==
  /\ TypeOK /\ StatusInv /\ GroupsInv /\ DryRunsBounded /\ FlowsKnown /\ TempsKnown
  /\ DeletedInv /\ ValidIsTrue

-----------------------------------------------------------------------------
(* Counting *)

\* Sets of ids are counted, and one more element is one more at most.
LEMMA CountedIds ==
  ASSUME NEW S \in SUBSET Ids
  PROVE  /\ IsFiniteSet(S) /\ Cardinality(S) \in Nat
         /\ \A T : T \subseteq S => Cardinality(T) <= Cardinality(S)
         /\ \A T, x : T \subseteq S \cup {x} => Cardinality(T) <= Cardinality(S) + 1
<1>1. IsFiniteSet(Ids)
  BY BoundsAssumption, FS_Interval DEF Ids
<1>2. IsFiniteSet(S) /\ Cardinality(S) \in Nat
  BY <1>1, FS_Subset, FS_CardinalityType
<1>3. \A T : T \subseteq S => Cardinality(T) <= Cardinality(S)
  BY <1>2, FS_Subset
<1>4. ASSUME NEW T, NEW x, T \subseteq S \cup {x}
      PROVE  Cardinality(T) <= Cardinality(S) + 1
  <2>1. IsFiniteSet(S \cup {x}) /\ Cardinality(S \cup {x}) \in Nat
        /\ Cardinality(S \cup {x}) <= Cardinality(S) + 1
    BY <1>2, FS_AddElement, FS_CardinalityType
  <2>2. Cardinality(T) \in Nat /\ Cardinality(T) <= Cardinality(S \cup {x})
    BY <2>1, <1>4, FS_Subset, FS_CardinalityType
  <2> QED
    BY <1>2, <2>1, <2>2
<1> QED
  BY <1>2, <1>3, <1>4

\* A count that grows only with what it is bounded by stays bounded.
LEMMA MoreUsed ==
  ASSUME NEW l \in Nat, NEW k \in Nat, NEW l2 \in {l, l + 1}, NEW k2 \in {k, k + 1},
         NEW c \in Nat, NEW d \in Nat, NEW e \in Nat, c <= l + k + e,
         d <= c \/ (l2 + k2 > l + k /\ d <= c + 1)
  PROVE  d <= l2 + k2 + e
OBVIOUS

\* What was used once is not unused.
LEMMA OneIsUsed ==
  ASSUME NEW l \in Nat, NEW k \in Nat, NEW l2 \in {l, l + 1}
  PROVE  (k + 1) + l2 # 0
OBVIOUS

\* How often the source moved again.
LEMMA ForgottenIs ==
  ASSUME NEW s \in Nat
  PROVE  Cardinality(3..s) = IF s < 3 THEN 0 ELSE s - 2
<1>1. Cardinality(3..s) = IF 3 > s THEN 0 ELSE s - 3 + 1
  BY FS_Interval
<1> QED
  BY <1>1

-----------------------------------------------------------------------------
(* What calls and writes do *)

\* A status write lands, or is lost and counted.
Outcome(s) ==
  \/ status' = s /\ losses' = losses
  \/ status' = status /\ losses' = losses + 1

LEMMA SaveOutcome ==
  ASSUME NEW s, NEW again \in BOOLEAN, Save(s, again), queued \in BOOLEAN
  PROVE  Outcome(s) /\ queued' \in BOOLEAN
BY DEF Save, Outcome, Lost

\* A group more.
Plus(before, use) ==
  [before EXCEPT ![made + 1] = [use |-> use, content |-> source, settled |-> FALSE]]

\* An import is recorded; or made all the same, and lost; or not made.
LEMMA ImportOutcome ==
  ASSUME NEW before, NEW use, NEW recorded, Import(before, use, recorded), queued \in BOOLEAN
  PROVE  /\ queued' \in BOOLEAN /\ events' \in {events, events + 1}
         /\ \/ /\ made < MaxMade /\ made' = made + 1 /\ groups' = Plus(before, use)
               /\ status' = recorded /\ losses' = losses
            \/ /\ made < MaxMade /\ made' = made + 1 /\ groups' = Plus(before, use)
               /\ status' \in {status, Mark("Failed")} /\ losses' = losses + 1
            \/ /\ made' = made /\ groups' = before
               /\ status' \in {status, Mark("Failed")} /\ losses' \in {losses, losses + 1}
<1> DEFINE F == Mark("Failed")
<1> HIDE DEF F
<1>1. CASE made < MaxMade /\ made' = made + 1 /\ groups' = Plus(before, use)
           /\ Save(recorded, TRUE) /\ UNCHANGED events
  BY <1>1, SaveOutcome DEF Outcome
<1>2. CASE made < MaxMade /\ made' = made + 1 /\ groups' = Plus(before, use)
           /\ Lost /\ status' = Mark("Failed") /\ queued' = TRUE /\ UNCHANGED events
  BY <1>2 DEF Lost
<1>3. CASE groups' = before /\ Happens /\ Save(F, TRUE) /\ UNCHANGED made
  <2>1. Outcome(F) /\ queued' \in BOOLEAN
    BY <1>3, SaveOutcome
  <2> QED
    BY <1>3, <2>1 DEF Outcome, Happens, F
<1> QED
  BY <1>1, <1>2, <1>3 DEF Import, Plus, F

\* What is used after an import.
LEMMA PlusUses ==
  ASSUME source \in Contents, made \in 0..MaxMade, made < MaxMade,
         NEW before \in [Ids -> Groups], NEW use \in {"flow", "temp"}
  PROVE  /\ Plus(before, use) \in [Ids -> Groups] /\ made + 1 \in Ids /\ made + 1 \in 0..MaxMade
         /\ \A id \in Ids : Plus(before, use)[id].use = IF id = made + 1 THEN use ELSE before[id].use
<1>1. made + 1 \in Ids /\ made + 1 \in 0..MaxMade
  BY BoundsAssumption DEF Ids
<1>2. [use |-> use, content |-> source, settled |-> FALSE] \in Groups
  BY ContentAssumption DEF Groups, Contents
<1> QED
  BY <1>1, <1>2 DEF Plus

\* What is used after a deletion.
LEMMA WithoutUses ==
  ASSUME groups \in [Ids -> Groups], NEW ids
  PROVE  /\ Without(ids) \in [Ids -> Groups]
         /\ \A id \in Ids : Without(ids)[id].use = IF id \in ids THEN "none" ELSE groups[id].use
<1>1. NoGroup \in Groups /\ NoGroup.use = "none"
  BY ContentAssumption DEF NoGroup, Groups, None
<1> QED
  BY <1>1 DEF Without

\* s is a status that says the same of groups and results as the one there is.
SameIds(s) ==
  /\ s \in Statuses
  /\ s.pg = status.pg /\ s.digest = status.digest /\ s.target = status.target
  /\ s.candidate = status.candidate /\ s.retiring = status.retiring
  /\ s.temp = status.temp /\ s.phase = status.phase /\ s.result = status.result

LEMMA MarksSame ==
  ASSUME status \in Statuses
  PROVE  SameIds(status) /\ \A why \in Reasons : SameIds(Mark(why))
BY DEF SameIds, Mark, Statuses

-----------------------------------------------------------------------------
(* What a reconcile does to groups *)

\* A flow more that is not known is one more loss; a temporary group more is the only one or
\* one more deletion that failed.
FlowsStep ==
  \/ Unknown' \subseteq Unknown
  \/ losses' + leaks' > losses + leaks /\ \E x : Unknown' \subseteq Unknown \cup {x}
TempsStep ==
  \/ Temps' \subseteq Temps
  \/ \E x : Temps' \subseteq {x}
  \/ leaks' > leaks /\ \E x : Temps' \subseteq Temps \cup {x}

\* What every reconcile of a live deployment does.
Handled ==
  /\ Sound(status', made') /\ GroupsInv' /\ FlowsStep /\ TempsStep /\ TempsKnown'
  /\ losses' \in {losses, losses + 1} /\ leaks' \in {leaks, leaks + 1}
  /\ events' \in {events, events + 1}
  /\ queued' \in BOOLEAN /\ late' \in BOOLEAN /\ checked' \in 0..MaxContent
  /\ ValidIsTrue'

\* What a reconcile starts from.
Before ==
  /\ TypeOK /\ StatusInv /\ GroupsInv /\ TempsKnown /\ ValidIsTrue
  /\ UNCHANGED <<source, strategy>>

\* The uses of groups, and the flows and temporary groups by their use.
LEMMA UsesTyped ==
  ASSUME TypeOK
  PROVE  /\ Flows \in SUBSET Ids /\ Temps \in SUBSET Ids /\ None \notin Ids
         /\ losses \in Nat /\ leaks \in Nat /\ events \in Nat
<1>1. Flows \in SUBSET Ids /\ Temps \in SUBSET Ids
  BY DEF Flows, Temps
<1>2. None \notin Ids
  BY DEF Ids, None
<1>3. losses \in Nat /\ leaks \in Nat /\ events \in Nat
  <2>1. losses \in 0..MaxEvents /\ leaks \in 0..MaxEvents /\ events \in 0..MaxEvents
    BY DEF TypeOK
  <2> QED
    BY <2>1, BoundsAssumption
<1> QED
  BY <1>1, <1>2, <1>3

\* A reconcile that leaves NiFi alone and goes on with the same groups.
LEMMA QuietHandled ==
  ASSUME Before, NEW s, SameIds(s), Outcome(s), UNCHANGED <<groups, made, late, checked, leaks>>,
         events' \in {events, events + 1}, queued' \in BOOLEAN
  PROVE  Handled
<1> USE DEF Before
<1>1. SameIds(status') /\ losses' \in {losses, losses + 1}
  BY MarksSame DEF Outcome, TypeOK
<1>2. Sound(status', made')
  BY <1>1 DEF SameIds, StatusInv, Sound
<1>3. GroupsInv'
  BY DEF GroupsInv
<1>4. Flows' = Flows /\ Temps' = Temps /\ KnownBy(status)' = KnownBy(status)
  BY <1>1 DEF Flows, Temps, KnownBy, SameIds
<1>5. FlowsStep /\ TempsStep
  BY <1>4 DEF FlowsStep, TempsStep, Unknown
<1>6. TempsKnown'
  BY <1>1, <1>4, UsesTyped DEF TempsKnown, SameIds
<1>7. ValidIsTrue'
  BY <1>1 DEF ValidIsTrue, SameIds
<1> QED
  BY <1>1, <1>2, <1>3, <1>5, <1>6, <1>7 DEF Handled, TypeOK

\* The rest of Handled, for a reconcile that does not look into a group.
LEMMA RestHandled ==
  ASSUME Before, UNCHANGED <<late, checked>>, status'.result = status.result,
         queued' \in BOOLEAN, events' \in {events, events + 1},
         losses' \in {losses, losses + 1}, leaks' \in {leaks, leaks + 1},
         Sound(status', made'), GroupsInv', FlowsStep, TempsStep, TempsKnown'
  PROVE  Handled
BY DEF Handled, Before, TypeOK, ValidIsTrue

\* Deleting a group and saving s, whatever becomes of either.
LEMMA BestEffortHandled ==
  ASSUME Before, NEW id \in Ids, NEW s, BestEffort(id, s), UNCHANGED <<late, checked>>,
         Sound(s, made), s.temp = status.temp, s.result = status.result,
         KnownBy(status) \subseteq KnownBy(s) \cup {id}
  PROVE  Handled
<1> USE DEF Before
<1>1. Outcome(s) /\ queued' \in BOOLEAN /\ UNCHANGED <<made, events>>
  <2>1. Save(s, TRUE) /\ queued \in BOOLEAN
    BY DEF BestEffort, TypeOK
  <2> QED
    BY <2>1, SaveOutcome DEF BestEffort
<1>2. /\ status'.result = status.result /\ status'.temp = status.temp
      /\ losses' \in {losses, losses + 1} /\ Sound(status', made')
  BY <1>1 DEF Outcome, StatusInv
<1>3. KnownBy(status)' \in {KnownBy(s), KnownBy(status)}
  BY <1>1 DEF Outcome, KnownBy
<1>4. groups \in [Ids -> Groups]
  BY DEF TypeOK
<1>5. CASE groups' = Without({id}) /\ UNCHANGED leaks
  <2>1. /\ groups' \in [Ids -> Groups]
        /\ \A i \in Ids : groups'[i].use = IF i = id THEN "none" ELSE groups[i].use
    BY <1>4, <1>5, WithoutUses
  <2>2. GroupsInv'
    BY <1>1, <2>1 DEF GroupsInv
  <2>3. Flows' = Flows \ {id} /\ Temps' \subseteq Temps
    BY <2>1 DEF Flows, Temps
  <2>4. FlowsStep
    BY <1>3, <2>3 DEF FlowsStep, Unknown
  <2>5. TempsStep /\ TempsKnown'
    BY <1>2, <1>5, <2>3, UsesTyped DEF TempsStep, TempsKnown
  <2> QED
    BY <1>1, <1>2, <1>5, <2>2, <2>4, <2>5, RestHandled
<1>6. CASE leaks' = leaks + 1 /\ UNCHANGED groups
  <2>1. GroupsInv' /\ Flows' = Flows /\ Temps' = Temps
    BY <1>1, <1>6 DEF GroupsInv, Flows, Temps
  <2>2. Unknown' \subseteq Unknown \cup {id}
    BY <1>3, <2>1 DEF Unknown
  <2>3. losses' + leaks' > losses + leaks /\ losses' + leaks' # 0
    BY <1>2, <1>6, UsesTyped
  <2>4. FlowsStep /\ TempsStep /\ TempsKnown'
    BY <2>1, <2>2, <2>3 DEF FlowsStep, TempsStep, TempsKnown
  <2> QED
    BY <1>1, <1>2, <1>6, <2>1, <2>4, RestHandled
<1> QED
  BY <1>5, <1>6 DEF BestEffort

\* A status that is sound stays so when more groups are made.
LEMMA SoundLater ==
  ASSUME made \in Nat, NEW s, Sound(s, made)
  PROVE  Sound(s, made + 1)
<1>1. 0..made \subseteq 0..(made + 1)
  OBVIOUS
<1> QED
  BY <1>1 DEF Sound

\* Importing the flow, whether as the live group or as the candidate.
LEMMA FlowImportHandled ==
  ASSUME Before, NEW s, Import(groups, "flow", s), UNCHANGED <<late, checked, leaks>>,
         made < MaxMade =>
           /\ Sound(s, made + 1) /\ s.temp = status.temp /\ s.result = status.result
           /\ made + 1 \in KnownBy(s) /\ KnownBy(status) \subseteq KnownBy(s) \cup {None}
  PROVE  Handled
<1> USE DEF Before
<1>0. /\ groups \in [Ids -> Groups] /\ source \in Contents /\ made \in 0..MaxMade
      /\ queued \in BOOLEAN /\ status \in Statuses /\ made \in Nat
  <2>1. /\ groups \in [Ids -> Groups] /\ source \in Contents /\ made \in 0..MaxMade
        /\ queued \in BOOLEAN /\ status \in Statuses
    BY DEF TypeOK
  <2> QED
    BY <2>1, BoundsAssumption
<1>1. /\ queued' \in BOOLEAN /\ events' \in {events, events + 1}
      /\ \/ /\ made < MaxMade /\ made' = made + 1 /\ groups' = Plus(groups, "flow")
            /\ status' = s /\ losses' = losses
         \/ /\ made < MaxMade /\ made' = made + 1 /\ groups' = Plus(groups, "flow")
            /\ status' \in {status, Mark("Failed")} /\ losses' = losses + 1
         \/ /\ made' = made /\ groups' = groups
            /\ status' \in {status, Mark("Failed")} /\ losses' \in {losses, losses + 1}
  BY <1>0, ImportOutcome
<1>2. SameIds(status) /\ SameIds(Mark("Failed"))
  BY <1>0, MarksSame DEF Reasons
<1>3. ASSUME SameIds(status')
      PROVE  /\ Sound(status', made) /\ status'.temp = status.temp
             /\ status'.result = status.result /\ KnownBy(status)' = KnownBy(status)
  BY <1>3 DEF SameIds, StatusInv, Sound, KnownBy
<1>4. ASSUME made < MaxMade, made' = made + 1, groups' = Plus(groups, "flow")
      PROVE  GroupsInv' /\ Flows' = Flows \cup {made + 1} /\ Temps' = Temps /\ made + 1 \in Ids
  <2>1. /\ groups' \in [Ids -> Groups] /\ made + 1 \in Ids /\ made' \in 0..MaxMade
        /\ \A id \in Ids : groups'[id].use = IF id = made + 1 THEN "flow" ELSE groups[id].use
    BY <1>0, <1>4, PlusUses
  <2>2. \A id \in Ids : id > made => groups[id].use = "none"
    BY DEF GroupsInv
  <2>3. \A id \in Ids : id > made' => groups'[id].use = "none"
    BY <1>0, <1>4, <2>1, <2>2 DEF Ids
  <2>4. Temps' = Temps
    <3>1. groups[made + 1].use = "none"
      BY <1>0, <2>1, <2>2
    <3> QED
      BY <2>1, <3>1 DEF Temps
  <2>5. Flows' = Flows \cup {made + 1}
    BY <2>1 DEF Flows
  <2> QED
    BY <2>1, <2>3, <2>4, <2>5 DEF GroupsInv
<1>5. CASE /\ made < MaxMade /\ made' = made + 1 /\ groups' = Plus(groups, "flow")
           /\ status' = s /\ losses' = losses
  <2>1. GroupsInv' /\ Flows' = Flows \cup {made + 1} /\ Temps' = Temps
    BY <1>4, <1>5
  <2>2. KnownBy(status)' = KnownBy(s)
    BY <1>5 DEF KnownBy
  <2>3. Unknown' \subseteq Unknown
    BY <1>5, <2>1, <2>2, UsesTyped DEF Unknown
  <2>4. FlowsStep /\ TempsStep /\ TempsKnown'
    BY <1>5, <2>1, <2>3 DEF FlowsStep, TempsStep, TempsKnown
  <2> QED
    BY <1>1, <1>5, <2>1, <2>4, RestHandled
<1>6. CASE /\ made < MaxMade /\ made' = made + 1 /\ groups' = Plus(groups, "flow")
           /\ status' \in {status, Mark("Failed")} /\ losses' = losses + 1
  <2>1. GroupsInv' /\ Flows' = Flows \cup {made + 1} /\ Temps' = Temps
    BY <1>4, <1>6
  <2>2. /\ Sound(status', made) /\ status'.temp = status.temp
        /\ status'.result = status.result /\ KnownBy(status)' = KnownBy(status)
    BY <1>2, <1>3, <1>6
  <2>3. Sound(status', made')
    BY <1>0, <1>6, <2>2, SoundLater
  <2>4. Unknown' \subseteq Unknown \cup {made + 1}
    BY <2>1, <2>2 DEF Unknown
  <2>5. losses' + leaks' > losses + leaks /\ losses' + leaks' # 0
    BY <1>6, UsesTyped
  <2>6. FlowsStep /\ TempsStep /\ TempsKnown'
    BY <2>1, <2>4, <2>5 DEF FlowsStep, TempsStep, TempsKnown
  <2> QED
    BY <1>1, <1>6, <2>1, <2>2, <2>3, <2>6, RestHandled
<1>7. CASE /\ made' = made /\ groups' = groups
           /\ status' \in {status, Mark("Failed")} /\ losses' \in {losses, losses + 1}
  <2>1. /\ Sound(status', made') /\ status'.temp = status.temp
        /\ status'.result = status.result /\ KnownBy(status)' = KnownBy(status)
    BY <1>2, <1>3, <1>7
  <2>2. GroupsInv' /\ Flows' = Flows /\ Temps' = Temps
    BY <1>7 DEF GroupsInv, Flows, Temps
  <2>3. FlowsStep /\ TempsStep /\ TempsKnown'
    BY <1>7, <2>1, <2>2, UsesTyped DEF FlowsStep, TempsStep, TempsKnown, Unknown
  <2> QED
    BY <1>1, <1>7, <2>1, <2>2, <2>3, RestHandled
<1> QED
  BY <1>1, <1>5, <1>6, <1>7

\* Where the dry run starts from: the groups of earlier attempts are deleted, or that failed.
LEMMA StaleUses ==
  ASSUME GroupsInv, NEW rest \in CleanupStale
  PROVE  /\ rest[1] \in [Ids -> Groups]
         /\ \/ rest[2] = 0 /\ \A id \in Ids : rest[1][id].use =
                                  IF groups[id].use = "temp" THEN "none" ELSE groups[id].use
            \/ rest[2] = 1 /\ rest[1] = groups
<1>1. rest = <<Without(Temps), 0>> \/ rest = <<groups, 1>>
  BY DEF CleanupStale
<1>2. groups \in [Ids -> Groups]
  BY DEF GroupsInv
<1>3. /\ Without(Temps) \in [Ids -> Groups]
      /\ \A id \in Ids : Without(Temps)[id].use = IF id \in Temps THEN "none" ELSE groups[id].use
  BY <1>2, WithoutUses
<1>4. CASE rest = <<Without(Temps), 0>>
  <2>1. rest[1] = Without(Temps) /\ rest[2] = 0
    BY <1>4
  <2> QED
    BY <2>1, <1>3 DEF Temps
<1>5. CASE rest = <<groups, 1>>
  BY <1>5, <1>2
<1> QED
  BY <1>1, <1>4, <1>5

-----------------------------------------------------------------------------
(* The dry run *)

\* Starting a dry run: its group is recorded, or lost, or not made.
LEMMA StartHandled ==
  ASSUME Before, status.phase = "none", StartFlowValidation, UNCHANGED checked
  PROVE  Handled
<1> USE DEF Before
<1>0. /\ source \in Contents /\ made \in 0..MaxMade /\ made \in Nat
      /\ queued \in BOOLEAN /\ late \in BOOLEAN /\ status \in Statuses
  <2>1. /\ source \in Contents /\ made \in 0..MaxMade
        /\ queued \in BOOLEAN /\ late \in BOOLEAN /\ status \in Statuses
    BY DEF TypeOK
  <2> QED
    BY <2>1, BoundsAssumption
<1>1. CASE AlreadyChecked /\ queued' = FALSE /\ UNCHANGED <<status, nifi, late, events, losses, leaks>>
  <2>1. Outcome(status) /\ SameIds(status)
    BY <1>0, <1>1, MarksSame DEF Outcome
  <2> QED
    BY <1>1, <2>1, QuietHandled DEF nifi
<1>2. ASSUME NEW rest \in CleanupStale,
             Import(rest[1], "temp",
               [Mark("Validating") EXCEPT !.temp = made + 1, !.phase = "Validating"]),
             leaks' = leaks + rest[2], late' = FALSE
      PROVE  Handled
  <2> DEFINE s == [Mark("Validating") EXCEPT !.temp = made + 1, !.phase = "Validating"]
             g == rest[1]
  <2>1. /\ g \in [Ids -> Groups]
        /\ \/ rest[2] = 0 /\ \A id \in Ids : g[id].use =
                                 IF groups[id].use = "temp" THEN "none" ELSE groups[id].use
           \/ rest[2] = 1 /\ g = groups
    BY <1>2, StaleUses
  <2>2. SameIds(status) /\ SameIds(Mark("Failed")) /\ SameIds(Mark("Validating"))
    BY <1>0, MarksSame DEF Reasons
  <2>3. Import(g, "temp", s)
    BY <1>2
  <2>4. ASSUME made < MaxMade
        PROVE  Sound(s, made + 1) /\ s.temp = made + 1 /\ s.result = status.result
               /\ KnownBy(s) = KnownBy(status)
    <3>1. made + 1 \in 0..MaxMade /\ made + 1 # 0 /\ made + 1 \notin 0..made
      BY <1>0, <2>4, BoundsAssumption
    <3>2. Mark("Validating") \in Statuses
      BY <2>2 DEF SameIds
    <3>3. s \in Statuses
      BY <3>1, <3>2 DEF Statuses
    <3>4. Sound(status, made + 1) /\ Sound(status, made)
      BY <1>0, SoundLater DEF StatusInv
    <3>5. /\ s.pg = status.pg /\ s.digest = status.digest /\ s.target = status.target
          /\ s.candidate = status.candidate /\ s.retiring = status.retiring
          /\ s.result = status.result /\ s.temp = made + 1 /\ s.phase = "Validating"
      BY <3>2, <2>2 DEF SameIds, Statuses
    <3>6. made + 1 \in 0..(made + 1)
      BY <1>0
    <3>7. s.candidate # s.temp
      BY <3>1, <3>4, <3>5 DEF Sound
    <3> HIDE DEF s
    <3> QED
      BY <3>1, <3>3, <3>4, <3>5, <3>6, <3>7 DEF Sound, KnownBy, None
  <2> HIDE DEF s, g
  <2>5. /\ queued' \in BOOLEAN /\ events' \in {events, events + 1}
        /\ \/ /\ made < MaxMade /\ made' = made + 1 /\ groups' = Plus(g, "temp")
              /\ status' = s /\ losses' = losses
           \/ /\ made < MaxMade /\ made' = made + 1 /\ groups' = Plus(g, "temp")
              /\ status' \in {status, Mark("Failed")} /\ losses' = losses + 1
           \/ /\ made' = made /\ groups' = g
              /\ status' \in {status, Mark("Failed")} /\ losses' \in {losses, losses + 1}
    BY <1>0, <2>3, ImportOutcome
  <2>6. ASSUME SameIds(status')
        PROVE  /\ Sound(status', made) /\ status'.temp = status.temp
               /\ status'.result = status.result /\ KnownBy(status)' = KnownBy(status)
    BY <2>6 DEF SameIds, StatusInv, Sound, KnownBy
  <2>7. leaks' \in {leaks, leaks + 1} /\ leaks' >= leaks
    BY <1>2, <2>1, UsesTyped
  <2>8. /\ \A id \in Ids : id > made => g[id].use = "none"
        /\ \A id \in Ids : g[id].use = "flow" <=> groups[id].use = "flow"
        /\ \A id \in Ids : g[id].use = "temp" => groups[id].use = "temp" /\ leaks' = leaks + 1
    BY <1>2, <2>1 DEF GroupsInv
  <2>9. ASSUME made < MaxMade, made' = made + 1, groups' = Plus(g, "temp")
        PROVE  /\ GroupsInv' /\ Flows' = Flows /\ TempsStep
               /\ leaks' = leaks => Temps' = {made + 1}
    <3>1. /\ groups' \in [Ids -> Groups] /\ made + 1 \in Ids /\ made' \in 0..MaxMade
          /\ \A id \in Ids : groups'[id].use = IF id = made + 1 THEN "temp" ELSE g[id].use
      BY <1>0, <2>1, <2>9, PlusUses
    <3>2. \A id \in Ids : id > made' => groups'[id].use = "none"
      BY <1>0, <2>8, <2>9, <3>1 DEF Ids
    <3>3. g[made + 1].use = "none"
      BY <1>0, <2>8, <3>1
    <3>4. Flows' = Flows
      BY <2>8, <3>1, <3>3 DEF Flows
    <3>5. leaks' = leaks + 1 => Temps' \subseteq Temps \cup {made + 1}
      BY <2>8, <3>1 DEF Temps
    <3>6. leaks' = leaks => Temps' = {made + 1}
      <4>1. leaks + 1 # leaks
        BY UsesTyped
      <4> QED
        BY <2>8, <3>1, <4>1 DEF Temps
    <3>7. leaks' = leaks + 1 => leaks' > leaks
      BY UsesTyped
    <3> QED
      BY <2>7, <3>1, <3>2, <3>4, <3>5, <3>6, <3>7 DEF GroupsInv, TempsStep
  <2>10. CASE /\ made < MaxMade /\ made' = made + 1 /\ groups' = Plus(g, "temp")
              /\ status' = s /\ losses' = losses
    <3>1. /\ GroupsInv' /\ Flows' = Flows /\ TempsStep
          /\ leaks' = leaks => Temps' = {made + 1}
      BY <2>9, <2>10
    <3>2. /\ Sound(status', made') /\ status'.temp = made + 1 /\ status'.result = status.result
          /\ KnownBy(status)' = KnownBy(status)
      BY <2>4, <2>10 DEF KnownBy
    <3>3. FlowsStep
      BY <3>1, <3>2 DEF FlowsStep, Unknown
    <3>4. TempsKnown'
      <4>1. losses' + leaks' = 0 => leaks' = leaks
        BY <2>7, <2>10, UsesTyped
      <4> QED
        BY <3>1, <3>2, <4>1 DEF TempsKnown
    <3> QED
      BY <1>2, <2>5, <2>7, <2>10, <3>1, <3>2, <3>3, <3>4 DEF Handled, TypeOK, ValidIsTrue
  <2>11. CASE /\ made < MaxMade /\ made' = made + 1 /\ groups' = Plus(g, "temp")
              /\ status' \in {status, Mark("Failed")} /\ losses' = losses + 1
    <3>1. /\ GroupsInv' /\ Flows' = Flows /\ TempsStep
      BY <2>9, <2>11
    <3>2. /\ Sound(status', made) /\ status'.result = status.result
          /\ KnownBy(status)' = KnownBy(status)
      BY <2>2, <2>6, <2>11
    <3>3. FlowsStep
      BY <3>1, <3>2 DEF FlowsStep, Unknown
    <3>4. TempsKnown'
      <4>1. losses' + leaks' # 0
        BY <2>7, <2>11, UsesTyped
      <4> QED
        BY <4>1 DEF TempsKnown
    <3>5. Sound(status', made')
      BY <1>0, <2>11, <3>2, SoundLater
    <3> QED
      BY <1>2, <2>5, <2>7, <2>11, <3>1, <3>2, <3>3, <3>4, <3>5 DEF Handled, TypeOK, ValidIsTrue
  <2>12. CASE /\ made' = made /\ groups' = g
              /\ status' \in {status, Mark("Failed")} /\ losses' \in {losses, losses + 1}
    <3>1. /\ Sound(status', made') /\ status'.temp = status.temp
          /\ status'.result = status.result /\ KnownBy(status)' = KnownBy(status)
      BY <2>2, <2>6, <2>12
    <3>2. GroupsInv' /\ Flows' = Flows /\ Temps' \subseteq Temps
      BY <2>1, <2>8, <2>12 DEF GroupsInv, Flows, Temps
    <3>3. FlowsStep /\ TempsStep
      BY <3>1, <3>2 DEF FlowsStep, TempsStep, Unknown
    <3>4. TempsKnown'
      <4>1. losses' + leaks' = 0 => losses + leaks = 0
        BY <2>7, <2>12, UsesTyped
      <4> QED
        BY <3>1, <3>2, <4>1 DEF TempsKnown
    <3> QED
      BY <1>2, <2>5, <2>7, <2>12, <3>1, <3>2, <3>3, <3>4 DEF Handled, TypeOK, ValidIsTrue
  <2> QED
    BY <2>5, <2>10, <2>11, <2>12
<1> QED
  BY <1>1, <1>2 DEF StartFlowValidation

\* A look into the group of the dry run: the result is recorded with what was looked at.
LEMMA InspectHandled ==
  ASSUME Before, status.phase = "Validating", Inspect, UNCHANGED <<groups, made, late>>
  PROVE  Handled
<1> USE DEF Before
<1> DEFINE g == groups[status.temp]
           s == [status EXCEPT !.phase = "Cleanup", !.result = BuildFlowValidationResult(g)]
<1>0. /\ queued \in BOOLEAN /\ status \in Statuses /\ groups \in [Ids -> Groups]
      /\ source \in Contents /\ StatusInv
  BY DEF TypeOK
<1>1. status.temp \in Ids /\ g \in Groups
  <2>1. status.temp # None /\ status.temp \in 0..MaxMade
    BY <1>0 DEF StatusInv, Sound, Statuses
  <2>2. status.temp \in Ids
    BY <2>1, BoundsAssumption DEF Ids, None
  <2> QED
    BY <1>0, <2>2
<1>2. s \in Statuses /\ s.result = BuildFlowValidationResult(g) /\ s.phase = "Cleanup"
      /\ s.pg = status.pg /\ s.digest = status.digest /\ s.target = status.target
      /\ s.candidate = status.candidate /\ s.retiring = status.retiring /\ s.temp = status.temp
  <2>1. BuildFlowValidationResult(g) \in Results
    <3>1. source \in 0..MaxContent
      BY <1>0, ContentAssumption DEF Contents
    <3>2. (g.settled /\ g.content \in Valid) \in BOOLEAN
      OBVIOUS
    <3> QED
      BY <3>1, <3>2 DEF BuildFlowValidationResult, Results
  <2>2. "Cleanup" \in {"none", "Validating", "Cleanup"}
    OBVIOUS
  <2> QED
    BY <1>0, <2>1, <2>2 DEF Statuses
<1>3. BuildFlowValidationResult(g).valid => g.content \in Valid
  BY DEF BuildFlowValidationResult
<1> HIDE DEF s, g
<1>4. CASE Happens /\ Save(Mark("Failed"), TRUE) /\ UNCHANGED <<checked, leaks>>
  <2>1. SameIds(Mark("Failed"))
    BY <1>0, MarksSame DEF Reasons
  <2>2. Outcome(Mark("Failed")) /\ queued' \in BOOLEAN
    BY <1>0, <1>4, SaveOutcome
  <2> QED
    BY <1>4, <2>1, <2>2, QuietHandled DEF Happens
<1>5. CASE queued' = TRUE /\ UNCHANGED <<status, checked, events, losses, leaks>>
  <2>1. SameIds(status) /\ Outcome(status)
    BY <1>0, <1>5, MarksSame DEF Outcome
  <2> QED
    BY <1>5, <2>1, QuietHandled
<1>6. CASE /\ Save(s, TRUE)
           /\ checked' = IF status' = status THEN checked ELSE g.content
           /\ UNCHANGED <<events, leaks>>
  <2>1. Outcome(s) /\ queued' \in BOOLEAN
    BY <1>0, <1>6, SaveOutcome
  <2>2. s # status
    BY <1>2
  <2>3. Sound(s, made)
    BY <1>0, <1>1, <1>2 DEF StatusInv, Sound
  <2>4. Sound(status', made') /\ status'.temp = status.temp
    BY <1>0, <1>2, <2>1, <2>3 DEF Outcome, StatusInv
  <2>5. Flows' = Flows /\ Temps' = Temps /\ GroupsInv'
    BY DEF Flows, Temps, GroupsInv
  <2>6. KnownBy(status)' = KnownBy(status)
    BY <1>2, <2>1 DEF Outcome, KnownBy
  <2>7. FlowsStep /\ TempsStep
    BY <2>5, <2>6 DEF FlowsStep, TempsStep, Unknown
  <2>8. losses' \in {losses, losses + 1}
    BY <2>1 DEF Outcome
  <2>9. TempsKnown'
    BY <1>6, <2>4, <2>5, <2>8, UsesTyped DEF TempsKnown
  <2>10. checked' \in 0..MaxContent /\ ValidIsTrue'
    <3>1. checked \in 0..MaxContent /\ g.content \in 0..MaxContent /\ ValidIsTrue
      BY <1>1 DEF TypeOK, Groups
    <3>2. CASE status' = status
      BY <1>6, <3>1, <3>2 DEF ValidIsTrue
    <3>3. CASE status' = s
      <4>1. checked' = g.content
        BY <1>6, <2>2, <3>3
      <4>2. status'.result.valid => g.content \in Valid
        BY <1>2, <1>3, <3>3
      <4> QED
        BY <3>1, <4>1, <4>2 DEF ValidIsTrue
    <3> QED
      BY <2>1, <3>2, <3>3 DEF Outcome
  <2>11. late' \in BOOLEAN
    BY DEF TypeOK
  <2> QED
    BY <1>6, <2>1, <2>4, <2>5, <2>7, <2>8, <2>9, <2>10, <2>11 DEF Handled
<1> QED
  BY <1>4, <1>5, <1>6 DEF Inspect, s, g

\* The end of a dry run: its group is deleted before its result is made known.
LEMMA CleanupHandled ==
  ASSUME Before, status.phase = "Cleanup", Cleanup, UNCHANGED <<made, late, checked>>
  PROVE  Handled
<1> USE DEF Before
<1>0. queued \in BOOLEAN /\ status \in Statuses /\ groups \in [Ids -> Groups] /\ StatusInv
  BY DEF TypeOK
<1>1. CASE Happens /\ queued' = TRUE /\ UNCHANGED <<groups, status, losses>>
  <2>1. SameIds(status) /\ Outcome(status) /\ UNCHANGED leaks
    BY <1>0, <1>1, MarksSame DEF Outcome, Cleanup
  <2> QED
    BY <1>1, <2>1, QuietHandled DEF Happens
<1>2. CASE groups' = Without({status.temp}) /\ Save(Finalized, FALSE) /\ UNCHANGED events
  <2>1. Outcome(Finalized) /\ queued' \in BOOLEAN
    BY <1>0, <1>2, SaveOutcome
  <2>2. /\ Finalized \in Statuses /\ Finalized.result = status.result
        /\ Finalized.phase = "none" /\ Finalized.temp = None
        /\ Finalized.pg = status.pg /\ Finalized.digest = status.digest
        /\ Finalized.target = status.target /\ Finalized.candidate = status.candidate
        /\ Finalized.retiring = status.retiring
    <3> DEFINE why == IF status.result.valid THEN "Ready" ELSE "ValidationFailed"
    <3>1. why \in Reasons
      BY DEF Reasons
    <3> HIDE DEF why
    <3>2. SameIds(Mark(why))
      BY <1>0, <3>1, MarksSame
    <3>3. None \in 0..MaxMade /\ "none" \in {"none", "Validating", "Cleanup"}
      BY BoundsAssumption DEF None
    <3>4. Finalized = [Mark(why) EXCEPT !.temp = None, !.phase = "none"]
      BY DEF Finalized, why
    <3> QED
      BY <3>2, <3>3, <3>4 DEF SameIds, Statuses
  <2>3. Sound(Finalized, made)
    <3>1. None \in 0..made
      BY DEF None, GroupsInv
    <3> QED
      BY <1>0, <2>2, <3>1 DEF StatusInv, Sound
  <2>4. /\ Sound(status', made') /\ status'.result = status.result
        /\ losses' \in {losses, losses + 1} /\ UNCHANGED leaks
    BY <1>0, <2>1, <2>2, <2>3 DEF Outcome, StatusInv, Cleanup
  <2>5. KnownBy(status)' = KnownBy(status)
    BY <2>1, <2>2 DEF Outcome, KnownBy
  <2>6. /\ groups' \in [Ids -> Groups]
        /\ \A id \in Ids : groups'[id].use = IF id = status.temp THEN "none" ELSE groups[id].use
    BY <1>0, <1>2, WithoutUses
  <2>7. GroupsInv'
    BY <2>6 DEF GroupsInv
  <2>8. Flows' \subseteq Flows /\ Temps' = Temps \ {status.temp}
    BY <2>6 DEF Flows, Temps
  <2>9. FlowsStep /\ TempsStep
    BY <2>5, <2>8 DEF FlowsStep, TempsStep, Unknown
  <2>10. TempsKnown'
    <3>1. losses' + leaks' = 0 => losses + leaks = 0
      BY <2>4, UsesTyped
    <3> QED
      BY <2>8, <3>1 DEF TempsKnown
  <2> QED
    BY <1>2, <2>1, <2>4, <2>7, <2>9, <2>10, RestHandled
<1> QED
  BY <1>1, <1>2 DEF Cleanup

\* A dry run's reconcile.
LEMMA ValidationHandled ==
  ASSUME Before, ReconcileFlowValidation
  PROVE  Handled
<1> USE DEF Before
<1>0. queued \in BOOLEAN /\ status \in Statuses
  BY DEF TypeOK
<1>1. CASE /\ Save(Mark("ValidateOnlyConflict"), FALSE)
           /\ UNCHANGED <<nifi, late, checked, events, leaks>>
  <2>1. SameIds(Mark("ValidateOnlyConflict"))
    BY <1>0, MarksSame DEF Reasons
  <2>2. Outcome(Mark("ValidateOnlyConflict")) /\ queued' \in BOOLEAN
    BY <1>0, <1>1, SaveOutcome
  <2> QED
    BY <1>1, <2>1, <2>2, QuietHandled DEF nifi
<1> QED
  BY <1>1, StartHandled, InspectHandled, CleanupHandled DEF ReconcileFlowValidation, nifi

-----------------------------------------------------------------------------
(* Deployment *)

\* The status of a flow that is what the source is.
LEMMA InSyncIs ==
  ASSUME TypeOK
  PROVE  /\ InSync \in Statuses /\ InSync.result = status.result
         /\ InSync.phase = status.phase /\ InSync.temp = status.temp
         /\ InSync.pg = status.pg /\ InSync.retiring = status.retiring
         /\ InSync.digest = source /\ InSync.target = None /\ InSync.candidate = None
<1>1. status \in Statuses /\ source \in 0..MaxContent
  BY ContentAssumption DEF TypeOK, Contents
<1>2. None \in 0..MaxContent /\ None \in 0..MaxMade
  BY ContentAssumption, BoundsAssumption DEF None
<1>3. SameIds(Mark("Ready"))
  BY <1>1, MarksSame DEF Reasons
<1> QED
  BY <1>1, <1>2, <1>3 DEF InSync, SameIds, Statuses

\* The source's number.
LEMMA SourceIs ==
  ASSUME TypeOK
  PROVE  source \in 1..MaxContent /\ source \in Nat /\ source # None
BY ContentAssumption DEF TypeOK, Contents, None

\* A status that knows no candidate, with groups of the same uses: a poll, and a replacement
\* in place.
LEMMA InSyncHandled ==
  ASSUME Before, status.candidate = None, status.pg # None,
         Save(InSync, TRUE), UNCHANGED <<made, late, checked, leaks, events>>,
         groups' \in [Ids -> Groups], \A id \in Ids : groups'[id].use = groups[id].use
  PROVE  Handled
<1> USE DEF Before
<1>0. queued \in BOOLEAN /\ StatusInv /\ source \in 1..MaxContent /\ source # None /\ source \in Nat
  BY SourceIs DEF TypeOK
<1>1. Outcome(InSync) /\ queued' \in BOOLEAN
  BY <1>0, SaveOutcome
<1>2. Sound(InSync, made)
  <2>1. source \in 1..source
    BY <1>0
  <2> QED
    BY <1>0, <2>1, InSyncIs DEF StatusInv, Sound
<1>3. /\ Sound(status', made') /\ status'.result = status.result /\ status'.temp = status.temp
      /\ losses' \in {losses, losses + 1}
  BY <1>0, <1>1, <1>2, InSyncIs DEF Outcome, StatusInv
<1>4. GroupsInv' /\ Flows' = Flows /\ Temps' = Temps
  BY DEF GroupsInv, Flows, Temps
<1>5. KnownBy(status) \subseteq KnownBy(status)' \cup {None}
  BY <1>1, InSyncIs DEF Outcome, KnownBy
<1>6. FlowsStep /\ TempsStep
  BY <1>4, <1>5, UsesTyped DEF FlowsStep, TempsStep, Unknown
<1>7. TempsKnown'
  BY <1>3, <1>4, UsesTyped DEF TempsKnown
<1> QED
  BY <1>1, <1>3, <1>4, <1>6, <1>7, RestHandled

\* Retiring the group before.
LEMMA RetireHandled ==
  ASSUME Before, status.retiring # None, Retire, UNCHANGED <<late, checked>>
  PROVE  Handled
<1> USE DEF Before
<1> DEFINE s == [status EXCEPT !.retiring = None]
<1>1. status \in Statuses /\ StatusInv
  BY DEF TypeOK
<1>2. status.retiring \in Ids
  <2>1. status.retiring \in 0..MaxMade
    BY <1>1 DEF Statuses
  <2> QED
    BY <2>1, BoundsAssumption DEF Ids, None
<1>3. None \in 0..MaxMade /\ None \in 0..made
  BY BoundsAssumption DEF None, GroupsInv
<1>4. /\ s \in Statuses /\ s.result = status.result /\ s.temp = status.temp
      /\ s.phase = status.phase /\ s.pg = status.pg /\ s.retiring = None
      /\ s.digest = status.digest /\ s.target = status.target /\ s.candidate = status.candidate
  BY <1>1, <1>3 DEF Statuses
<1>5. BestEffort(status.retiring, s)
  BY DEF Retire
<1> HIDE DEF s
<1>6. Sound(s, made)
  BY <1>1, <1>3, <1>4 DEF StatusInv, Sound
<1>7. KnownBy(status) \subseteq KnownBy(s) \cup {status.retiring}
  BY <1>4 DEF KnownBy
<1> QED
  BY <1>2, <1>4, <1>5, <1>6, <1>7, BestEffortHandled

\* The first import.
LEMMA ImportFlowHandled ==
  ASSUME Before, status.pg = None, status.retiring = None, ImportFlow, UNCHANGED <<late, checked>>
  PROVE  Handled
<1> USE DEF Before
<1> DEFINE s == [Mark("Rollout") EXCEPT !.pg = made + 1, !.digest = source]
<1>1. /\ status \in Statuses /\ StatusInv /\ made \in 0..MaxMade
      /\ source \in 0..MaxContent /\ source \in 1..source
  BY SourceIs DEF TypeOK
<1>2. SameIds(Mark("Rollout"))
  BY <1>1, MarksSame DEF Reasons
<1>3. ASSUME made < MaxMade
      PROVE  /\ Sound(s, made + 1) /\ s.temp = status.temp /\ s.result = status.result
             /\ made + 1 \in KnownBy(s) /\ KnownBy(status) \subseteq KnownBy(s) \cup {None}
  <2>1. made + 1 \in 0..MaxMade /\ made + 1 \in 0..(made + 1) /\ made + 1 # None /\ made \in Nat
    BY <1>1, <1>3, BoundsAssumption DEF None
  <2>2. /\ s \in Statuses /\ s.result = status.result /\ s.temp = status.temp
        /\ s.phase = status.phase /\ s.pg = made + 1 /\ s.retiring = status.retiring
        /\ s.digest = source /\ s.target = status.target /\ s.candidate = status.candidate
    BY <1>1, <1>2, <2>1 DEF SameIds, Statuses
  <2> HIDE DEF s
  <2>3. Sound(status, made + 1) /\ status.candidate = None
    BY <1>1, <2>1, SoundLater DEF StatusInv, Sound
  <2>4. Sound(s, made + 1)
    BY <1>1, <2>1, <2>2, <2>3 DEF Sound
  <2> QED
    BY <2>2, <2>3, <2>4 DEF KnownBy
<1>4. Import(groups, "flow", s) /\ UNCHANGED leaks
  BY DEF ImportFlow
<1> HIDE DEF s
<1> QED
  BY <1>3, <1>4, FlowImportHandled

\* A replacement in place.
LEMMA InPlaceHandled ==
  ASSUME Before, status.pg # None, strategy = "InPlace", RolloutInPlace, UNCHANGED <<late, checked>>
  PROVE  Handled
<1> USE DEF Before
<1>1. /\ status \in Statuses /\ StatusInv /\ groups \in [Ids -> Groups] /\ queued \in BOOLEAN
      /\ source \in 0..MaxContent
  BY SourceIs DEF TypeOK
<1>2. status.pg \in Ids
  <2>1. status.pg \in 0..MaxMade
    BY <1>1 DEF Statuses
  <2> QED
    BY <2>1, BoundsAssumption DEF Ids, None
<1>3. status.candidate = None
  BY <1>1 DEF StatusInv, Sound
<1>4. CASE /\ groups' = [groups EXCEPT ![status.pg].content = source] /\ Save(InSync, TRUE)
           /\ UNCHANGED events
  <2>1. [groups[status.pg] EXCEPT !.content = source] \in Groups
    BY <1>1, <1>2 DEF Groups
  <2>2. groups' \in [Ids -> Groups] /\ \A id \in Ids : groups'[id].use = groups[id].use
    BY <1>1, <1>2, <1>4, <2>1 DEF Groups
  <2> QED
    BY <1>3, <1>4, <2>2, InSyncHandled DEF RolloutInPlace
<1>5. CASE Happens /\ Save(Mark("Failed"), TRUE) /\ UNCHANGED groups
  <2>1. SameIds(Mark("Failed"))
    BY <1>1, MarksSame DEF Reasons
  <2>2. Outcome(Mark("Failed")) /\ queued' \in BOOLEAN
    BY <1>1, <1>5, SaveOutcome
  <2> QED
    BY <1>5, <2>1, <2>2, QuietHandled DEF Happens, RolloutInPlace
<1> QED
  BY <1>4, <1>5 DEF RolloutInPlace

\* The live flow is looked at.
LEMMA PollHandled ==
  ASSUME Before, status.pg # None, status.digest = source, Poll, UNCHANGED <<late, checked>>
  PROVE  Handled
<1> USE DEF Before
<1>1. StatusInv /\ groups \in [Ids -> Groups] /\ source \in Nat /\ status \in Statuses
  BY SourceIs DEF TypeOK
<1>2. status.candidate = None
  <2>1. status.target \in 0..MaxContent
    BY <1>1 DEF Statuses
  <2> QED
    BY <1>1, <2>1 DEF StatusInv, Sound
<1> QED
  BY <1>1, <1>2, InSyncHandled DEF Poll, nifi

\* A reconcile that leaves NiFi alone and forgets no group.
LEMMA WriteHandled ==
  ASSUME Before, NEW s, Save(s, TRUE), UNCHANGED <<groups, made, late, checked, leaks, events>>,
         Sound(s, made), s.temp = status.temp, s.result = status.result,
         KnownBy(status) \subseteq KnownBy(s) \cup {None}
  PROVE  Handled
<1> USE DEF Before
<1>1. Outcome(s) /\ queued' \in BOOLEAN
  BY SaveOutcome DEF TypeOK
<1>2. /\ Sound(status', made') /\ status'.result = status.result /\ status'.temp = status.temp
      /\ losses' \in {losses, losses + 1}
  BY <1>1 DEF Outcome, StatusInv
<1>3. GroupsInv' /\ Flows' = Flows /\ Temps' = Temps
  BY DEF GroupsInv, Flows, Temps
<1>4. KnownBy(status) \subseteq KnownBy(status)' \cup {None}
  BY <1>1 DEF Outcome, KnownBy
<1>5. FlowsStep /\ TempsStep
  BY <1>3, <1>4, UsesTyped DEF FlowsStep, TempsStep, Unknown
<1>6. TempsKnown'
  BY <1>2, <1>3, UsesTyped DEF TempsKnown
<1> QED
  BY <1>1, <1>2, <1>3, <1>5, <1>6, RestHandled

\* The BlueGreen rollout: start again, import the candidate, promote it or give it up.
LEMMA BlueGreenHandled ==
  ASSUME Before, status.pg # None, status.retiring = None, status.digest # source,
         strategy = "BlueGreen", RolloutBlueGreen, UNCHANGED <<late, checked>>
  PROVE  Handled
<1> USE DEF Before
<1>0. /\ status \in Statuses /\ StatusInv /\ queued \in BOOLEAN
      /\ made \in 0..MaxMade /\ made \in Nat /\ groups \in [Ids -> Groups]
  <2>1. /\ status \in Statuses /\ StatusInv /\ queued \in BOOLEAN
        /\ made \in 0..MaxMade /\ groups \in [Ids -> Groups]
    BY DEF TypeOK
  <2> QED
    BY <2>1, BoundsAssumption
<1>1. source \in 1..MaxContent /\ source \in 0..MaxContent /\ source \in Nat /\ source # None
  BY SourceIs
<1>2. None \in 0..MaxMade /\ None \in 0..made /\ None \in 0..MaxContent
  BY <1>0, ContentAssumption, BoundsAssumption DEF None
<1>3. status.digest \in 1..source /\ status.digest < source
  BY <1>0, <1>1 DEF StatusInv, Sound
<1>4. CASE /\ status.target # source
           /\ Save([Mark("Rollout") EXCEPT !.target = source, !.candidate = None], TRUE)
           /\ UNCHANGED <<nifi, events, leaks>>
  <2> DEFINE s == [Mark("Rollout") EXCEPT !.target = source, !.candidate = None]
  <2>1. SameIds(Mark("Rollout"))
    BY <1>0, MarksSame DEF Reasons
  <2>2. /\ s \in Statuses /\ s.result = status.result /\ s.temp = status.temp
        /\ s.phase = status.phase /\ s.pg = status.pg /\ s.retiring = status.retiring
        /\ s.digest = status.digest /\ s.target = source /\ s.candidate = None
    BY <1>1, <1>2, <2>1 DEF SameIds, Statuses
  <2>3. Save(s, TRUE)
    BY <1>4
  <2> HIDE DEF s
  <2>4. Sound(s, made)
    BY <1>0, <1>2, <2>2 DEF StatusInv, Sound
  <2>5. KnownBy(status) \subseteq KnownBy(s) \cup {None}
    BY <1>4, <2>2 DEF KnownBy
  <2> QED
    BY <1>4, <2>2, <2>3, <2>4, <2>5, WriteHandled DEF nifi
<1>5. CASE /\ status.target = source /\ status.candidate = None
           /\ Import(groups, "flow", [status EXCEPT !.candidate = made + 1]) /\ UNCHANGED leaks
  <2> DEFINE s == [status EXCEPT !.candidate = made + 1]
  <2>1. Import(groups, "flow", s) /\ UNCHANGED leaks
    BY <1>5
  <2>2. ASSUME made < MaxMade
        PROVE  /\ Sound(s, made + 1) /\ s.temp = status.temp /\ s.result = status.result
               /\ made + 1 \in KnownBy(s) /\ KnownBy(status) \subseteq KnownBy(s) \cup {None}
    <3>1. /\ made + 1 \in 0..MaxMade /\ made + 1 \in 0..(made + 1) /\ made + 1 # None
          /\ made + 1 \notin 0..made
      BY <1>0, <2>2, BoundsAssumption DEF None
    <3>2. /\ s \in Statuses /\ s.result = status.result /\ s.temp = status.temp
          /\ s.phase = status.phase /\ s.pg = status.pg /\ s.retiring = status.retiring
          /\ s.digest = status.digest /\ s.target = source /\ s.candidate = made + 1
      BY <1>0, <1>5, <3>1 DEF Statuses
    <3> HIDE DEF s
    <3>3. Sound(status, made) /\ Sound(status, made + 1)
      BY <1>0, SoundLater DEF StatusInv
    <3>4. made + 1 \notin {status.pg, status.retiring, status.temp}
      BY <3>1, <3>3 DEF Sound
    <3>5. source <= source
      BY <1>1
    <3>6. Sound(s, made + 1)
      BY <1>3, <3>1, <3>2, <3>3, <3>4, <3>5 DEF Sound
    <3> QED
      BY <1>5, <3>2, <3>6 DEF KnownBy
  <2> HIDE DEF s
  <2> QED
    BY <2>1, <2>2, FlowImportHandled
<1>6. CASE /\ status.target = source /\ status.candidate # None
           /\ Save([InSync EXCEPT !.pg = status.candidate, !.retiring = status.pg], TRUE)
           /\ UNCHANGED <<nifi, events, leaks>>
  <2> DEFINE s == [InSync EXCEPT !.pg = status.candidate, !.retiring = status.pg]
  <2>1. /\ s \in Statuses /\ s.result = status.result /\ s.temp = status.temp
        /\ s.phase = status.phase /\ s.pg = status.candidate /\ s.retiring = status.pg
        /\ s.digest = source /\ s.target = None /\ s.candidate = None
    BY <1>0, InSyncIs DEF Statuses
  <2>2. Save(s, TRUE)
    BY <1>6
  <2> HIDE DEF s
  <2>3. Sound(s, made)
    <3>1. source \in 1..source
      BY <1>1
    <3> QED
      BY <1>0, <1>2, <1>6, <2>1, <3>1 DEF StatusInv, Sound
  <2>4. KnownBy(status) \subseteq KnownBy(s) \cup {None}
    BY <1>6, <2>1 DEF KnownBy
  <2> QED
    BY <1>6, <2>1, <2>2, <2>3, <2>4, WriteHandled DEF nifi
<1>7. CASE Save(Mark("Failed"), TRUE) /\ UNCHANGED <<nifi, events, leaks>>
  <2>1. SameIds(Mark("Failed"))
    BY <1>0, MarksSame DEF Reasons
  <2>2. Outcome(Mark("Failed")) /\ queued' \in BOOLEAN
    BY <1>0, <1>7, SaveOutcome
  <2> QED
    BY <1>7, <2>1, <2>2, QuietHandled DEF nifi
<1>8. CASE /\ status.target = source /\ status.candidate # None
           /\ BestEffort(status.candidate, [Mark("Failed") EXCEPT !.target = None, !.candidate = None])
  <2> DEFINE s == [Mark("Failed") EXCEPT !.target = None, !.candidate = None]
  <2>1. SameIds(Mark("Failed"))
    BY <1>0, MarksSame DEF Reasons
  <2>2. /\ s \in Statuses /\ s.result = status.result /\ s.temp = status.temp
        /\ s.phase = status.phase /\ s.pg = status.pg /\ s.retiring = status.retiring
        /\ s.digest = status.digest /\ s.target = None /\ s.candidate = None
    BY <1>2, <2>1 DEF SameIds, Statuses
  <2>3. BestEffort(status.candidate, s)
    BY <1>8
  <2>4. status.candidate \in Ids
    <3>1. status.candidate \in 0..MaxMade
      BY <1>0 DEF Statuses
    <3> QED
      BY <1>8, <3>1, BoundsAssumption DEF Ids, None
  <2> HIDE DEF s
  <2>5. Sound(s, made)
    BY <1>0, <1>2, <2>2 DEF StatusInv, Sound
  <2>6. KnownBy(status) \subseteq KnownBy(s) \cup {status.candidate}
    BY <1>8, <2>2 DEF KnownBy
  <2> QED
    BY <2>2, <2>3, <2>4, <2>5, <2>6, BestEffortHandled
<1> QED
  BY <1>4, <1>5, <1>6, <1>7, <1>8 DEF RolloutBlueGreen

\* A reconcile of a live deployment, whichever way it goes.
LEMMA ReconcileHandled ==
  ASSUME Before, ReconcileDeployment
  PROVE  Handled /\ missed' \in BOOLEAN
<1>0. queued \in BOOLEAN /\ status \in Statuses /\ missed \in BOOLEAN
  BY DEF TypeOK, Before
<1>1. CASE Save(Mark("Waiting"), FALSE) /\ UNCHANGED <<nifi, late, checked, missed, events, leaks>>
  <2>1. SameIds(Mark("Waiting"))
    BY <1>0, MarksSame DEF Reasons
  <2>2. Outcome(Mark("Waiting")) /\ queued' \in BOOLEAN
    BY <1>0, <1>1, SaveOutcome
  <2> QED
    BY <1>0, <1>1, <2>1, <2>2, QuietHandled DEF nifi
<1>2. CASE InvalidFlowSnapshot
  <2>1. SameIds(Mark("InvalidFlowSnapshot"))
    BY <1>0, MarksSame DEF Reasons
  <2>2. Outcome(Mark("InvalidFlowSnapshot")) /\ queued' \in BOOLEAN
    BY <1>0, <1>2, SaveOutcome DEF InvalidFlowSnapshot
  <2>3. /\ UNCHANGED <<groups, made, late, checked, leaks>> /\ missed' \in BOOLEAN
        /\ events' \in {events, events + 1}
    BY <1>0, <1>2 DEF InvalidFlowSnapshot, nifi, Happens
  <2> QED
    BY <2>1, <2>2, <2>3, QuietHandled
<1>3. CASE ReconcileFlowValidation /\ UNCHANGED missed
  BY <1>0, <1>3, ValidationHandled
<1>4. CASE ReconcileSnapshotFlowDeployment /\ UNCHANGED missed
  <2>1. Handled
    BY <1>4, RetireHandled, ImportFlowHandled, PollHandled, InPlaceHandled, BlueGreenHandled
       DEF ReconcileSnapshotFlowDeployment
  <2> QED
    BY <1>0, <1>4, <2>1
<1> QED
  BY <1>1, <1>2, <1>3, <1>4 DEF ReconcileDeployment

-----------------------------------------------------------------------------
(* The steps keep the invariant *)

\* What is used up stays within the bound.
LEMMA BoundKept ==
  ASSUME TypeOK, Bounded, losses' \in {losses, losses + 1}, leaks' \in {leaks, leaks + 1},
         events' \in {events, events + 1}
  PROVE  events' \in 0..MaxEvents /\ losses' \in 0..MaxEvents /\ leaks' \in 0..MaxEvents
BY UsesTyped, BoundsAssumption DEF Bounded

\* The steps of the counts, as long as the source stays.
LEMMA CountsKept ==
  ASSUME TypeOK, TypeOK', DryRunsBounded, FlowsKnown, FlowsStep, TempsStep, UNCHANGED source,
         losses' \in {losses, losses + 1}, leaks' \in {leaks, leaks + 1}
  PROVE  DryRunsBounded' /\ FlowsKnown'
<1>1. /\ Temps \in SUBSET Ids /\ Temps' \in SUBSET Ids
      /\ Unknown \in SUBSET Ids /\ Unknown' \in SUBSET Ids
  BY DEF Temps, Unknown, Flows
<1>2. losses \in Nat /\ leaks \in Nat /\ Forgotten \in Nat /\ Forgotten' = Forgotten
  <2>1. source \in Nat
    BY SourceIs
  <2>2. Forgotten \in Nat
    BY <2>1, ForgottenIs DEF Forgotten
  <2> QED
    BY <2>2, UsesTyped DEF Forgotten
<1>3. DryRunsBounded'
  <2>1. Cardinality(Temps) \in Nat /\ Cardinality(Temps') \in Nat /\ Cardinality(Temps) <= 1 + leaks
    BY <1>1, CountedIds DEF DryRunsBounded
  <2>2. CASE Temps' \subseteq Temps
    <3>1. Cardinality(Temps') <= Cardinality(Temps)
      BY <1>1, <2>2, CountedIds
    <3> QED
      BY <1>2, <2>1, <3>1 DEF DryRunsBounded
  <2>3. CASE \E x : Temps' \subseteq {x}
    <3>1. {} \in SUBSET Ids /\ Cardinality({}) = 0
      BY FS_EmptySet
    <3>2. PICK x : Temps' \subseteq {} \cup {x}
      BY <2>3
    <3>3. Cardinality(Temps') <= 0 + 1
      BY <3>1, <3>2, CountedIds
    <3> QED
      BY <1>2, <2>1, <3>3 DEF DryRunsBounded
  <2>4. CASE leaks' > leaks /\ \E x : Temps' \subseteq Temps \cup {x}
    <3>1. Cardinality(Temps') <= Cardinality(Temps) + 1
      BY <1>1, <2>4, CountedIds
    <3> QED
      BY <1>2, <2>1, <2>4, <3>1 DEF DryRunsBounded
  <2> QED
    BY <2>2, <2>3, <2>4 DEF TempsStep
<1>4. FlowsKnown'
  <2>1. /\ Cardinality(Unknown) \in Nat /\ Cardinality(Unknown') \in Nat
        /\ Cardinality(Unknown) <= losses + leaks + Forgotten
    BY <1>1, CountedIds DEF FlowsKnown
  <2>2. FlowsKnown' <=> Cardinality(Unknown') <= losses' + leaks' + Forgotten
    BY <1>2 DEF FlowsKnown
  <2>3. \/ Cardinality(Unknown') <= Cardinality(Unknown)
        \/ losses' + leaks' > losses + leaks /\ Cardinality(Unknown') <= Cardinality(Unknown) + 1
    BY <1>1, CountedIds DEF FlowsStep
  <2>4. Cardinality(Unknown') <= losses' + leaks' + Forgotten
    BY <1>2, <2>1, <2>3, MoreUsed, Zenon
  <2> QED
    BY <2>2, <2>4
<1> QED
  BY <1>3, <1>4

\* A reconcile of the live deployment.
LEMMA DeploymentKeeps ==
  ASSUME EntryInv, ReconcileDeployment
  PROVE  EntryInv'
<1>1. /\ UNCHANGED <<source, inline, strategy, dry, purge, bundle, life, cluster>>
      /\ life = "live" /\ Bounded
  BY DEF ReconcileDeployment, fixed
<1>2. Handled /\ missed' \in BOOLEAN
  BY <1>1, ReconcileHandled DEF EntryInv, Before
<1>3. StatusInv' /\ GroupsInv' /\ TempsKnown' /\ ValidIsTrue'
  BY <1>1, <1>2 DEF Handled, StatusInv, Sound
<1>4. events' \in 0..MaxEvents /\ losses' \in 0..MaxEvents /\ leaks' \in 0..MaxEvents
  BY <1>1, <1>2, BoundKept DEF Handled, EntryInv
<1>5. TypeOK'
  <2>1. /\ source' \in Contents /\ inline' \in BOOLEAN /\ strategy' \in {"InPlace", "BlueGreen"}
        /\ dry' \in BOOLEAN /\ purge' \in BOOLEAN /\ bundle' \in Bundles
        /\ life' \in {"live", "deleting", "gone"} /\ cluster' \in {"ready", "unready", "gone"}
    BY <1>1 DEF EntryInv, TypeOK
  <2> QED
    BY <1>2, <1>3, <1>4, <2>1 DEF TypeOK, Handled, StatusInv, Sound, GroupsInv
<1>6. DryRunsBounded' /\ FlowsKnown'
  BY <1>1, <1>2, <1>5, CountsKept DEF EntryInv, Handled
<1>7. DeletedInv'
  BY <1>1 DEF DeletedInv
<1> QED
  BY <1>3, <1>5, <1>6, <1>7 DEF EntryInv

\* A step that leaves the deployment's own state and the source alone, and at most deletes
\* groups or has them validated.
LEMMA ElsewhereKeeps ==
  ASSUME EntryInv, TypeOK', DeletedInv',
         UNCHANGED <<source, strategy, made, checked>>,
         SameIds(status'), \A id \in Ids : groups'[id].use \in {"none", groups[id].use},
         losses' \in {losses, losses + 1}, leaks' \in {leaks, leaks + 1}
  PROVE  EntryInv'
<1> USE DEF EntryInv
<1>1. StatusInv' /\ GroupsInv' /\ KnownBy(status)' = KnownBy(status)
  <2>1. groups' \in [Ids -> Groups]
    BY DEF TypeOK
  <2> QED
    BY <2>1 DEF StatusInv, GroupsInv, Sound, SameIds, KnownBy
<1>2. Flows' \subseteq Flows /\ Temps' \subseteq Temps
  BY DEF Flows, Temps
<1>3. FlowsStep /\ TempsStep
  BY <1>1, <1>2 DEF FlowsStep, TempsStep, Unknown
<1>4. DryRunsBounded' /\ FlowsKnown'
  BY <1>3, CountsKept
<1>5. TempsKnown'
  <2>1. losses' + leaks' = 0 => losses + leaks = 0
    BY UsesTyped
  <2> QED
    BY <1>2, <2>1 DEF TempsKnown, SameIds
<1>6. ValidIsTrue'
  BY DEF ValidIsTrue, SameIds
<1> QED
  BY <1>1, <1>4, <1>5, <1>6

\* What a deletion reconcile takes, and what it knows when it ends.
LEMMA DeleteOutcome ==
  ASSUME TypeOK, ReconcileDelete
  PROVE  /\ losses' \in {losses, losses + 1} /\ leaks' \in {leaks, leaks + 1}
         /\ events' \in {events, events + 1} /\ queued' \in BOOLEAN
         /\ life' \in {"deleting", "gone"}
         /\ \E ids : /\ (groups' = groups /\ ids = {}) \/ groups' = Without(ids)
                     /\ life' = "gone" /\ cluster # "gone" =>
                          /\ leaks' + losses' = 0 => status.temp \in ids \cup {None}
                          /\ FlowToDelete \in ids \cup {None}
<1>1. losses \in Nat /\ leaks \in Nat /\ events \in Nat /\ queued \in BOOLEAN /\ life = "deleting"
  BY UsesTyped DEF TypeOK, ReconcileDelete
<1>2. DropFinalizer \/ Again =>
        losses' \in {losses, losses + 1} /\ queued' \in BOOLEAN /\ life' \in {"deleting", "gone"}
  BY <1>1 DEF DropFinalizer, Again, Lost
<1>3. CASE /\ {TempToDelete, FlowToDelete} = {None} \/ cluster = "gone"
           /\ DropFinalizer /\ UNCHANGED <<groups, events, leaks>>
  <2> DEFINE ids == {}
  <2>1. /\ groups' = groups /\ ids = {}
        /\ life' = "gone" /\ cluster # "gone" =>
             /\ leaks' + losses' = 0 => status.temp \in ids \cup {None}
             /\ FlowToDelete \in ids \cup {None}
    BY <1>3 DEF TempToDelete
  <2> HIDE DEF ids
  <2> QED
    BY <1>1, <1>2, <1>3, <2>1
<1>4. ASSUME NEW temps \in {{TempToDelete}, {}},
             leaks' = leaks + (IF TempToDelete \in temps \/ TempToDelete = None THEN 0 ELSE 1)
      PROVE  /\ leaks' \in {leaks, leaks + 1} /\ temps \in {{status.temp}, {}}
             /\ leaks' + losses' = 0 /\ losses' \in {losses, losses + 1}
                  => status.temp \in temps \cup {None}
  <2>1. CASE TempToDelete \in temps \/ TempToDelete = None
    BY <1>1, <1>4, <2>1 DEF TempToDelete
  <2>2. CASE ~(TempToDelete \in temps \/ TempToDelete = None)
    <3>1. leaks' = leaks + 1
      BY <1>4, <2>2
    <3>2. ASSUME losses' \in {losses, losses + 1} PROVE leaks' + losses' # 0
      <4>1. (leaks + 1) + losses' # 0
        BY <1>1, <3>2, OneIsUsed, Zenon
      <4> QED
        BY <3>1, <4>1
    <3> QED
      BY <1>4, <3>1, <3>2 DEF TempToDelete
  <2> QED
    BY <2>1, <2>2
<1>5. ASSUME NEW temps \in {{TempToDelete}, {}},
             leaks' = leaks + (IF TempToDelete \in temps \/ TempToDelete = None THEN 0 ELSE 1),
             FlowToDelete = None, groups' = Without(temps), DropFinalizer, UNCHANGED events
      PROVE  /\ losses' \in {losses, losses + 1} /\ leaks' \in {leaks, leaks + 1}
             /\ events' \in {events, events + 1} /\ queued' \in BOOLEAN
             /\ life' \in {"deleting", "gone"} /\ groups' = Without(temps)
             /\ leaks' + losses' = 0 => status.temp \in temps \cup {None}
             /\ FlowToDelete \in temps \cup {None}
  BY <1>1, <1>2, <1>4, <1>5
<1>6. ASSUME NEW temps \in {{TempToDelete}, {}},
             leaks' = leaks + (IF TempToDelete \in temps \/ TempToDelete = None THEN 0 ELSE 1),
             groups' = Without({FlowToDelete} \cup temps), DropFinalizer, UNCHANGED events
      PROVE  /\ losses' \in {losses, losses + 1} /\ leaks' \in {leaks, leaks + 1}
             /\ events' \in {events, events + 1} /\ queued' \in BOOLEAN
             /\ life' \in {"deleting", "gone"} /\ groups' = Without({FlowToDelete} \cup temps)
             /\ leaks' + losses' = 0 => status.temp \in ({FlowToDelete} \cup temps) \cup {None}
             /\ FlowToDelete \in ({FlowToDelete} \cup temps) \cup {None}
  BY <1>1, <1>2, <1>4, <1>6
<1>7. ASSUME NEW temps \in {{TempToDelete}, {}},
             leaks' = leaks + (IF TempToDelete \in temps \/ TempToDelete = None THEN 0 ELSE 1),
             Happens, groups' = Without(temps), Again
      PROVE  /\ losses' \in {losses, losses + 1} /\ leaks' \in {leaks, leaks + 1}
             /\ events' \in {events, events + 1} /\ queued' \in BOOLEAN
             /\ life' \in {"deleting", "gone"} /\ groups' = Without(temps)
             /\ life' # "gone"
  <2>1. life' = "deleting" /\ events' = events + 1
    BY <1>1, <1>7 DEF Again, Happens
  <2> QED
    BY <1>1, <1>2, <1>4, <1>7, <2>1
<1> QED
  BY <1>3, <1>5, <1>6, <1>7 DEF ReconcileDelete, DeleteFlow

\* A reconcile of the deletion.
LEMMA DeleteKeeps ==
  ASSUME EntryInv, ReconcileDelete
  PROVE  EntryInv'
<1> USE DEF EntryInv
<1>1. /\ UNCHANGED <<source, inline, strategy, dry, purge, bundle, status, late, cluster, made,
                     checked, missed>>
      /\ life = "deleting" /\ Bounded
  BY DEF ReconcileDelete, fixed
<1>2. /\ losses' \in {losses, losses + 1} /\ leaks' \in {leaks, leaks + 1}
      /\ events' \in {events, events + 1} /\ queued' \in BOOLEAN
      /\ life' \in {"deleting", "gone"}
  BY DeleteOutcome
<1>3. PICK ids : /\ (groups' = groups /\ ids = {}) \/ groups' = Without(ids)
                 /\ life' = "gone" /\ cluster # "gone" =>
                      /\ leaks' + losses' = 0 => status.temp \in ids \cup {None}
                      /\ FlowToDelete \in ids \cup {None}
  BY DeleteOutcome
<1>4. groups \in [Ids -> Groups] /\ status \in Statuses
  BY DEF TypeOK
<1>5. /\ groups' \in [Ids -> Groups]
      /\ \A id \in Ids : groups'[id].use = IF id \in ids THEN "none" ELSE groups[id].use
  BY <1>3, <1>4, WithoutUses
<1>6. TypeOK'
  <2>1. events' \in 0..MaxEvents /\ losses' \in 0..MaxEvents /\ leaks' \in 0..MaxEvents
    BY <1>1, <1>2, BoundKept
  <2> QED
    BY <1>1, <1>2, <1>5, <2>1 DEF TypeOK
<1>7. DeletedInv'
  <2> SUFFICES ASSUME life' = "gone", cluster # "gone"
               PROVE  /\ losses' + leaks' = 0 => Temps' = {}
                      /\ purge => status.pg \notin Flows'
    BY <1>1 DEF DeletedInv
  <2>1. Temps' = Temps \ ids /\ Flows' = Flows \ ids
    BY <1>5 DEF Temps, Flows
  <2>2. losses' + leaks' = 0 => losses + leaks = 0 /\ leaks' + losses' = 0
    BY <1>2, UsesTyped
  <2>3. ASSUME losses' + leaks' = 0 PROVE Temps' = {}
    BY <1>3, <2>1, <2>2, <2>3, UsesTyped DEF TempsKnown
  <2>4. ASSUME purge PROVE status.pg \notin Flows'
    BY <1>3, <2>1, <2>4, UsesTyped DEF FlowToDelete
  <2> QED
    BY <2>3, <2>4
<1>8. SameIds(status')
  BY <1>1, <1>4, MarksSame
<1> QED
  BY <1>1, <1>2, <1>5, <1>6, <1>7, <1>8, ElsewhereKeeps

\* The bundle is reconciled or deleted.
LEMMA BundleKeeps ==
  ASSUME EntryInv, ReconcileBundle \/ DeleteBundle
  PROVE  EntryInv'
<1> USE DEF EntryInv
<1>1. /\ UNCHANGED <<source, inline, strategy, dry, purge, life, status, late, cluster, groups, made,
                     checked, missed, losses, leaks>>
      /\ Bounded /\ events' \in {events, events + 1}
  BY DEF ReconcileBundle, DeleteBundle, fixed, nifi, Happens
<1>2. bundle' \in Bundles /\ queued' \in BOOLEAN
  <2>1. source \in 0..MaxContent /\ bundle \in Bundles /\ queued \in BOOLEAN
    BY ContentAssumption DEF TypeOK, Contents
  <2>2. /\ [why |-> "Ready", digest |-> source] \in Bundles
        /\ [bundle EXCEPT !.why = "Failed"] \in Bundles
        /\ [bundle EXCEPT !.why = "gone"] \in Bundles
    BY <2>1 DEF Bundles
  <2>3. ASSUME NEW s \in Bundles, MarkBundle(s) PROVE bundle' \in Bundles /\ queued' \in BOOLEAN
    BY <2>1, <2>3 DEF MarkBundle
  <2> QED
    BY <2>2, <2>3 DEF ReconcileBundle, DeleteBundle
<1>3. TypeOK'
  <2>1. events' \in 0..MaxEvents /\ losses' \in 0..MaxEvents /\ leaks' \in 0..MaxEvents
    BY <1>1, BoundKept
  <2> QED
    BY <1>1, <1>2, <2>1 DEF TypeOK
<1>4. DeletedInv'
  BY <1>1 DEF DeletedInv, Temps, Flows
<1>5. SameIds(status')
  BY <1>1, MarksSame DEF TypeOK
<1>6. \A id \in Ids : groups'[id].use \in {"none", groups[id].use}
  BY <1>1
<1> QED
  BY <1>1, <1>3, <1>4, <1>5, <1>6, ElsewhereKeeps

\* Users edit and delete, the cluster comes and goes, NiFi validates, time passes.
LEMMA EnvironmentKeeps ==
  ASSUME EntryInv,
         \/ Edit \/ RequestDelete \/ Timeout \/ UNCHANGED vars
         \/ \E to \in {"ready", "unready", "gone"} : ClusterChanges(to)
         \/ \E id \in Ids : Settle(id)
  PROVE  EntryInv'
<1> USE DEF EntryInv
<1>1. UNCHANGED <<source, strategy, made, checked, losses, leaks>>
  BY DEF Edit, RequestDelete, Timeout, ClusterChanges, Settle, vars, fixed, nifi
<1>2. status \in Statuses /\ groups \in [Ids -> Groups]
  BY DEF TypeOK
<1>3. SameIds(status')
  <2>1. CASE Edit
    BY <1>2, <2>1 DEF Edit, SameIds, Statuses
  <2>2. CASE status' = status
    BY <1>2, <2>2, MarksSame
  <2> QED
    BY <2>1, <2>2 DEF RequestDelete, Timeout, ClusterChanges, Settle, vars
<1>4. groups' \in [Ids -> Groups] /\ \A id \in Ids : groups'[id].use = groups[id].use
  <2>1. ASSUME NEW id \in Ids, Settle(id)
        PROVE  groups' \in [Ids -> Groups] /\ \A i \in Ids : groups'[i].use = groups[i].use
    <3>1. groups' = [groups EXCEPT ![id].settled = TRUE]
      BY <2>1 DEF Settle
    <3>2. [groups[id] EXCEPT !.settled = TRUE] \in Groups
          /\ [groups[id] EXCEPT !.settled = TRUE].use = groups[id].use
      BY <1>2 DEF Groups
    <3> QED
      BY <1>2, <3>1, <3>2
  <2>2. CASE UNCHANGED groups
    BY <1>2, <2>2
  <2> QED
    BY <2>1, <2>2 DEF Edit, RequestDelete, Timeout, ClusterChanges, vars, nifi
<1>5. Temps' = Temps /\ Flows' = Flows
  BY <1>4 DEF Temps, Flows
<1>6. TypeOK'
  <2>1. events' \in 0..MaxEvents
    <3>1. CASE UNCHANGED events
      BY <3>1 DEF TypeOK
    <3>2. CASE Happens /\ Bounded
      BY <1>1, <3>2, BoundKept DEF Happens
    <3> QED
      BY <3>1, <3>2 DEF Edit, RequestDelete, Timeout, ClusterChanges, Settle, vars
  <2>2. /\ dry' \in BOOLEAN /\ purge' \in BOOLEAN /\ queued' \in BOOLEAN /\ late' \in BOOLEAN
        /\ missed' \in BOOLEAN /\ inline' \in BOOLEAN /\ bundle' \in Bundles
    BY DEF TypeOK, Edit, RequestDelete, Timeout, ClusterChanges, Settle, vars, fixed
  <2>3. life' \in {"live", "deleting", "gone"} /\ cluster' \in {"ready", "unready", "gone"}
    BY DEF TypeOK, Edit, RequestDelete, Timeout, ClusterChanges, Settle, vars
  <2>4. /\ status' \in Statuses
        /\ status'.phase = "none" <=> status'.temp = None
        /\ status'.candidate # None
             => status'.candidate \notin {status'.pg, status'.retiring, status'.temp}
        /\ status'.retiring # None => status'.retiring # status'.pg
    BY <1>3 DEF SameIds, TypeOK
  <2> QED
    BY <1>1, <1>4, <2>1, <2>2, <2>3, <2>4 DEF TypeOK
<1>7. DeletedInv'
  <2>1. CASE life' # "gone"
    BY <2>1 DEF DeletedInv
  <2>2. CASE life' = life /\ purge' = purge /\ (cluster' # "gone" => cluster # "gone")
    BY <1>1, <1>3, <1>5, <2>2 DEF DeletedInv, SameIds
  <2> QED
    BY <2>1, <2>2 DEF Edit, RequestDelete, Timeout, ClusterChanges, Settle, vars
<1> QED
  BY <1>1, <1>3, <1>4, <1>6, <1>7, UsesTyped, ElsewhereKeeps

\* The source moves: a rollout to what it was before will forget its candidate. The first
\* content is never that of a candidate, so there is one such move less.
LEMMA SourceKeeps ==
  ASSUME EntryInv, SourceMoves
  PROVE  EntryInv'
<1> USE DEF EntryInv
<1>1. /\ source' = source + 1 /\ source < MaxContent
      /\ UNCHANGED <<inline, strategy, dry, purge, bundle, life, status, queued, late, cluster,
                     groups, made, checked, missed, events, losses, leaks>>
  BY DEF SourceMoves, fixed, nifi
<1>2. source \in Nat /\ source \in 1..MaxContent
  BY SourceIs
<1>3. source' \in Contents
  BY <1>1, <1>2, ContentAssumption DEF Contents
<1>4. TypeOK'
  BY <1>1, <1>3 DEF TypeOK
<1>5. StatusInv'
  <2>1. status.digest \in 1..source => status.digest \in 1..(source + 1)
    BY <1>2
  <2>2. status.target <= source => status.target <= source + 1
    <3>1. status.target \in Nat
      BY ContentAssumption DEF TypeOK, Statuses
    <3> QED
      BY <1>2, <3>1
  <2> QED
    BY <1>1, <2>1, <2>2 DEF StatusInv, Sound
<1>6. Temps' = Temps /\ Flows' = Flows
  BY <1>1 DEF Temps, Flows
<1>7. GroupsInv' /\ DryRunsBounded' /\ TempsKnown' /\ DeletedInv' /\ ValidIsTrue'
  BY <1>1, <1>6 DEF GroupsInv, DryRunsBounded, TempsKnown, DeletedInv, ValidIsTrue
<1>8. FlowsKnown'
  <2>1. Unknown \in SUBSET Ids /\ Unknown' \in SUBSET Ids
    BY DEF Unknown, Flows
  <2>2. /\ Forgotten \in Nat /\ Forgotten' \in Nat /\ Forgotten <= Forgotten'
        /\ source >= 2 => Forgotten' = Forgotten + 1
    BY <1>1, <1>2, ForgottenIs DEF Forgotten
  <2>3. Unknown' \subseteq Unknown \cup {status.candidate}
    BY <1>1, <1>6 DEF Unknown, KnownBy
  <2>4. CASE status.candidate # None /\ status.target = source
    <3>1. source >= 2
      <4>1. status.digest \in 1..source /\ status.digest < source
        BY <2>4 DEF StatusInv, Sound
      <4> QED
        BY <1>2, <4>1
    <3>2. Cardinality(Unknown') <= Cardinality(Unknown) + 1
      BY <2>1, <2>3, CountedIds
    <3>3. Cardinality(Unknown) \in Nat /\ Cardinality(Unknown') \in Nat
      BY <2>1, CountedIds
    <3> QED
      BY <1>1, <2>2, <3>1, <3>2, <3>3, UsesTyped DEF FlowsKnown
  <2>5. CASE ~(status.candidate # None /\ status.target = source)
    <3>1. Unknown' \subseteq Unknown
      BY <1>1, <1>6, <2>5, UsesTyped DEF Unknown, KnownBy
    <3>2. Cardinality(Unknown') <= Cardinality(Unknown)
      BY <2>1, <3>1, CountedIds
    <3>3. Cardinality(Unknown) \in Nat /\ Cardinality(Unknown') \in Nat
      BY <2>1, CountedIds
    <3> QED
      BY <1>1, <2>2, <3>2, <3>3, UsesTyped DEF FlowsKnown
  <2> QED
    BY <2>4, <2>5
<1> QED
  BY <1>4, <1>5, <1>7, <1>8

-----------------------------------------------------------------------------
(* Theorems *)

\* A new deployment.
LEMMA InitInv ==
  ASSUME Init
  PROVE  EntryInv
<1>1. /\ status = [pg |-> 0, digest |-> 0, target |-> 0, candidate |-> 0, retiring |-> 0,
                   seen |-> FALSE, temp |-> 0, phase |-> "none",
                   result |-> [digest |-> 0, valid |-> FALSE], why |-> "none"]
      /\ groups = [id \in Ids |-> [use |-> "none", content |-> 0, settled |-> FALSE]]
      /\ source = 1 /\ made = 0 /\ losses = 0 /\ leaks = 0 /\ life = "live"
  BY DEF Init, None, NoResult, NoGroup
<1>2. 0 \in 0..MaxMade /\ 0 \in 0..MaxContent /\ 0 \in 0..MaxEvents /\ 1 \in Contents
  BY BoundsAssumption, ContentAssumption DEF Contents
<1>3. status \in Statuses
  <2>1. [digest |-> 0, valid |-> FALSE] \in Results
    BY <1>2 DEF Results
  <2> QED
    BY <1>1, <1>2, <2>1 DEF Statuses, Reasons
<1>4. groups \in [Ids -> Groups] /\ \A id \in Ids : groups[id].use = "none"
  BY <1>1, <1>2 DEF Groups
<1>5. bundle \in Bundles
  BY <1>2 DEF Init, Bundles, None
<1>6. TypeOK
  <2>1. /\ inline \in BOOLEAN /\ strategy \in {"InPlace", "BlueGreen"}
        /\ dry \in BOOLEAN /\ purge \in BOOLEAN /\ queued \in BOOLEAN /\ late \in BOOLEAN
        /\ missed \in BOOLEAN /\ cluster = "ready" /\ checked = 0 /\ events = 0
    BY DEF Init, None
  <2>2. /\ status.phase = "none" /\ status.temp = None
        /\ status.candidate = None /\ status.retiring = None
    BY <1>1 DEF None
  <2> QED
    BY <1>1, <1>2, <1>3, <1>4, <1>5, <2>1, <2>2 DEF TypeOK
<1>7. StatusInv /\ GroupsInv
  BY <1>1, <1>2, <1>3, <1>4 DEF StatusInv, Sound, GroupsInv, None
<1>8. Temps = {} /\ Flows = {} /\ Unknown = {}
  BY <1>4 DEF Temps, Flows, Unknown
<1>9. Cardinality({}) = 0 /\ Forgotten \in Nat
  BY <1>1, FS_EmptySet, ForgottenIs DEF Forgotten
<1>10. DryRunsBounded /\ FlowsKnown /\ TempsKnown
  BY <1>1, <1>8, <1>9 DEF DryRunsBounded, FlowsKnown, TempsKnown
<1>11. DeletedInv /\ ValidIsTrue
  BY <1>1 DEF DeletedInv, ValidIsTrue
<1> QED
  BY <1>6, <1>7, <1>10, <1>11 DEF EntryInv

\* What holds of a deployment, its bundle, its dry runs and its groups in every state.
THEOREM EntryInvariant == Spec => []EntryInv
<1>1. EntryInv /\ [Next]_vars => EntryInv'
  BY DeploymentKeeps, DeleteKeeps, BundleKeeps, EnvironmentKeeps, SourceKeeps DEF Next
<1> QED
  BY <1>1, InitInv, PTL DEF Spec

\* Every flow but the forgotten ones is one the status names.
LEMMA FlowsAreRecorded ==
  ASSUME EntryInv
  PROVE  Cardinality(Flows \ Recorded) <= losses + leaks + Forgotten
<1>1. Unknown \in SUBSET Ids /\ Flows \ Recorded \subseteq Unknown
  BY DEF Unknown, Flows, Recorded, KnownBy
<1>2. /\ Cardinality(Flows \ Recorded) <= Cardinality(Unknown)
      /\ Cardinality(Unknown) \in Nat /\ Cardinality(Flows \ Recorded) \in Nat
  <2>1. Flows \ Recorded \in SUBSET Ids
    BY <1>1
  <2> QED
    BY <1>1, <2>1, CountedIds
<1>3. losses \in Nat /\ leaks \in Nat /\ Forgotten \in Nat
  <2>1. source \in Nat
    BY SourceIs DEF EntryInv
  <2> QED
    BY <2>1, UsesTyped, ForgottenIs DEF Forgotten, EntryInv
<1> QED
  BY <1>2, <1>3 DEF EntryInv, FlowsKnown

\* Groups of dry runs do not pile up, the status knows the flows it made, and a deletion
\* removes what it must (reconcileFlowValidation, reconcileSnapshotFlowDeployment,
\* reconcileFlowDeploymentDelete), whatever fails, is lost, edited or deleted, and however often the
\* source moves.
THEOREM GroupsAreKnown == Spec => []GroupsKnown
<1>1. ASSUME EntryInv PROVE GroupsKnown
  <2> USE DEF EntryInv
  <2>1. FlowsRecorded
    BY <1>1, FlowsAreRecorded DEF FlowsRecorded
  <2>2. ASSUME life = "gone", cluster # "gone"
        PROVE  /\ losses + leaks = 0 => Temps = {}
               /\ purge => status.pg \notin Flows
               /\ purge /\ losses + leaks + Forgotten = 0
                    => Flows \subseteq {status.candidate, status.retiring}
    <3>1. (losses + leaks = 0 => Temps = {}) /\ (purge => status.pg \notin Flows)
      BY <1>1, <2>2 DEF DeletedInv
    <3>2. ASSUME purge, losses + leaks + Forgotten = 0
          PROVE  Flows \subseteq {status.candidate, status.retiring}
      <4>1. Flows \ Recorded \in SUBSET Ids
        BY DEF Flows
      <4>2. Cardinality(Flows \ Recorded) = 0 /\ IsFiniteSet(Flows \ Recorded)
        BY <1>1, <3>2, <4>1, FlowsAreRecorded, CountedIds
      <4>3. Flows \ Recorded = {}
        BY <4>2, FS_EmptySet
      <4> QED
        BY <3>1, <3>2, <4>3 DEF Recorded
    <3> QED
      BY <3>1, <3>2
  <2> QED
    BY <1>1, <2>1, <2>2 DEF GroupsKnown, DeletedMeansGone
<1> QED
  BY <1>1, EntryInvariant, PTL

\* A flow reported valid was looked at and found valid in time (buildFlowValidationResult),
\* however often the dry run was started again.
THEOREM ValidIsChecked == Spec => []ValidIsTrue
<1>1. EntryInv => ValidIsTrue
  BY DEF EntryInv
<1> QED
  BY <1>1, EntryInvariant, PTL

=============================================================================
