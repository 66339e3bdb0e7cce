------------------------- MODULE FlowRolloutProofs -------------------------
(***************************************************************************)
(* Proofs about FlowRollout for every set of digests, every policy, every  *)
(* fault set and every bound.                                              *)
(***************************************************************************)
EXTENDS FlowRollout, FiniteSetTheorems, SequenceTheorems, TLAPS

\* A pending request is for an artifact, and a rollback's is the last successful one.
Targets ==
  st.req.id # 0 =>
    /\ st.req.target \in Digests /\ st.req.op # "None" /\ st.imported
    /\ st.req.op = "Rollback" => st.req.target = st.last

\* The readiness gate is entered with the rollout's request forgotten.
GateIdle == st.ro.phase = "AwaitingReadiness" => st.ro.op = "Rollout" /\ st.req.id = 0

\* Nothing is pending for a deployment that says Ready.
ReadyIdle == st.ready => st.req.id = 0

\* A rollback from what is wanted is one that will block it, and once done does.
Undone ==
  /\ undone = "Started" /\ st.req.id # 0 =>
       IF st.req.op = "Rollout" THEN st.req.target = want
       ELSE st.lastRb.gen = gen /\ st.lastRb.digest = want
  /\ undone = "Yes" => Blocked /\ st.imported /\ st.req.id = 0 /\ ~Active

\* The inductive invariant.
RolloutInv == TypeOK /\ Targets /\ GateIdle /\ ReadyIdle /\ CheckpointKept /\ Undone

-----------------------------------------------------------------------------
(* What the handlers write *)

\* The new history is one, within the limit.
LEMMA HistoryTyped ==
  ASSUME NEW h \in Seq(Entries), NEW d \in Digests,
         NEW r \in {"Succeeded", "Failed", "RolledBack"}
  PROVE  /\ AppendEntry(h, d, r) \in Seq(Entries)
         /\ Trimmed(h) \in Seq(Entries) /\ Len(Trimmed(h)) <= HistoryLimit
<1>1. AppendEntry(h, d, r) \in Seq(Entries)
  <2>1. [digest |-> d, result |-> r] \in Entries
    BY DEF Entries
  <2> QED
    BY <2>1 DEF AppendEntry
<1>2. CASE Len(h) <= HistoryLimit
  BY <1>1, <1>2 DEF Trimmed
<1>3. CASE ~(Len(h) <= HistoryLimit)
  <2>1. Len(h) \in Nat /\ HistoryLimit \in Nat /\ HistoryLimit >= 1
    BY BoundsAssumption
  <2>2. /\ Len(h) - HistoryLimit + 1 \in 1..Len(h)
        /\ Len(h) \in 1..Len(h)
    BY <1>3, <2>1
  <2>3. /\ SubSeq(h, Len(h) - HistoryLimit + 1, Len(h)) \in Seq(Entries)
        /\ Len(SubSeq(h, Len(h) - HistoryLimit + 1, Len(h))) = HistoryLimit
    BY <2>1, <2>2, SubSeqProperties
  <2> QED
    BY <1>1, <1>3, <2>1, <2>3 DEF Trimmed
<1> QED
  BY <1>2, <1>3

\* The parts of a status that stand for nothing.
LEMMA NothingTyped ==
  /\ NoReq \in Requests /\ NoReq.id = 0 /\ NoReq.failed = FALSE
  /\ NoRollout \in Rollouts /\ NoRollout.phase = "None" /\ NoRollout.op = "None"
  /\ NoRollback \in Rollbacks /\ NoRollback.completed = FALSE
BY BoundsAssumption
   DEF NoReq, NoRollout, NoRollback, Requests, Rollouts, Rollbacks, Known, Ops, Phases

\* The rollout a reconcile goes on with, or starts.
LEMMA ActiveTyped ==
  ASSUME st \in Statuses, NEW op \in {"Rollout", "Rollback"}, NEW d \in Known,
         NEW phase \in Phases
  PROVE  /\ EnsureActive(op, d) \in Rollouts
         /\ EnsureActive(op, d).op = op
         /\ EnsureActive(op, d) = st.ro \/ EnsureActive(op, d).phase = "Preparing"
         /\ [EnsureActive(op, d) EXCEPT !.phase = phase] \in Rollouts
         /\ [EnsureActive(op, d) EXCEPT !.phase = phase].phase = phase
         /\ [EnsureActive(op, d) EXCEPT !.phase = phase].op = op
<1>1. /\ EnsureActive(op, d) \in Rollouts
      /\ EnsureActive(op, d).op = op
      /\ EnsureActive(op, d) = st.ro \/ EnsureActive(op, d).phase = "Preparing"
  BY BoundsAssumption DEF EnsureActive, Statuses, Rollouts, Phases, Ops
<1> QED
  BY <1>1 DEF Rollouts

\* A written status is well formed.
Fits(s) == s \in Statuses /\ Len(s.hist) <= HistoryLimit /\ s.seen <= gen

\* What a failure report and a success report change.
LEMMA Reports ==
  ASSUME gen \in Nat, NEW s \in Statuses, Len(s.hist) <= HistoryLimit, NEW r \in Reasons
  PROVE  /\ Fits(NotReady(s, r)) /\ Fits(Ready(s, r))
         /\ NotReady(s, r) = [s EXCEPT !.ready = FALSE, !.reason = r, !.seen = gen]
         /\ Ready(s, r) = [s EXCEPT !.ready = TRUE, !.reason = r, !.seen = gen]
<1>1. NotReady(s, r) \in Statuses /\ Ready(s, r) \in Statuses
  BY DEF NotReady, Ready, Statuses
<1>2. /\ NotReady(s, r).hist = s.hist /\ Ready(s, r).hist = s.hist
      /\ NotReady(s, r).seen = gen /\ Ready(s, r).seen = gen
  BY DEF NotReady, Ready, Statuses
<1> QED
  BY <1>1, <1>2 DEF Fits, NotReady, Ready

\* The rest of the status that a failure report keeps.
LEMMA NotReadyKeeps ==
  ASSUME NEW s \in Statuses, NEW r
  PROVE  /\ NotReady(s, r).ready = FALSE
         /\ NotReady(s, r).imported = s.imported /\ NotReady(s, r).art = s.art
         /\ NotReady(s, r).req = s.req /\ NotReady(s, r).ro = s.ro
         /\ NotReady(s, r).last = s.last /\ NotReady(s, r).lastRb = s.lastRb
         /\ NotReady(s, r).sync = s.sync
BY DEF NotReady, Statuses

\* The parts of a status that the rest of the proof looks at.
Shows(s, imported, art, req, ro, last, lastRb, sync) ==
  /\ s.imported = imported /\ s.art = art /\ s.req = req /\ s.ro = ro
  /\ s.last = last /\ s.lastRb = lastRb /\ s.sync = sync

\* A NotReady status that shows this was written, or none was.
Wrote(imported, art, req, ro, last, lastRb, sync) ==
  \/ st' = st
  \/ Fits(st') /\ st'.ready = FALSE /\ Shows(st', imported, art, req, ro, last, lastRb, sync)

\* Every failure report and every other report of a step under way writes such a status.
LEMMA Reported ==
  ASSUME TypeOK, NEW s \in Statuses, Len(s.hist) <= HistoryLimit, NEW r \in Reasons,
         SaveFailed(s, r) \/ Save(NotReady(s, r))
  PROVE  Wrote(s.imported, s.art, s.req, s.ro, s.last, s.lastRb, s.sync)
<1>1. st' = st \/ st' = NotReady(s, r)
  BY DEF SaveFailed, Save
<1>2. Fits(NotReady(s, r))
  BY Reports DEF TypeOK
<1>3. CASE st' = NotReady(s, r)
  BY <1>2, <1>3, NotReadyKeeps DEF Wrote, Shows
<1> QED
  BY <1>1, <1>3 DEF Wrote

\* Cancellation.
LEMMA CancelWrites ==
  ASSUME TypeOK, CancelRollout
  PROVE  Wrote(st.imported, st.art, NoReq, NoRollout, st.last, st.lastRb, "Other")
<1> DEFINE s == [st EXCEPT !.req = NoReq, !.ro = NoRollout, !.sync = "Other"]
<1>1. /\ s \in Statuses /\ s.hist = st.hist
      /\ Shows(s, st.imported, st.art, NoReq, NoRollout, st.last, st.lastRb, "Other")
  BY NothingTyped DEF TypeOK, Statuses, Syncs, Shows
<1>2. SaveFailed(s, "RolloutCancelled") /\ "RolloutCancelled" \in Reasons
  BY DEF CancelRollout, Reasons
<1> HIDE DEF s
<1>3. Wrote(s.imported, s.art, s.req, s.ro, s.last, s.lastRb, s.sync)
  BY <1>1, <1>2, Reported DEF TypeOK
<1> QED
  BY <1>1, <1>3 DEF Shows

\* The import that fails and the one that does not.
LEMMA ImportWrites ==
  ASSUME TypeOK, Import
  PROVE  LET ro == EnsureActive("Rollout", want)
         IN  \/ Wrote(st.imported, st.art, st.req, ro, st.last, st.lastRb, st.sync)
             \/ Wrote(TRUE, want, NoReq, ro, st.last, st.lastRb, "Other")
<1> DEFINE ro == EnsureActive("Rollout", want)
           s == [st EXCEPT !.ro = ro]
           t == [s EXCEPT !.imported = TRUE, !.art = want, !.sync = "Other", !.req = NoReq]
<1>1. st \in Statuses /\ ro \in Rollouts /\ want \in Known
  BY ActiveTyped DEF TypeOK, Known, Phases
<1> HIDE DEF ro
<1>2. /\ s \in Statuses /\ s.hist = st.hist
      /\ Shows(s, st.imported, st.art, st.req, ro, st.last, st.lastRb, st.sync)
  BY <1>1 DEF Statuses, Shows
<1>3. /\ t \in Statuses /\ t.hist = st.hist
      /\ Shows(t, TRUE, want, NoReq, ro, st.last, st.lastRb, "Other")
  BY <1>1, NothingTyped DEF Statuses, Shows, Syncs
<1>4. SaveFailed(s, "SnapshotImportFailed") \/ Save(NotReady(t, "SnapshotMetadataPending"))
  BY DEF Import, ro
<1> HIDE DEF s, t
<1>5. "SnapshotImportFailed" \in Reasons /\ "SnapshotMetadataPending" \in Reasons
  BY DEF Reasons
<1>6. CASE SaveFailed(s, "SnapshotImportFailed")
  <2>1. Wrote(s.imported, s.art, s.req, s.ro, s.last, s.lastRb, s.sync)
    BY <1>2, <1>5, <1>6, Reported DEF TypeOK
  <2> QED
    BY <1>2, <2>1 DEF Shows, ro
<1>7. CASE Save(NotReady(t, "SnapshotMetadataPending"))
  <2>1. Wrote(t.imported, t.art, t.req, t.ro, t.last, t.lastRb, t.sync)
    BY <1>3, <1>5, <1>7, Reported DEF TypeOK
  <2> QED
    BY <1>3, <2>1 DEF Shows, ro
<1> QED
  BY <1>4, <1>6, <1>7

\* The failures that report and change nothing else.
LEMMA FailureWrites ==
  ASSUME TypeOK, NEW r \in Reasons, SaveFailed(st, r)
  PROVE  Wrote(st.imported, st.art, st.req, st.ro, st.last, st.lastRb, st.sync)
BY Reported DEF TypeOK

\* The rollout prepares: a failure, the wait for queues and the stop.
LEMMA PrepareWrites ==
  ASSUME TypeOK, NEW ro \in Rollouts, NEW sync \in Syncs, NEW r \in Reasons,
         \/ sync = st.sync /\ SaveFailed([st EXCEPT !.ro = ro], r)
         \/ Save(NotReady([st EXCEPT !.ro = ro, !.sync = sync], r))
  PROVE  Wrote(st.imported, st.art, st.req, ro, st.last, st.lastRb, sync)
<1> DEFINE s == [st EXCEPT !.ro = ro]
           t == [st EXCEPT !.ro = ro, !.sync = sync]
<1>1. /\ s \in Statuses /\ s.hist = st.hist
      /\ Shows(s, st.imported, st.art, st.req, ro, st.last, st.lastRb, st.sync)
  BY DEF TypeOK, Statuses, Shows
<1>2. /\ t \in Statuses /\ t.hist = st.hist
      /\ Shows(t, st.imported, st.art, st.req, ro, st.last, st.lastRb, sync)
  BY DEF TypeOK, Statuses, Shows
<1>3. \/ sync = st.sync /\ SaveFailed(s, r)
      \/ Save(NotReady(t, r))
  OBVIOUS
<1> HIDE DEF s, t
<1>4. CASE sync = st.sync /\ SaveFailed(s, r)
  <2>1. Wrote(s.imported, s.art, s.req, s.ro, s.last, s.lastRb, s.sync)
    BY <1>1, <1>4, Reported DEF TypeOK
  <2> QED
    BY <1>1, <1>4, <2>1 DEF Shows
<1>5. CASE Save(NotReady(t, r))
  <2>1. Wrote(t.imported, t.art, t.req, t.ro, t.last, t.lastRb, t.sync)
    BY <1>2, <1>5, Reported DEF TypeOK
  <2> QED
    BY <1>2, <2>1 DEF Shows
<1> QED
  BY <1>3, <1>4, <1>5

\* A new, polled or forgotten request.
LEMMA RequestWrites ==
  ASSUME TypeOK, NEW s \in Statuses, Len(s.hist) <= HistoryLimit, NEW q \in Requests,
         Save(Replacing(s, q))
  PROVE  Wrote(s.imported, s.art, q, s.ro, s.last, s.lastRb, "Other")
<1> DEFINE t == [s EXCEPT !.req = q, !.sync = "Other"]
<1>1. /\ t \in Statuses /\ t.hist = s.hist
      /\ Shows(t, s.imported, s.art, q, s.ro, s.last, s.lastRb, "Other")
  BY DEF Statuses, Shows, Syncs
<1>2. Save(NotReady(t, "FlowReplaceRunning")) /\ "FlowReplaceRunning" \in Reasons
  BY DEF Replacing, Reasons
<1> HIDE DEF t
<1>3. Wrote(t.imported, t.art, t.req, t.ro, t.last, t.lastRb, t.sync)
  BY <1>1, <1>2, Reported
<1> QED
  BY <1>1, <1>3 DEF Shows

\* The request a failure leaves in the status.
FailedReq(kept) == [st.req EXCEPT !.failed = TRUE, !.id = IF kept THEN @ ELSE 0]

\* The status a failure is handled with.
LEMMA FailedStatusTyped ==
  ASSUME TypeOK, Targets, st.req.id # 0, NEW kept \in BOOLEAN
  PROVE  /\ FailedStatus(kept) \in Statuses
         /\ Len(FailedStatus(kept).hist) <= HistoryLimit
         /\ FailedReq(kept) \in Requests
         /\ FailedReq(kept).id = IF kept THEN st.req.id ELSE 0
         /\ FailedReq(kept).op = st.req.op /\ FailedReq(kept).target = st.req.target
         /\ Shows(FailedStatus(kept), st.imported, st.art, FailedReq(kept), st.ro, st.last,
                  st.lastRb, st.sync)
<1> DEFINE h == Trimmed(AppendEntry(st.hist, st.req.target, "Failed"))
<1>1. st \in Statuses /\ st.req \in Requests /\ st.req.target \in Digests
  BY DEF TypeOK, Statuses, Targets
<1>2. AppendEntry(st.hist, st.req.target, "Failed") \in Seq(Entries)
  BY <1>1, HistoryTyped DEF Statuses
<1>3. h \in Seq(Entries) /\ Len(h) <= HistoryLimit
  BY <1>1, <1>2, HistoryTyped
<1>4. /\ FailedReq(kept) \in Requests
      /\ FailedReq(kept).id = IF kept THEN st.req.id ELSE 0
      /\ FailedReq(kept).op = st.req.op /\ FailedReq(kept).target = st.req.target
  <2>1. (IF kept THEN st.req.id ELSE 0) \in 0..MaxReqs
    BY <1>1, BoundsAssumption DEF Requests
  <2>2. FailedReq(kept) = [st.req EXCEPT !.failed = TRUE, !.id = IF kept THEN st.req.id ELSE 0]
    BY <1>1 DEF FailedReq, Requests
  <2> QED
    BY <1>1, <2>1, <2>2 DEF Requests
<1>5. FailedStatus(kept) = [st EXCEPT !.req = FailedReq(kept), !.hist = h]
  BY <1>1 DEF FailedStatus, FailedReq, Statuses
<1> HIDE DEF h
<1>6. /\ FailedStatus(kept) \in Statuses /\ FailedStatus(kept).hist = h
      /\ Shows(FailedStatus(kept), st.imported, st.art, FailedReq(kept), st.ro, st.last,
               st.lastRb, st.sync)
  BY <1>1, <1>3, <1>4, <1>5 DEF Statuses, Shows
<1> QED
  BY <1>3, <1>4, <1>6

\* Giving up.
LEMMA AbandonWrites ==
  ASSUME TypeOK, NEW s \in Statuses, Len(s.hist) <= HistoryLimit, NEW r \in Reasons,
         Abandon(s, r)
  PROVE  Wrote(s.imported, s.art, s.req, NoRollout, s.last, s.lastRb, s.sync)
<1> DEFINE t == [s EXCEPT !.ro = NoRollout]
<1>1. /\ t \in Statuses /\ t.hist = s.hist
      /\ Shows(t, s.imported, s.art, s.req, NoRollout, s.last, s.lastRb, s.sync)
  BY NothingTyped DEF Statuses, Shows
<1>2. SaveFailed(t, r)
  BY DEF Abandon
<1> HIDE DEF t
<1>3. Wrote(t.imported, t.art, t.req, t.ro, t.last, t.lastRb, t.sync)
  BY <1>1, <1>2, Reported
<1> QED
  BY <1>1, <1>3 DEF Shows

\* The rollout as retried.
Retried == [st.ro EXCEPT !.retries = @ + 1, !.phase = "Preparing"]

\* Retrying.
LEMMA RetryWrites ==
  ASSUME TypeOK, NEW s \in Statuses, Len(s.hist) <= HistoryLimit, s.ro = st.ro,
         RetryAllowed, Save(Retrying(s))
  PROVE  /\ Retried \in Rollouts /\ Retried.op = st.ro.op /\ Retried.phase = "Preparing"
         /\ Wrote(s.imported, s.art, NoReq, Retried, s.last, s.lastRb, "Other")
<1> DEFINE t == [s EXCEPT !.ro.retries = @ + 1, !.ro.phase = "Preparing", !.req = NoReq,
                          !.sync = "Other"]
<1>1. st.ro \in Rollouts
  BY DEF TypeOK, Statuses
<1>2. st.ro.retries + 1 \in 0..MaxRetries
  BY <1>1, BoundsAssumption DEF Rollouts, RetryAllowed
<1>3. Retried \in Rollouts /\ Retried.op = st.ro.op /\ Retried.phase = "Preparing"
  BY <1>1, <1>2 DEF Retried, Rollouts, Phases
<1>4. t = [s EXCEPT !.ro = Retried, !.req = NoReq, !.sync = "Other"]
  BY DEF Retried, Statuses
<1>5. Save(NotReady(t, "RolloutRetrying")) /\ "RolloutRetrying" \in Reasons
  BY DEF Retrying, Reasons
<1> HIDE DEF t
<1>6. /\ t \in Statuses /\ t.hist = s.hist
      /\ Shows(t, s.imported, s.art, NoReq, Retried, s.last, s.lastRb, "Other")
  BY <1>3, <1>4, NothingTyped DEF Statuses, Shows, Syncs
<1>7. Wrote(t.imported, t.art, t.req, t.ro, t.last, t.lastRb, t.sync)
  BY <1>5, <1>6, Reported
<1> QED
  BY <1>3, <1>6, <1>7 DEF Shows

\* A completed request that is forgotten.
LEMMA CleanedTyped ==
  ASSUME TypeOK
  PROVE  /\ Cleaned \in Statuses /\ Len(Cleaned.hist) <= HistoryLimit
         /\ Cleaned.req \in Requests /\ Cleaned.req.id = 0
         /\ Shows(Cleaned, st.imported, st.art, Cleaned.req, st.ro, st.last, st.lastRb, st.sync)
<1>1. st \in Statuses /\ st.req \in Requests
  BY DEF TypeOK, Statuses
<1>2. [st.req EXCEPT !.id = 0] \in Requests /\ [st.req EXCEPT !.id = 0].id = 0
  BY <1>1, BoundsAssumption DEF Requests
<1>3. Cleaned = [st EXCEPT !.req = [st.req EXCEPT !.id = 0]]
  BY <1>1 DEF Cleaned, Statuses
<1> QED
  BY <1>1, <1>2, <1>3 DEF Statuses, Shows, TypeOK

\* A Ready status: in sync with digest, or with a live flow that differs from it.
InSyncWith(digest) ==
  /\ Fits(st')
  /\ \E lastRb \in {NoRollback, st.lastRb}, sync \in {"InSync", "Drifted"} :
       /\ Shows(st', st.imported, digest, NoReq, NoRollout, digest, lastRb, sync)
       /\ st'.ready = TRUE \/ sync = "Drifted"
       /\ lastRb = st.lastRb \/ gen > st.lastRb.gen
       /\ sync = "InSync" => ~LiveDiffers(digest) \/ lost' > lost

\* The status markSnapshotDeploymentInSync makes.
LEMMA InSyncTyped ==
  ASSUME TypeOK, NEW s \in Statuses, NEW digest \in Digests
  PROVE  LET t == InSync(s, digest)
         IN  /\ Fits(t) /\ t.ready = TRUE
             /\ Shows(t, s.imported, digest, NoReq, NoRollout, digest,
                      IF gen > s.lastRb.gen THEN NoRollback ELSE s.lastRb, "InSync")
<1> DEFINE h == Trimmed(HistoryWith(s, digest))
           rb == IF gen > s.lastRb.gen THEN NoRollback ELSE s.lastRb
           t == [s EXCEPT !.hist = h, !.last = digest, !.art = digest, !.sync = "InSync",
                          !.req = NoReq, !.ro = NoRollout, !.lastRb = rb]
<1>1. HistoryWith(s, digest) \in Seq(Entries)
  <2>1. Recorded(s, digest, "Succeeded") \in Seq(Entries)
    BY HistoryTyped DEF Recorded, Statuses
  <2> QED
    BY <2>1 DEF HistoryWith, Statuses
<1>2. h \in Seq(Entries) /\ Len(h) <= HistoryLimit
  BY <1>1, HistoryTyped
<1>3. rb \in Rollbacks /\ digest \in Known
  BY NothingTyped DEF Statuses, Known
<1>4. InSync(s, digest) = Ready(t, "RolloutComplete")
  BY DEF InSync, Statuses
<1> HIDE DEF h, rb
<1>5. /\ t \in Statuses /\ t.hist = h
      /\ Shows(t, s.imported, digest, NoReq, NoRollout, digest, rb, "InSync")
  BY <1>2, <1>3, NothingTyped DEF Statuses, Shows, Syncs
<1> HIDE DEF t
<1>6. Fits(Ready(t, "RolloutComplete"))
  <2>1. "RolloutComplete" \in Reasons
    BY DEF Reasons
  <2> QED
    BY <1>2, <1>5, <2>1, Reports DEF TypeOK
<1>7. /\ Ready(t, "RolloutComplete").ready = TRUE
      /\ Shows(Ready(t, "RolloutComplete"), s.imported, digest, NoReq, NoRollout, digest, rb,
               "InSync")
  BY <1>5 DEF Ready, Statuses, Shows
<1> QED
  BY <1>4, <1>6, <1>7 DEF rb

\* The same with drift reported.
LEMMA DriftedTyped ==
  ASSUME gen \in Nat, NEW s \in Statuses, Len(s.hist) <= HistoryLimit
  PROVE  /\ Fits(Drifted(s))
         /\ Shows(Drifted(s), s.imported, s.art, s.req, s.ro, s.last, s.lastRb, "Drifted")
<1> DEFINE t == [s EXCEPT !.sync = "Drifted"]
<1>1. /\ t \in Statuses /\ t.hist = s.hist
      /\ Shows(t, s.imported, s.art, s.req, s.ro, s.last, s.lastRb, "Drifted")
  BY DEF Statuses, Shows, Syncs
<1>2. Drifted(s) = NotReady(t, "DriftDetected") \/ Drifted(s) = Ready(t, "DriftWarning")
  BY DEF Drifted
<1> HIDE DEF t
<1>3. "DriftDetected" \in Reasons /\ "DriftWarning" \in Reasons
  BY DEF Reasons
<1>4. Fits(NotReady(t, "DriftDetected")) /\ Fits(Ready(t, "DriftWarning"))
  BY <1>1, <1>3, Reports
<1>5. /\ Shows(NotReady(t, "DriftDetected"), t.imported, t.art, t.req, t.ro, t.last, t.lastRb,
               t.sync)
      /\ Shows(Ready(t, "DriftWarning"), t.imported, t.art, t.req, t.ro, t.last, t.lastRb,
               t.sync)
  BY <1>1 DEF NotReady, Ready, Statuses, Shows
<1>6. /\ t.imported = s.imported /\ t.art = s.art /\ t.req = s.req /\ t.ro = s.ro
      /\ t.last = s.last /\ t.lastRb = s.lastRb /\ t.sync = "Drifted"
  BY <1>1 DEF Shows
<1> QED
  BY <1>2, <1>4, <1>5, <1>6

\* A status in sync is written, or none, and in that case the write was lost.
LEMMA InSyncWrites ==
  ASSUME TypeOK, NEW s \in Statuses, NEW digest \in Digests,
         s.imported = st.imported, s.lastRb = st.lastRb,
         ~LiveDiffers(digest), Save(InSync(s, digest))
  PROVE  InSyncWith(digest) \/ (st' = st /\ lost' > lost)
<1>1. st' = InSync(s, digest) \/ (st' = st /\ lost' > lost)
  BY DEF Save, TypeOK
<1>2. CASE st' = InSync(s, digest)
  <2>1. /\ Fits(st') /\ st'.ready = TRUE
        /\ Shows(st', st.imported, digest, NoReq, NoRollout, digest,
                 IF gen > st.lastRb.gen THEN NoRollback ELSE st.lastRb, "InSync")
    BY <1>2, InSyncTyped
  <2> QED
    BY <2>1 DEF InSyncWith
<1> QED
  BY <1>1, <1>2

\* The end of a successful rollout.
LEMMA FinalizeWrites ==
  ASSUME TypeOK, NEW s \in Statuses, NEW digest \in Digests, Len(s.hist) <= HistoryLimit,
         s.imported = st.imported, s.lastRb = st.lastRb,
         FinalizeRollout(s, digest)
  PROVE  \/ /\ SaveFailed(s, "DriftCheckFailed") /\ UNCHANGED cms
            /\ Wrote(s.imported, s.art, s.req, s.ro, s.last, s.lastRb, s.sync)
         \/ /\ RecordInSync(s, digest)
            /\ InSyncWith(digest) \/ (st' = st /\ lost' > lost)
<1>1. CASE SaveFailed(s, "DriftCheckFailed") /\ UNCHANGED cms
  <2>1. "DriftCheckFailed" \in Reasons
    BY DEF Reasons
  <2> QED
    BY <1>1, <2>1, Reported
<1>2. CASE ~LiveDiffers(digest) /\ SaveInSync(s, digest)
  BY <1>2, InSyncWrites DEF SaveInSync
<1>3. CASE /\ LiveDiffers(digest) /\ RecordInSync(s, digest)
           /\ \/ st' = Drifted(InSync(s, digest)) /\ UNCHANGED lost
              \/ lost < MaxLost /\ lost' = lost + 1 /\ st' \in {st, InSync(s, digest)}
  <2> DEFINE t == InSync(s, digest)
             rb == IF gen > st.lastRb.gen THEN NoRollback ELSE st.lastRb
  <2>1. /\ Fits(t) /\ t.ready = TRUE
        /\ Shows(t, st.imported, digest, NoReq, NoRollout, digest, rb, "InSync")
    BY InSyncTyped
  <2>2. rb \in {NoRollback, st.lastRb} /\ (rb = st.lastRb \/ gen > st.lastRb.gen)
    OBVIOUS
  <2>3. \/ st' = Drifted(t)
        \/ lost' > lost /\ (st' = st \/ st' = t)
    BY <1>3 DEF TypeOK
  <2> HIDE DEF t, rb
  <2>4. CASE st' = Drifted(t)
    <3>1. Fits(st') /\ Shows(st', t.imported, t.art, t.req, t.ro, t.last, t.lastRb, "Drifted")
      BY <2>1, <2>4, DriftedTyped DEF TypeOK, Fits
    <3>2. Shows(st', st.imported, digest, NoReq, NoRollout, digest, rb, "Drifted")
      BY <2>1, <3>1 DEF Shows
    <3> QED
      BY <1>3, <2>2, <3>1, <3>2 DEF InSyncWith
  <2>5. CASE lost' > lost /\ st' = t
    BY <1>3, <2>1, <2>2, <2>5 DEF InSyncWith
  <2> QED
    BY <1>3, <2>3, <2>4, <2>5
<1> QED
  BY <1>1, <1>2, <1>3 DEF FinalizeRollout

\* The status of a finished rollback.
LEMMA RolledBackWrites ==
  ASSUME TypeOK, Targets, st.req.id # 0, CompleteRollback
  PROVE  Wrote(st.imported, st.last, NoReq, NoRollout, st.last,
               [st.lastRb EXCEPT !.completed = TRUE], "RolledBack")
<1> DEFINE h == Trimmed(Recorded(st, st.last, "RolledBack"))
           rb == [st.lastRb EXCEPT !.completed = TRUE]
           t == [st EXCEPT !.hist = h, !.art = st.last, !.lastRb.completed = TRUE,
                           !.sync = "RolledBack", !.req = NoReq, !.ro = NoRollout]
<1>1. st \in Statuses /\ st.last \in Digests
  BY DEF TypeOK, Targets, CompleteRollback
<1>2. h \in Seq(Entries) /\ Len(h) <= HistoryLimit
  <2>1. Recorded(st, st.last, "RolledBack") \in Seq(Entries)
    BY <1>1, HistoryTyped DEF Recorded, Statuses
  <2> QED
    BY <1>1, <2>1, HistoryTyped
<1>3. rb \in Rollbacks
  BY <1>1 DEF Statuses, Rollbacks
<1>4. t = [st EXCEPT !.hist = h, !.art = st.last, !.lastRb = rb,
                     !.sync = "RolledBack", !.req = NoReq, !.ro = NoRollout]
  BY <1>1 DEF Statuses
<1>5. Save(NotReady(t, "RollbackComplete")) /\ "RollbackComplete" \in Reasons
  BY DEF CompleteRollback, Reasons
<1> HIDE DEF t, h, rb
<1>6. /\ t \in Statuses /\ t.hist = h
      /\ Shows(t, st.imported, st.last, NoReq, NoRollout, st.last, rb, "RolledBack")
  BY <1>1, <1>2, <1>3, <1>4, NothingTyped DEF Statuses, Shows, Syncs
<1>7. Wrote(t.imported, t.art, t.req, t.ro, t.last, t.lastRb, t.sync)
  BY <1>2, <1>5, <1>6, Reported
<1> QED
  BY <1>6, <1>7 DEF Shows, rb

-----------------------------------------------------------------------------
(* The counters, NiFi and the checkpoints *)

\* Counters stay within their bounds, and count up.
Counted == fails' \in 0..MaxFails /\ lost' \in 0..MaxLost /\ lost <= lost'

\* The parts a handler counts in.
LEMMA CountParts ==
  ASSUME TypeOK
  PROVE  /\ \A call : CallFails(call) => fails' \in 0..MaxFails
         /\ CallsSucceed => fails' \in 0..MaxFails
         /\ \A s : Save(s) => lost' \in 0..MaxLost /\ lost <= lost'
         /\ \A s, r : SaveFailed(s, r) => lost' \in 0..MaxLost /\ lost <= lost'
<1>1. fails \in 0..MaxFails /\ lost \in 0..MaxLost /\ MaxFails \in Nat /\ MaxLost \in Nat
  BY BoundsAssumption DEF TypeOK
<1>2. \A call : CallFails(call) => fails' \in 0..MaxFails
  BY <1>1 DEF CallFails
<1>3. CallsSucceed => fails' \in 0..MaxFails
  BY <1>1 DEF CallsSucceed
<1>4. \A s : Save(s) => lost' \in 0..MaxLost /\ lost <= lost'
  BY <1>1 DEF Save
<1>5. \A s, r : SaveFailed(s, r) => lost' \in 0..MaxLost /\ lost <= lost'
  BY <1>1, <1>4 DEF SaveFailed
<1> QED
  BY <1>2, <1>3, <1>4, <1>5

\* Every handler counts.
LEMMA HandlerCounts ==
  ASSUME TypeOK, Handler
  PROVE  Counted
<1>1. fails \in 0..MaxFails /\ lost \in 0..MaxLost /\ MaxLost \in Nat
  BY BoundsAssumption DEF TypeOK
<1>2. ASSUME NEW s, NEW d, FinalizeRollout(s, d)
      PROVE  Counted
  <2>1. CASE CallFails("compare") /\ SaveFailed(s, "DriftCheckFailed")
    BY <2>1, CountParts DEF Counted
  <2>2. CASE CallsSucceed /\ SaveInSync(s, d)
    BY <2>2, CountParts DEF Counted, SaveInSync
  <2>3. CASE /\ CallsSucceed
             /\ \/ UNCHANGED lost
                \/ lost < MaxLost /\ lost' = lost + 1
    BY <1>1, <2>3, CountParts DEF Counted
  <2> QED
    BY <1>2, <2>1, <2>2, <2>3 DEF FinalizeRollout
<1>3. CASE CancelRollout \/ Import \/ LiveNotFound \/ RequeueBlocked \/ ReportDrift
  BY <1>1, <1>3, CountParts
     DEF Counted, CancelRollout, Import, LiveNotFound, RequeueBlocked, ReportDrift
<1>4. CASE CheckFails \/ Confirm
  BY <1>1, <1>4, CountParts DEF Counted, CheckFails, Confirm, SaveInSync
<1>5. CASE PrepareFails \/ AwaitDrain \/ Stop
  BY <1>1, <1>5, CountParts DEF Counted, PrepareFails, AwaitDrain, Stop
<1>6. CASE Replace
  BY <1>1, <1>6, CountParts DEF Counted, Replace
<1>7. CASE PollFails \/ Poll
  BY <1>1, <1>7, CountParts DEF Counted, PollFails, Poll
<1>8. CASE HandleFailure
  <2>1. ASSUME NEW s, NEW r, Abandon(s, r)
        PROVE  lost' \in 0..MaxLost /\ lost <= lost'
    BY <2>1, CountParts DEF Abandon
  <2>2. ASSUME NEW s, NEW from, StartRollback(s, from)
        PROVE  Counted
    BY <2>2, CountParts DEF StartRollback, Counted
  <2> QED
    BY <1>1, <1>8, <2>1, <2>2, CountParts DEF Counted, HandleFailure
<1>9. CASE CompletionFails
  BY <1>1, <1>9, CountParts DEF Counted, CompletionFails
<1>10. CASE Complete
  BY <1>1, <1>2, <1>10, CountParts DEF Counted, Complete
<1>11. CASE CompleteRollback
  BY <1>1, <1>11, CountParts DEF Counted, CompleteRollback
<1>12. CASE ReadinessFails
  BY <1>12, CountParts DEF Counted, ReadinessFails
<1>13. CASE ReadinessPasses
  BY <1>2, <1>13 DEF ReadinessPasses
<1>14. CASE ReadinessExpires
  BY <1>14, CountParts DEF Counted, ReadinessExpires, Abandon
<1> QED
  BY <1>3, <1>4, <1>5, <1>6, <1>7, <1>8, <1>9, <1>10, <1>11, <1>12, <1>13, <1>14 DEF Handler

\* Trimming takes checkpoints away, but not the one it is told to keep.
LEMMA PurgeKeeps ==
  ASSUME NEW from, NEW hist, NEW last, Purge(from, hist, last)
  PROVE  cms' \subseteq from /\ (last \in from => last \in cms')
BY DEF Purge

\* A success is checkpointed before it is recorded, unless it was recorded before.
LEMMA RecordKeeps ==
  ASSUME NEW s, NEW digest, RecordInSync(s, digest)
  PROVE  /\ cms' \subseteq cms \union {digest}
         /\ s.last # digest \/ digest \in cms => digest \in cms'
<1>1. Purge(IF s.last = digest THEN cms ELSE cms \union {digest}, HistoryWith(s, digest), digest)
  BY DEF RecordInSync
<1> QED
  BY <1>1, PurgeKeeps

\* What a request that is deleted, created or forgotten leaves.
LEMMA RequestsTyped ==
  ASSUME TypeOK
  PROVE  /\ \A id \in ReqIds : DeleteRequest(id) =>
               /\ reqs' \in [ReqIds -> NifiRequests]
               /\ content' \in Known \union {Foreign}
         /\ \A id \in ReqIds : [reqs EXCEPT ![id].state = "gone"] \in [ReqIds -> NifiRequests]
         /\ \A from \in [ReqIds -> NifiRequests], op \in Ops, target \in Known :
               CreateRequest(from, op, target) =>
                 /\ nreq' \in ReqIds /\ reqs' \in [ReqIds -> NifiRequests]
                 /\ Request(op, target) \in Requests
<1>1. /\ reqs \in [ReqIds -> NifiRequests] /\ content \in Known \union {Foreign}
      /\ nreq \in 0..MaxReqs /\ MaxReqs \in Nat
  BY BoundsAssumption DEF TypeOK
<1>2. \A id \in ReqIds : [reqs EXCEPT ![id].state = "gone"] \in [ReqIds -> NifiRequests]
  BY <1>1 DEF NifiRequests, States
<1>3. ASSUME NEW id \in ReqIds, DeleteRequest(id)
      PROVE  reqs' \in [ReqIds -> NifiRequests] /\ content' \in Known \union {Foreign}
  <2>1. reqs' \in [ReqIds -> NifiRequests]
    BY <1>2, <1>3 DEF DeleteRequest
  <2>2. content' \in Known \union {Foreign}
    BY <1>1, <1>3 DEF DeleteRequest
  <2> QED
    BY <2>1, <2>2
<1>4. ASSUME NEW from \in [ReqIds -> NifiRequests], NEW op \in Ops, NEW target \in Known,
             CreateRequest(from, op, target)
      PROVE  /\ nreq' \in ReqIds /\ reqs' \in [ReqIds -> NifiRequests]
             /\ Request(op, target) \in Requests
  <2>1. nreq' \in ReqIds /\ nreq' \in 0..MaxReqs
    BY <1>1, <1>4 DEF CreateRequest, ReqIds
  <2>2. [op |-> op, target |-> target, state |-> "running"] \in NifiRequests
    BY DEF NifiRequests, States
  <2>3. reqs' \in [ReqIds -> NifiRequests]
    BY <1>4, <2>1, <2>2 DEF CreateRequest
  <2>4. Request(op, target) \in Requests
    BY <2>1, NothingTyped DEF Request, Requests
  <2> QED
    BY <2>1, <2>3, <2>4
<1> QED
  BY <1>2, <1>3, <1>4

-----------------------------------------------------------------------------
(* How a step keeps the invariant *)

\* What a reconcile leaves alone.
Around == /\ TrackAttempts /\ TrackUndone /\ Counted /\ UNCHANGED <<spec, drifts>>

\* A step keeps the types if it writes well-formed values.
LEMMA StepTyped ==
  ASSUME TypeOK, Around, st' = st \/ Fits(st'),
         content' \in Known \union {Foreign}, running' \in BOOLEAN, backlog' \in BOOLEAN,
         nreq' \in 0..MaxReqs, reqs' \in [ReqIds -> NifiRequests], cms' \subseteq Digests
  PROVE  TypeOK'
<1>1. UNCHANGED <<want, gen, cancel, edits, cancels, drifts>>
  BY DEF Around, spec
<1>2. attempts' \in Nat
  BY DEF Around, TrackAttempts, TypeOK
<1>3. undone' \in {"No", "Started", "Yes"}
  BY DEF Around, TrackUndone, TypeOK
<1>4. st' \in Statuses /\ Len(st'.hist) <= HistoryLimit /\ st'.seen <= gen
  BY DEF Fits, TypeOK
<1> QED
  BY <1>1, <1>2, <1>3, <1>4 DEF TypeOK, Around, Counted

\* What a rolled back deployment waits in: no handler but the requeue.
LEMMA YesIsQuiet ==
  ASSUME RolloutInv, undone = "Yes"
  PROVE  /\ ~Cancelling /\ ~AwaitingReadiness /\ ~Pending /\ ~Mounted /\ st.imported
         /\ st.req.id = 0
BY DEF RolloutInv, Undone, Cancelling, AwaitingReadiness, Pending, Mounted, Active

\* Without a new request the rollback bookkeeping moves only with its completion.
LEMMA UndoneStays ==
  ASSUME TypeOK, TrackUndone, nreq' = nreq, st'.sync = st.sync \/ st'.sync # "RolledBack"
  PROVE  undone' = undone
<1>1. ~(nreq' > nreq)
  BY DEF TypeOK
<1> QED
  BY <1>1 DEF TrackUndone

\* A status that was not written, or whose write was lost.
LEMMA KeptInv ==
  ASSUME RolloutInv, TypeOK', Around, st' = st,
         st.last \in cms => st.last \in cms',
         undone' = undone \/ (undone' = "Started" /\ st.req.op = "Rollout" /\ st.req.target = want)
  PROVE  RolloutInv'
<1>1. UNCHANGED <<want, gen>> /\ lost \in Nat /\ lost' \in Nat /\ lost <= lost'
  BY BoundsAssumption DEF Around, Counted, spec, RolloutInv, TypeOK
<1>2. Targets' /\ GateIdle' /\ ReadyIdle'
  BY DEF RolloutInv, Targets, GateIdle, ReadyIdle
<1>3. CheckpointKept'
  <2>1. lost' = 0 => lost = 0
    BY <1>1
  <2> QED
    BY <2>1 DEF RolloutInv, CheckpointKept
<1>4. Undone'
  BY <1>1 DEF RolloutInv, Undone, Blocked, Active
<1> QED
  BY <1>2, <1>3, <1>4 DEF RolloutInv

\* A written status that keeps the request, or drops it, and keeps what was successful.
LEMMA QuietInv ==
  ASSUME RolloutInv, TypeOK', Around, nreq' = nreq, undone # "Yes",
         st.last \in cms => st.last \in cms',
         NEW imported, NEW art, NEW req, NEW ro, NEW sync,
         Wrote(imported, art, req, ro, st.last, st.lastRb, sync),
         st.imported => imported,
         req.id = 0 \/ (req.id = st.req.id /\ req.op = st.req.op /\ req.target = st.req.target),
         ro.phase = "AwaitingReadiness" => ro.op = "Rollout" /\ req.id = 0,
         sync = st.sync \/ sync # "RolledBack"
  PROVE  RolloutInv'
<1>1. UNCHANGED <<want, gen>> /\ lost \in Nat /\ lost' \in Nat /\ lost <= lost'
  BY BoundsAssumption DEF Around, Counted, spec, RolloutInv, TypeOK
<1>2. CASE st' = st
  <2>1. undone' = undone
    BY <1>2, UndoneStays DEF RolloutInv, Around
  <2> QED
    BY <1>2, <2>1, KeptInv
<1>3. CASE st'.ready = FALSE /\ Shows(st', imported, art, req, ro, st.last, st.lastRb, sync)
  <2>1. /\ st'.imported = imported /\ st'.req = req /\ st'.ro = ro /\ st'.last = st.last
        /\ st'.lastRb = st.lastRb /\ st'.sync = sync
    BY <1>3 DEF Shows
  <2>2. undone' = undone
    BY <2>1, UndoneStays DEF RolloutInv, Around
  <2>3. Targets'
    BY <2>1 DEF RolloutInv, Targets
  <2>4. GateIdle' /\ ReadyIdle'
    BY <1>3, <2>1 DEF GateIdle, ReadyIdle
  <2>5. CheckpointKept'
    <3>1. lost' = 0 => lost = 0
      BY <1>1
    <3> QED
      BY <2>1, <3>1 DEF RolloutInv, CheckpointKept
  <2>6. Undone'
    BY <1>1, <2>1, <2>2 DEF RolloutInv, Undone
  <2> QED
    BY <2>3, <2>4, <2>5, <2>6 DEF RolloutInv
<1> QED
  BY <1>2, <1>3 DEF Wrote

\* A status in sync with a checkpointed artifact.
LEMMA SyncedInv ==
  ASSUME RolloutInv, TypeOK', Around, nreq' = nreq, undone # "Yes",
         NEW digest, InSyncWith(digest), lost' = 0 => digest \in cms'
  PROVE  RolloutInv'
<1>1. /\ st'.req = NoReq /\ st'.ro = NoRollout /\ st'.last = digest
      /\ st'.sync \in {"InSync", "Drifted"}
  BY DEF InSyncWith, Shows
<1>2. undone' = undone
  BY <1>1, UndoneStays DEF RolloutInv, Around
<1>3. Targets' /\ GateIdle' /\ ReadyIdle'
  BY <1>1, NothingTyped DEF Targets, GateIdle, ReadyIdle
<1>4. CheckpointKept'
  BY <1>1 DEF CheckpointKept
<1>5. Undone'
  BY <1>1, <1>2, NothingTyped DEF Undone
<1> QED
  BY <1>3, <1>4, <1>5 DEF RolloutInv

\* A lost write: what is promised of the checkpoints is not promised any more.
LEMMA LostInv ==
  ASSUME RolloutInv, TypeOK', Around, st' = st, lost' # 0, nreq' = nreq
  PROVE  RolloutInv'
<1>1. UNCHANGED <<want, gen>>
  BY DEF Around, spec
<1>2. undone' = undone
  BY UndoneStays DEF RolloutInv, Around
<1>3. Targets' /\ GateIdle' /\ ReadyIdle' /\ CheckpointKept'
  BY DEF RolloutInv, Targets, GateIdle, ReadyIdle, CheckpointKept
<1>4. Undone'
  BY <1>1, <1>2 DEF RolloutInv, Undone, Blocked, Active
<1> QED
  BY <1>3, <1>4 DEF RolloutInv

\* A failure is reported, nothing else: a rolled back deployment stays so.
LEMMA SameInv ==
  ASSUME RolloutInv, Around, UNCHANGED <<nifi, cms>>, NEW r \in Reasons, SaveFailed(st, r)
  PROVE  RolloutInv'
<1>1. Wrote(st.imported, st.art, st.req, st.ro, st.last, st.lastRb, st.sync)
  BY FailureWrites DEF RolloutInv
<1>2. UNCHANGED <<content, running, backlog, reqs, nreq, cms, want, gen>>
  BY DEF nifi, Around, spec
<1>3. TypeOK'
  <2>1. TypeOK /\ (st' = st \/ Fits(st'))
    BY <1>1 DEF RolloutInv, Wrote
  <2> QED
    BY <1>2, <2>1, StepTyped DEF TypeOK
<1>4. /\ st'.imported = st.imported /\ st'.req = st.req /\ st'.ro = st.ro /\ st'.last = st.last
      /\ st'.lastRb = st.lastRb /\ st'.sync = st.sync
      /\ st'.ready = FALSE \/ st'.ready = st.ready
  BY <1>1 DEF Wrote, Shows
<1>5. undone' = undone
  BY <1>2, <1>4, UndoneStays DEF RolloutInv, Around
<1>6. Targets' /\ GateIdle'
  BY <1>2, <1>4 DEF RolloutInv, Targets, GateIdle
<1>7. ReadyIdle'
  BY <1>4 DEF RolloutInv, ReadyIdle
<1>8. CheckpointKept'
  <2>1. lost' = 0 => lost = 0
    BY BoundsAssumption DEF Around, Counted, RolloutInv, TypeOK
  <2> QED
    BY <1>2, <1>4, <2>1 DEF RolloutInv, CheckpointKept
<1>9. Undone'
  BY <1>2, <1>4, <1>5 DEF RolloutInv, Undone, Blocked, Active
<1> QED
  BY <1>3, <1>6, <1>7, <1>8, <1>9 DEF RolloutInv

-----------------------------------------------------------------------------
(* The handlers *)

\* Cancellation, import and a target that is blocked.
LEMMA OuterInv ==
  ASSUME RolloutInv, Around,
         CancelRollout \/ Import \/ LiveNotFound \/ RequeueBlocked \/ ReportDrift
  PROVE  RolloutInv'
<1>1. TypeOK /\ st \in Statuses /\ st.req \in Requests /\ st.req.id \in 0..MaxReqs
  BY DEF RolloutInv, TypeOK, Statuses, Requests
<1>2. CASE CancelRollout
  <2>1. Wrote(st.imported, st.art, NoReq, NoRollout, st.last, st.lastRb, "Other")
    BY <1>1, <1>2, CancelWrites
  <2>2. UNCHANGED <<running, backlog, nreq, cms>> /\ undone # "Yes"
    BY <1>2, YesIsQuiet DEF CancelRollout
  <2>3. reqs' \in [ReqIds -> NifiRequests] /\ content' \in Known \union {Foreign}
    <3>1. CASE st.req.id # 0 /\ DeleteRequest(st.req.id)
      <4>1. st.req.id \in ReqIds
        BY <1>1, <3>1, BoundsAssumption DEF ReqIds
      <4> QED
        BY <1>1, <3>1, <4>1, RequestsTyped
    <3>2. CASE UNCHANGED <<reqs, content>>
      BY <1>1, <3>2 DEF TypeOK
    <3> QED
      BY <1>2, <3>1, <3>2 DEF CancelRollout
  <2>4. TypeOK'
    <3>1. st' = st \/ Fits(st')
      BY <2>1 DEF Wrote
    <3> QED
      BY <1>1, <2>2, <2>3, <3>1, StepTyped DEF TypeOK
  <2> QED
    BY <2>1, <2>2, <2>4, NothingTyped, QuietInv
<1>3. CASE Import
  <2> DEFINE ro == EnsureActive("Rollout", want)
  <2>1. \/ Wrote(st.imported, st.art, st.req, ro, st.last, st.lastRb, st.sync)
        \/ Wrote(TRUE, want, NoReq, ro, st.last, st.lastRb, "Other")
    BY <1>1, <1>3, ImportWrites
  <2>2. /\ UNCHANGED <<running, backlog, reqs, nreq, cms>> /\ undone # "Yes"
        /\ content' \in {content, want}
    BY <1>3, YesIsQuiet DEF Import
  <2>3. ro.op = "Rollout" /\ st.req.id = 0
    BY <1>1, <1>3, ActiveTyped DEF Import, Idle, TypeOK, Known, Phases
  <2>4. TypeOK'
    <3>1. st' = st \/ Fits(st')
      BY <2>1 DEF Wrote
    <3>2. content' \in Known \union {Foreign}
      BY <1>1, <2>2 DEF TypeOK, Known
    <3> QED
      BY <1>1, <2>2, <3>1, <3>2, StepTyped DEF TypeOK
  <2> HIDE DEF ro
  <2>5. CASE Wrote(st.imported, st.art, st.req, ro, st.last, st.lastRb, st.sync)
    BY <2>2, <2>3, <2>4, <2>5, QuietInv
  <2>6. CASE Wrote(TRUE, want, NoReq, ro, st.last, st.lastRb, "Other")
    <3>1. PICK imp \in BOOLEAN : imp = TRUE
      OBVIOUS
    <3>2. Wrote(imp, want, NoReq, ro, st.last, st.lastRb, "Other")
      BY <2>6, <3>1
    <3>3. (st.imported => imp) /\ NoReq.id = 0 /\ "Other" # "RolledBack"
      BY <3>1, NothingTyped
    <3>4. ro.phase = "AwaitingReadiness" => ro.op = "Rollout" /\ NoReq.id = 0
      BY <2>3, <3>3
    <3> QED
      BY <2>2, <2>4, <3>2, <3>3, <3>4, QuietInv
  <2> QED
    BY <2>1, <2>5, <2>6
<1>4. CASE LiveNotFound
  <2>1. "NiFiGetFailed" \in Reasons
    BY DEF Reasons
  <2> QED
    BY <1>4, <2>1, SameInv DEF LiveNotFound
<1>5. CASE RequeueBlocked
  <2>1. UNCHANGED <<content, running, backlog, reqs, nreq, cms, st>>
    BY <1>5 DEF RequeueBlocked, nifi
  <2>2. TypeOK'
    BY <1>1, <2>1, StepTyped DEF TypeOK
  <2>3. undone' = undone
    BY <1>1, <2>1, UndoneStays DEF Around
  <2> QED
    BY <2>1, <2>2, <2>3, KeptInv
<1>6. CASE ReportDrift
  <2>1. st' = st \/ st' = Drifted(st)
    BY <1>6 DEF ReportDrift, Save
  <2>2. /\ Fits(Drifted(st))
        /\ Shows(Drifted(st), st.imported, st.art, st.req, st.ro, st.last, st.lastRb, "Drifted")
    BY <1>1, DriftedTyped DEF TypeOK
  <2>3. UNCHANGED <<content, running, backlog, reqs, nreq, cms>>
    BY <1>6 DEF ReportDrift, nifi
  <2>4. TypeOK'
    BY <1>1, <2>1, <2>2, <2>3, StepTyped DEF TypeOK
  <2>5. st.req.id = 0 /\ undone # "Yes"
    BY <1>6, YesIsQuiet DEF ReportDrift, Deployed, Mounted, Idle
  <2>6. CASE st' = st
    <3>1. undone' = undone
      BY <1>1, <2>3, <2>6, UndoneStays DEF Around
    <3> QED
      BY <2>3, <2>4, <2>6, <3>1, KeptInv
  <2>7. CASE st' = Drifted(st)
    <3>1. /\ st'.imported = st.imported /\ st'.req = st.req /\ st'.ro = st.ro
          /\ st'.last = st.last /\ st'.lastRb = st.lastRb /\ st'.sync = "Drifted"
      BY <2>2, <2>7 DEF Shows
    <3>2. undone' = undone
      BY <1>1, <2>3, <3>1, UndoneStays DEF Around
    <3>3. Targets' /\ GateIdle' /\ ReadyIdle'
      BY <2>5, <3>1 DEF RolloutInv, Targets, GateIdle, ReadyIdle
    <3>4. CheckpointKept'
      <4>1. lost' = 0 => lost = 0
        BY <1>1, BoundsAssumption DEF Around, Counted, TypeOK
      <4> QED
        BY <2>3, <3>1, <4>1 DEF RolloutInv, CheckpointKept
    <3>5. Undone'
      BY <2>5, <3>1, <3>2 DEF Undone
    <3> QED
      BY <2>4, <3>3, <3>4, <3>5 DEF RolloutInv
  <2> QED
    BY <2>1, <2>6, <2>7
<1> QED
  BY <1>2, <1>3, <1>4, <1>5, <1>6

\* The checks of a deployment that is up to date.
LEMMA ConfirmInv ==
  ASSUME RolloutInv, Around, CheckFails \/ Confirm
  PROVE  RolloutInv'
<1>1. TypeOK /\ want \in Digests /\ st \in Statuses
  BY DEF RolloutInv, TypeOK
<1>2. CASE CheckFails
  <2>1. /\ UNCHANGED <<nifi, cms>>
        /\ \/ SaveFailed(st, "DriftCheckFailed") \/ SaveFailed(st, "SnapshotMetadataFailed")
           \/ SaveFailed(st, "RolloutFinalizeFailed")
    BY <1>2 DEF CheckFails
  <2>2. /\ "DriftCheckFailed" \in Reasons /\ "SnapshotMetadataFailed" \in Reasons
        /\ "RolloutFinalizeFailed" \in Reasons
    BY DEF Reasons
  <2> QED
    BY <2>1, <2>2, SameInv
<1>3. CASE Confirm
  <2>1. /\ ~LiveDiffers(want) /\ UNCHANGED <<content, backlog, reqs, nreq>>
        /\ running' \in BOOLEAN /\ undone # "Yes"
    BY <1>1, <1>3, YesIsQuiet, PolicyAssumption DEF Confirm, Deployed, StartGroup, TypeOK
  <2>2. CASE UNCHANGED <<cms, st>>
    <3>1. TypeOK'
      BY <1>1, <2>1, <2>2, StepTyped DEF TypeOK
    <3>2. undone' = undone
      BY <1>1, <2>1, <2>2, UndoneStays DEF Around
    <3> QED
      BY <2>2, <3>1, <3>2, KeptInv
  <2>3. CASE SaveInSync(st, want)
    <3>1. RecordInSync(st, want) /\ (InSyncWith(want) \/ (st' = st /\ lost' > lost))
      BY <1>1, <2>1, <2>3, InSyncWrites DEF SaveInSync
    <3>2. /\ cms' \subseteq Digests
          /\ st.last # want \/ want \in cms => want \in cms'
      BY <1>1, <3>1, RecordKeeps DEF TypeOK
    <3>3. TypeOK'
      <4>1. st' = st \/ Fits(st')
        BY <3>1 DEF InSyncWith
      <4> QED
        BY <1>1, <2>1, <3>2, <4>1, StepTyped DEF TypeOK
    <3>4. lost' = 0 => lost = 0
      BY <1>1, BoundsAssumption DEF Around, Counted, TypeOK
    <3>5. lost' = 0 => want \in cms'
      BY <1>1, <3>2, <3>4, DigestsAssumption DEF RolloutInv, CheckpointKept
    <3>6. CASE InSyncWith(want)
      BY <2>1, <3>3, <3>5, <3>6, SyncedInv
    <3>7. CASE st' = st /\ lost' > lost
      <4>1. lost' # 0
        BY <1>1, <3>7, BoundsAssumption DEF TypeOK
      <4> QED
        BY <1>1, <2>1, <3>3, <3>7, <4>1, LostInv
    <3> QED
      BY <3>1, <3>6, <3>7
  <2> QED
    BY <1>3, <2>2, <2>3 DEF Confirm
<1> QED
  BY <1>2, <1>3

\* A replace request that was made, whether or not the status write that records it lands.
LEMMA RequestedInv ==
  ASSUME RolloutInv, TypeOK', Around, undone # "Yes", st.imported,
         st.last \in cms => st.last \in cms',
         NEW req, NEW ro, NEW lastRb,
         Wrote(st.imported, st.art, req, ro, st.last, lastRb, "Other"),
         req.target \in Digests, req.op # "None", req.op = "Rollback" => req.target = st.last,
         ro.phase # "AwaitingReadiness",
         undone' = undone \/ (undone' = "Started" /\ st.req.op = "Rollout" /\ st.req.target = want),
         undone' = "Started" =>
           IF req.op = "Rollout" THEN req.target = want
           ELSE lastRb.gen = gen /\ lastRb.digest = want
  PROVE  RolloutInv'
<1>1. UNCHANGED <<want, gen>>
  BY DEF Around, spec
<1>2. CASE st' = st
  BY <1>2, KeptInv
<1>3. CASE /\ st'.ready = FALSE
           /\ Shows(st', st.imported, st.art, req, ro, st.last, lastRb, "Other")
  <2>1. /\ st'.imported = st.imported /\ st'.req = req /\ st'.ro = ro /\ st'.last = st.last
        /\ st'.lastRb = lastRb
    BY <1>3 DEF Shows
  <2>2. Targets'
    BY <2>1 DEF Targets
  <2>3. GateIdle' /\ ReadyIdle'
    BY <1>3, <2>1 DEF GateIdle, ReadyIdle
  <2>4. CheckpointKept'
    <3>1. lost' = 0 => lost = 0
      BY BoundsAssumption DEF Around, Counted, RolloutInv, TypeOK
    <3> QED
      BY <2>1, <3>1 DEF RolloutInv, CheckpointKept
  <2>5. Undone'
    BY <1>1, <2>1 DEF Undone
  <2> QED
    BY <2>2, <2>3, <2>4, <2>5 DEF RolloutInv
<1> QED
  BY <1>2, <1>3 DEF Wrote

\* What a created request is.
LEMMA CreatedRequest ==
  ASSUME TypeOK, NEW from \in [ReqIds -> NifiRequests], NEW op \in {"Rollout", "Rollback"},
         NEW target \in Known, CreateRequest(from, op, target)
  PROVE  /\ nreq' = nreq + 1 /\ nreq' > nreq /\ nreq' \in ReqIds /\ nreq' # 0
         /\ nreq' \in 0..MaxReqs
         /\ reqs' \in [ReqIds -> NifiRequests] /\ reqs'[nreq'].op = op
         /\ reqs'[nreq'].state = "running"
         /\ \A id \in ReqIds \ {nreq'} : reqs'[id] = from[id]
         /\ Request(op, target) \in Requests /\ Request(op, target).id = nreq'
         /\ Request(op, target).op = op /\ Request(op, target).target = target
         /\ Request(op, target).failed = FALSE
<1>1. nreq \in Nat /\ MaxReqs \in Nat /\ op \in Ops
  BY BoundsAssumption DEF TypeOK, Ops
<1>2. nreq' = nreq + 1 /\ nreq' > nreq /\ nreq' \in ReqIds /\ nreq' # 0 /\ nreq' \in 0..MaxReqs
  BY <1>1 DEF CreateRequest, ReqIds
<1>3. reqs' \in [ReqIds -> NifiRequests] /\ Request(op, target) \in Requests
  BY <1>1, RequestsTyped
<1>4. reqs' = [from EXCEPT ![nreq'] = [op |-> op, target |-> target, state |-> "running"]]
  BY DEF CreateRequest
<1>5. /\ reqs'[nreq'].op = op /\ reqs'[nreq'].state = "running"
      /\ \A id \in ReqIds \ {nreq'} : reqs'[id] = from[id]
  BY <1>2, <1>4
<1>6. /\ Request(op, target).id = nreq' /\ Request(op, target).failed = FALSE
      /\ Request(op, target).op = op /\ Request(op, target).target = target
  BY DEF Request, NoReq
<1> QED
  BY <1>2, <1>3, <1>5, <1>6

\* The rollout towards what is wanted.
LEMMA TargetTyped ==
  ASSUME TypeOK
  PROVE  /\ Target \in Rollouts /\ Target.op = "Rollout"
         /\ Target = st.ro \/ Target.phase = "Preparing"
         /\ [Target EXCEPT !.phase = "Prepared"] \in Rollouts
         /\ [Target EXCEPT !.phase = "Prepared"].phase = "Prepared"
         /\ [Target EXCEPT !.phase = "Prepared"].op = "Rollout"
         /\ [Target EXCEPT !.phase = "Replacing"] \in Rollouts
         /\ [Target EXCEPT !.phase = "Replacing"].phase = "Replacing"
         /\ [Target EXCEPT !.phase = "Replacing"].op = "Rollout"
<1>1. st \in Statuses /\ want \in Known /\ "Prepared" \in Phases /\ "Replacing" \in Phases
  BY DEF TypeOK, Known, Phases
<1>2. /\ Target \in Rollouts /\ Target.op = "Rollout"
      /\ Target = st.ro \/ Target.phase = "Preparing"
  <2> DEFINE ro == EnsureActive("Rollout", want)
  <2>1. ro \in Rollouts /\ ro.op = "Rollout" /\ (ro = st.ro \/ ro.phase = "Preparing")
    BY <1>1, ActiveTyped
  <2>2. Target = ro
    BY DEF Target
  <2> HIDE DEF ro
  <2> QED
    BY <2>1, <2>2
<1> QED
  BY <1>1, <1>2 DEF Rollouts

\* Preparing the rollout: failures, the wait for the queues, the stop.
LEMMA PrepareInv ==
  ASSUME RolloutInv, Around, PrepareFails \/ AwaitDrain \/ Stop
  PROVE  RolloutInv'
<1> DEFINE prepared == [Target EXCEPT !.phase = "Prepared"]
<1>1. TypeOK /\ st \in Statuses /\ st.req.id = 0 /\ undone # "Yes" /\ st.sync \in Syncs
  BY YesIsQuiet
     DEF RolloutInv, TypeOK, Statuses, PrepareFails, AwaitDrain, Draining, Stop, StoppingFirst,
         Outdated, Mounted, Idle
<1>2. /\ Target \in Rollouts /\ Target.op = "Rollout"
      /\ prepared \in Rollouts /\ prepared.op = "Rollout"
  BY <1>1, TargetTyped
<1>3. /\ "RolloutPreparationFailed" \in Reasons /\ "DrainingQueues" \in Reasons
      /\ "RolloutPrepared" \in Reasons /\ "DrainingQueues" \in Syncs /\ "Other" \in Syncs
  BY DEF Reasons, Syncs
<1>4. /\ UNCHANGED <<content, reqs, nreq, cms>>
      /\ running' \in BOOLEAN /\ backlog' \in BOOLEAN
  BY <1>1 DEF PrepareFails, AwaitDrain, Stop, nifi, TypeOK
<1>5. \/ st' = st
      \/ SaveFailed([st EXCEPT !.ro = Target], "RolloutPreparationFailed")
      \/ Save(NotReady([st EXCEPT !.ro = Target, !.sync = "DrainingQueues"], "DrainingQueues"))
      \/ Save(NotReady([st EXCEPT !.ro = prepared, !.sync = "Other"], "RolloutPrepared"))
  BY DEF PrepareFails, AwaitDrain, Stop
<1>6. ASSUME NEW ro \in Rollouts, ro.op = "Rollout", NEW sync \in Syncs,
             sync = st.sync \/ sync # "RolledBack",
             Wrote(st.imported, st.art, st.req, ro, st.last, st.lastRb, sync)
      PROVE  RolloutInv'
  <2>1. st' = st \/ Fits(st')
    BY <1>6 DEF Wrote
  <2>2. TypeOK'
    BY <1>1, <1>4, <2>1, StepTyped DEF TypeOK
  <2> QED
    BY <1>1, <1>4, <1>6, <2>2, QuietInv
<1> HIDE DEF prepared
<1>7. CASE st' = st
  <2>1. Wrote(st.imported, st.art, st.req, Target, st.last, st.lastRb, st.sync)
    BY <1>7 DEF Wrote
  <2> QED
    BY <1>1, <1>2, <1>6, <2>1
<1>8. CASE SaveFailed([st EXCEPT !.ro = Target], "RolloutPreparationFailed")
  <2>1. Wrote(st.imported, st.art, st.req, Target, st.last, st.lastRb, st.sync)
    BY <1>1, <1>2, <1>3, <1>8, PrepareWrites
  <2> QED
    BY <1>1, <1>2, <1>6, <2>1
<1>9. CASE Save(NotReady([st EXCEPT !.ro = Target, !.sync = "DrainingQueues"], "DrainingQueues"))
  <2>1. Wrote(st.imported, st.art, st.req, Target, st.last, st.lastRb, "DrainingQueues")
    BY <1>1, <1>2, <1>3, <1>9, PrepareWrites
  <2> QED
    BY <1>2, <1>3, <1>6, <2>1
<1>10. CASE Save(NotReady([st EXCEPT !.ro = prepared, !.sync = "Other"], "RolloutPrepared"))
  <2>1. Wrote(st.imported, st.art, st.req, prepared, st.last, st.lastRb, "Other")
    BY <1>1, <1>2, <1>3, <1>10, PrepareWrites
  <2> QED
    BY <1>2, <1>3, <1>6, <2>1
<1> QED
  BY <1>5, <1>7, <1>8, <1>9, <1>10

\* The checkpoint is saved and the replace request is made.
LEMMA ReplaceInv ==
  ASSUME RolloutInv, Around, Replace
  PROVE  RolloutInv'
<1> DEFINE prepared == [Target EXCEPT !.phase = IF @ = "Preparing" THEN "Prepared" ELSE @]
           replacing == [Target EXCEPT !.phase = "Replacing"]
           s == [st EXCEPT !.ro = replacing]
           q == Request("Rollout", want)
<1>1. /\ TypeOK /\ st \in Statuses /\ st.req.id = 0 /\ undone # "Yes" /\ st.imported
      /\ st.sync \in Syncs /\ want \in Digests /\ want \in Known /\ cms \subseteq Digests
      /\ reqs \in [ReqIds -> NifiRequests]
  BY YesIsQuiet DEF RolloutInv, TypeOK, Statuses, Replace, Outdated, Mounted, Idle, Known
<1>2. /\ Target \in Rollouts /\ Target.op = "Rollout"
      /\ replacing \in Rollouts /\ replacing.op = "Rollout" /\ replacing.phase = "Replacing"
  BY <1>1, TargetTyped
<1>3. prepared \in Rollouts /\ prepared.op = "Rollout"
  <2>1. (IF Target.phase = "Preparing" THEN "Prepared" ELSE Target.phase) \in Phases
    BY <1>2 DEF Rollouts, Phases
  <2>2. prepared = [Target EXCEPT !.phase = IF Target.phase = "Preparing" THEN "Prepared"
                                            ELSE Target.phase]
    BY <1>2 DEF Rollouts
  <2> QED
    BY <1>2, <2>1, <2>2 DEF Rollouts
<1>4. UNCHANGED <<content, running, backlog>> /\ cms' \subseteq Digests /\ cms \subseteq cms'
  BY <1>1 DEF Replace
<1>5. \/ SaveFailed([st EXCEPT !.ro = prepared], "RolloutCheckpointFailed")
         /\ UNCHANGED <<reqs, nreq>>
      \/ SaveFailed(s, "FlowReplaceCreateFailed") /\ UNCHANGED <<reqs, nreq>>
      \/ CreateRequest(reqs, "Rollout", want) /\ Save(Replacing(s, q))
  BY DEF Replace
<1>6. "RolloutCheckpointFailed" \in Reasons /\ "FlowReplaceCreateFailed" \in Reasons
  BY DEF Reasons
<1>7. /\ s \in Statuses /\ s.hist = st.hist
      /\ Shows(s, st.imported, st.art, st.req, replacing, st.last, st.lastRb, st.sync)
  BY <1>1, <1>2 DEF Statuses, Shows
<1>8. ASSUME NEW ro \in Rollouts, ro.op = "Rollout", UNCHANGED <<reqs, nreq>>,
             Wrote(st.imported, st.art, st.req, ro, st.last, st.lastRb, st.sync)
      PROVE  RolloutInv'
  <2>1. st' = st \/ Fits(st')
    BY <1>8 DEF Wrote
  <2>2. TypeOK'
    BY <1>1, <1>4, <1>8, <2>1, StepTyped DEF TypeOK
  <2> QED
    BY <1>1, <1>4, <1>8, <2>2, QuietInv
<1> HIDE DEF prepared, replacing, s, q
<1>9. CASE SaveFailed([st EXCEPT !.ro = prepared], "RolloutCheckpointFailed")
           /\ UNCHANGED <<reqs, nreq>>
  <2>1. Wrote(st.imported, st.art, st.req, prepared, st.last, st.lastRb, st.sync)
    BY <1>1, <1>3, <1>6, <1>9, PrepareWrites
  <2> QED
    BY <1>3, <1>8, <1>9, <2>1
<1>10. CASE SaveFailed(s, "FlowReplaceCreateFailed") /\ UNCHANGED <<reqs, nreq>>
  <2>1. Wrote(s.imported, s.art, s.req, s.ro, s.last, s.lastRb, s.sync)
    BY <1>1, <1>6, <1>7, <1>10, Reported DEF TypeOK
  <2>2. Wrote(st.imported, st.art, st.req, replacing, st.last, st.lastRb, st.sync)
    BY <1>7, <2>1 DEF Shows
  <2> QED
    BY <1>2, <1>8, <1>10, <2>2
<1>11. CASE CreateRequest(reqs, "Rollout", want) /\ Save(Replacing(s, q))
  <2>1. /\ nreq' > nreq /\ nreq' \in 0..MaxReqs /\ reqs' \in [ReqIds -> NifiRequests]
        /\ reqs'[nreq'].op = "Rollout"
        /\ q \in Requests /\ q.op = "Rollout" /\ q.target = want
    BY <1>1, <1>11, CreatedRequest DEF q
  <2>2. Wrote(s.imported, s.art, q, s.ro, s.last, s.lastRb, "Other")
    BY <1>1, <1>7, <1>11, <2>1, RequestWrites DEF TypeOK
  <2>3. Wrote(st.imported, st.art, q, replacing, st.last, st.lastRb, "Other")
    BY <1>7, <2>2 DEF Shows
  <2>4. TypeOK'
    <3>1. st' = st \/ Fits(st')
      BY <2>3 DEF Wrote
    <3> QED
      BY <1>1, <1>4, <2>1, <3>1, StepTyped DEF TypeOK
  <2>5. undone' = undone
    <3>1. st' = st \/ st'.sync = "Other"
      BY <2>3 DEF Wrote, Shows
    <3> QED
      BY <2>1, <3>1 DEF Around, TrackUndone
  <2> QED
    BY <1>1, <1>2, <1>4, <2>1, <2>3, <2>4, <2>5, RequestedInv
<1> QED
  BY <1>5, <1>9, <1>10, <1>11

\* Polling a request.
LEMMA PollInv ==
  ASSUME RolloutInv, Around, PollFails \/ Poll
  PROVE  RolloutInv'
<1>1. CASE PollFails
  <2>1. "FlowReplaceGetFailed" \in Reasons
    BY DEF Reasons
  <2> QED
    BY <1>1, <2>1, SameInv DEF PollFails
<1>2. CASE Poll
  <2> DEFINE q == [st.req EXCEPT !.complete = (Answer = "done")]
  <2>1. /\ TypeOK /\ st \in Statuses /\ st.req \in Requests /\ Len(st.hist) <= HistoryLimit
        /\ st.req.id # 0 /\ undone # "Yes"
    BY <1>2, YesIsQuiet DEF RolloutInv, TypeOK, Statuses, Poll, Polling, Pending
  <2>2. q \in Requests /\ q.id = st.req.id /\ q.op = st.req.op /\ q.target = st.req.target
    BY <2>1 DEF Requests
  <2>3. Save(Replacing(st, q)) /\ UNCHANGED <<nifi, cms>>
    BY <1>2 DEF Poll
  <2> HIDE DEF q
  <2>4. Wrote(st.imported, st.art, q, st.ro, st.last, st.lastRb, "Other")
    BY <2>1, <2>2, <2>3, RequestWrites
  <2>5. TypeOK'
    <3>1. st' = st \/ Fits(st')
      BY <2>4 DEF Wrote
    <3> QED
      BY <2>1, <2>3, <3>1, StepTyped DEF TypeOK, nifi
  <2>6. st.ro.phase # "AwaitingReadiness"
    BY <2>1 DEF RolloutInv, GateIdle
  <2> QED
    BY <2>1, <2>2, <2>3, <2>4, <2>5, <2>6, QuietInv DEF nifi
<1> QED
  BY <1>1, <1>2

\* What is left of the requests once a failed one was deleted, or could not be.
Left(kept) == IF kept THEN reqs ELSE [reqs EXCEPT ![st.req.id].state = "gone"]

\* How a failure ends, by the status that is written.
LEMMA FailureEnds ==
  ASSUME HandleFailure
  PROVE  \E kept \in {FALSE, "forget" \in FaultPoints} :
           LET s == FailedStatus(kept)
           IN  \/ /\ \E r \in {"RollbackFailed", "RollbackUnavailable", "FlowReplaceFailed"} :
                       Abandon(s, r)
                  /\ reqs' = Left(kept) /\ UNCHANGED nreq
               \/ RetryAllowed /\ Save(Retrying(s)) /\ reqs' = Left(kept) /\ UNCHANGED nreq
               \/ st.req.op = "Rollout" /\ CanRollBack /\ StartRollback(s, Left(kept))
BY DEF HandleFailure, Left

\* A failed request: retry, rollback or give up.
LEMMA FailureInv ==
  ASSUME RolloutInv, Around, HandleFailure
  PROVE  RolloutInv'
<1>1. /\ TypeOK /\ Targets /\ st \in Statuses /\ st.req.id # 0 /\ undone # "Yes"
      /\ st.req.id \in ReqIds /\ st.ro.phase # "AwaitingReadiness" /\ st.imported
  <2>1. TypeOK /\ Targets /\ GateIdle /\ st \in Statuses
    BY DEF RolloutInv, TypeOK
  <2>2. Pending /\ st.req.id # 0
    BY DEF HandleFailure, Pending
  <2>3. st.req.id \in ReqIds
    BY <2>1, <2>2, BoundsAssumption DEF Statuses, Requests, ReqIds
  <2>4. st.ro.phase # "AwaitingReadiness" /\ st.imported
    BY <2>1, <2>2 DEF GateIdle, Targets
  <2>5. undone # "Yes"
    BY <2>2, YesIsQuiet
  <2> QED
    BY <2>1, <2>2, <2>3, <2>4, <2>5
<1>2. /\ UNCHANGED <<content, running, backlog>> /\ cms' \subseteq Digests
      /\ st.last \in cms => st.last \in cms'
  BY <1>1, PurgeKeeps DEF HandleFailure, TypeOK
<1>3. PICK kept \in {FALSE, "forget" \in FaultPoints} :
           LET s == FailedStatus(kept)
           IN  \/ /\ \E r \in {"RollbackFailed", "RollbackUnavailable", "FlowReplaceFailed"} :
                       Abandon(s, r)
                  /\ reqs' = Left(kept) /\ UNCHANGED nreq
               \/ RetryAllowed /\ Save(Retrying(s)) /\ reqs' = Left(kept) /\ UNCHANGED nreq
               \/ st.req.op = "Rollout" /\ CanRollBack /\ StartRollback(s, Left(kept))
  BY FailureEnds
<1>4. kept \in BOOLEAN
  <2>1. CASE "forget" \in FaultPoints
    <3>1. ("forget" \in FaultPoints) = TRUE
      BY <2>1
    <3> QED
      BY <3>1
  <2>2. CASE "forget" \notin FaultPoints
    <3>1. ("forget" \in FaultPoints) = FALSE
      BY <2>2
    <3> QED
      BY <3>1
  <2> QED
    BY <2>1, <2>2
<1>5. Left(kept) \in [ReqIds -> NifiRequests]
  <2>1. [reqs EXCEPT ![st.req.id].state = "gone"] \in [ReqIds -> NifiRequests]
    BY <1>1, RequestsTyped
  <2>2. reqs \in [ReqIds -> NifiRequests]
    BY <1>1 DEF TypeOK
  <2> QED
    BY <2>1, <2>2 DEF Left
<1> DEFINE s == FailedStatus(kept)
           f == FailedReq(kept)
<1>6. /\ s \in Statuses /\ Len(s.hist) <= HistoryLimit
      /\ f \in Requests /\ (f.id = 0 \/ f.id = st.req.id)
      /\ f.op = st.req.op /\ f.target = st.req.target
      /\ Shows(s, st.imported, st.art, f, st.ro, st.last, st.lastRb, st.sync)
  BY <1>1, <1>4, FailedStatusTyped
<1> HIDE DEF s, f
<1>7. ASSUME NEW req, NEW ro, NEW sync, reqs' = Left(kept), UNCHANGED nreq,
             Wrote(st.imported, st.art, req, ro, st.last, st.lastRb, sync),
             req.id = 0 \/ (req.id = st.req.id /\ req.op = st.req.op /\ req.target = st.req.target),
             ro.phase # "AwaitingReadiness", sync = st.sync \/ sync # "RolledBack"
      PROVE  RolloutInv'
  <2>1. st' = st \/ Fits(st')
    BY <1>7 DEF Wrote
  <2>2. TypeOK'
    BY <1>1, <1>2, <1>5, <1>7, <2>1, StepTyped DEF TypeOK
  <2> QED
    BY <1>1, <1>2, <1>7, <2>2, QuietInv
<1>8. CASE /\ \E r \in {"RollbackFailed", "RollbackUnavailable", "FlowReplaceFailed"} :
                Abandon(s, r)
           /\ reqs' = Left(kept) /\ UNCHANGED nreq
  <2>1. PICK r \in {"RollbackFailed", "RollbackUnavailable", "FlowReplaceFailed"} : Abandon(s, r)
    BY <1>8
  <2>2. r \in Reasons
    BY DEF Reasons
  <2>3. Wrote(s.imported, s.art, s.req, NoRollout, s.last, s.lastRb, s.sync)
    BY <1>1, <1>6, <2>1, <2>2, AbandonWrites
  <2>4. Wrote(st.imported, st.art, f, NoRollout, st.last, st.lastRb, st.sync)
    BY <1>6, <2>3 DEF Shows
  <2> QED
    BY <1>6, <1>7, <1>8, <2>4, NothingTyped
<1>9. CASE RetryAllowed /\ Save(Retrying(s)) /\ reqs' = Left(kept) /\ UNCHANGED nreq
  <2>1. s.ro = st.ro
    BY <1>6 DEF Shows
  <2>2. /\ Retried.phase = "Preparing"
        /\ Wrote(s.imported, s.art, NoReq, Retried, s.last, s.lastRb, "Other")
    BY <1>1, <1>6, <1>9, <2>1, RetryWrites
  <2>3. Wrote(st.imported, st.art, NoReq, Retried, st.last, st.lastRb, "Other")
    BY <1>6, <2>2 DEF Shows
  <2> QED
    BY <1>7, <1>9, <2>2, <2>3, NothingTyped
<1>10. CASE st.req.op = "Rollout" /\ CanRollBack /\ StartRollback(s, Left(kept))
  <2> DEFINE rb == [gen |-> gen, digest |-> st.req.target, completed |-> FALSE]
             ro == [EnsureActive("Rollback", st.last) EXCEPT !.phase = "RollingBack"]
             t == [s EXCEPT !.lastRb = rb, !.ro = ro]
             q == Request("Rollback", st.last)
  <2>1. \/ SaveFailed(s, "RollbackCreateFailed") /\ reqs' = Left(kept) /\ UNCHANGED nreq
        \/ CreateRequest(Left(kept), "Rollback", st.last) /\ Save(Replacing(t, q))
    BY <1>10 DEF StartRollback
  <2>2. rb \in Rollbacks /\ rb.gen = gen /\ rb.digest = st.req.target
    BY <1>1 DEF TypeOK, Statuses, Requests, Rollbacks
  <2>3. ro \in Rollouts /\ ro.phase = "RollingBack"
    <3>1. st.last \in Known /\ "RollingBack" \in Phases
      BY <1>1 DEF Statuses, Phases
    <3> QED
      BY <1>1, <3>1, ActiveTyped
  <2> HIDE DEF rb, ro
  <2>4. /\ t \in Statuses /\ t.hist = s.hist
        /\ Shows(t, st.imported, st.art, f, ro, st.last, rb, st.sync)
    BY <1>6, <2>2, <2>3 DEF Statuses, Shows
  <2> HIDE DEF t, q
  <2>5. CASE SaveFailed(s, "RollbackCreateFailed") /\ reqs' = Left(kept) /\ UNCHANGED nreq
    <3>1. "RollbackCreateFailed" \in Reasons
      BY DEF Reasons
    <3>2. Wrote(s.imported, s.art, s.req, s.ro, s.last, s.lastRb, s.sync)
      BY <1>1, <1>6, <2>5, <3>1, Reported
    <3>3. Wrote(st.imported, st.art, f, st.ro, st.last, st.lastRb, st.sync)
      BY <1>6, <3>2 DEF Shows
    <3> QED
      BY <1>1, <1>6, <1>7, <2>5, <3>3
  <2>6. CASE CreateRequest(Left(kept), "Rollback", st.last) /\ Save(Replacing(t, q))
    <3>1. st.last \in Known /\ st.last \in Digests
      BY <1>1, <1>10 DEF Statuses, CanRollBack, TypeOK
    <3>2. /\ nreq' > nreq /\ nreq' \in 0..MaxReqs /\ reqs' \in [ReqIds -> NifiRequests]
          /\ reqs'[nreq'].op = "Rollback"
          /\ q \in Requests /\ q.op = "Rollback" /\ q.target = st.last
      BY <1>1, <1>5, <2>6, <3>1, CreatedRequest DEF q
    <3>3. Wrote(t.imported, t.art, q, t.ro, t.last, t.lastRb, "Other")
      BY <1>1, <1>6, <2>4, <2>6, <3>2, RequestWrites
    <3>4. Wrote(st.imported, st.art, q, ro, st.last, rb, "Other")
      BY <2>4, <3>3 DEF Shows
    <3>5. TypeOK'
      <4>1. st' = st \/ Fits(st')
        BY <3>4 DEF Wrote
      <4> QED
        BY <1>1, <1>2, <3>2, <4>1, StepTyped DEF TypeOK
    <3>6. \/ st.req.target = want /\ undone' = "Started"
          \/ st.req.target # want /\ undone' = undone
      <4>1. st' = st \/ st'.sync = "Other"
        BY <3>4 DEF Wrote, Shows
      <4> QED
        BY <3>2, <4>1 DEF Around, TrackUndone
    <3>7. undone' = "Started" => st.req.target = want
      BY <1>1, <1>10, <3>6 DEF RolloutInv, Undone
    <3>8. undone' = "Started" => rb.gen = gen /\ rb.digest = want
      BY <2>2, <3>7
    <3>9. undone' = undone \/ (undone' = "Started" /\ st.req.op = "Rollout" /\ st.req.target = want)
      BY <1>10, <3>6
    <3> QED
      BY <1>1, <1>2, <2>3, <3>1, <3>2, <3>4, <3>5, <3>8, <3>9, RequestedInv
  <2> QED
    BY <2>1, <2>5, <2>6
<1> QED
  BY <1>3, <1>8, <1>9, <1>10 DEF s

\* A completed request is cleaned up; the steps after it may fail.
LEMMA CompletionInv ==
  ASSUME RolloutInv, Around, CompletionFails
  PROVE  RolloutInv'
<1>1. /\ TypeOK /\ st \in Statuses /\ st.req.id # 0 /\ undone # "Yes"
      /\ st.req.id \in ReqIds /\ st.ro.phase # "AwaitingReadiness"
  BY YesIsQuiet, BoundsAssumption
     DEF RolloutInv, TypeOK, Statuses, Requests, CompletionFails, Completing, Pending, GateIdle,
         ReqIds
<1>2. /\ "NiFiRefreshFailed" \in Reasons /\ "SnapshotMetadataFailed" \in Reasons
      /\ "FlowReplaceCleanupFailed" \in Reasons /\ "RolloutFinalizeFailed" \in Reasons
      /\ "RolloutCheckpointMissing" \in Reasons
  BY DEF Reasons
<1>3. UNCHANGED <<content, backlog, nreq, cms>>
  BY DEF CompletionFails
<1>4. CASE /\ UNCHANGED <<running, reqs>>
           /\ \/ SaveFailed(st, "NiFiRefreshFailed") \/ SaveFailed(st, "SnapshotMetadataFailed")
              \/ SaveFailed(st, "FlowReplaceCleanupFailed")
  BY <1>2, <1>3, <1>4, SameInv DEF nifi
<1>5. CASE /\ Forget /\ running' \in BOOLEAN
           /\ \/ SaveFailed(Cleaned, "RolloutFinalizeFailed")
              \/ SaveFailed(Cleaned, "RolloutCheckpointMissing")
  <2>1. /\ Cleaned \in Statuses /\ Len(Cleaned.hist) <= HistoryLimit /\ Cleaned.req.id = 0
        /\ Shows(Cleaned, st.imported, st.art, Cleaned.req, st.ro, st.last, st.lastRb, st.sync)
    BY <1>1, CleanedTyped
  <2>2. Wrote(Cleaned.imported, Cleaned.art, Cleaned.req, Cleaned.ro, Cleaned.last,
              Cleaned.lastRb, Cleaned.sync)
    BY <1>1, <1>2, <1>5, <2>1, Reported
  <2>3. Wrote(st.imported, st.art, Cleaned.req, st.ro, st.last, st.lastRb, st.sync)
    BY <2>1, <2>2 DEF Shows
  <2>4. reqs' \in [ReqIds -> NifiRequests]
    BY <1>1, <1>5, RequestsTyped DEF Forget
  <2>5. TypeOK'
    <3>1. st' = st \/ Fits(st')
      BY <2>3 DEF Wrote
    <3> QED
      BY <1>1, <1>3, <1>5, <2>4, <3>1, StepTyped DEF TypeOK
  <2> QED
    BY <1>1, <1>3, <2>1, <2>3, <2>5, QuietInv
<1>6. running' \in BOOLEAN
  BY <1>1 DEF CompletionFails, StartGroup, TypeOK
<1> QED
  BY <1>4, <1>5, <1>6 DEF CompletionFails

\* A rollout's end: failed, recorded as successful, or its status write lost.
LEMMA FinalizeInv ==
  ASSUME RolloutInv, Around, undone # "Yes", UNCHANGED <<content, backlog, nreq>>,
         running' \in BOOLEAN, reqs' \in [ReqIds -> NifiRequests],
         NEW s \in Statuses, Len(s.hist) <= HistoryLimit, NEW digest \in Digests,
         s.req.id = 0, s.ro.phase = "AwaitingReadiness" => s.ro.op = "Rollout",
         Shows(s, st.imported, st.art, s.req, s.ro, st.last, st.lastRb, st.sync),
         lost = 0 /\ st.last = digest => digest \in cms,
         FinalizeRollout(s, digest)
  PROVE  RolloutInv'
<1>1. /\ TypeOK /\ cms \subseteq Digests
      /\ s.imported = st.imported /\ s.art = st.art /\ s.last = st.last
      /\ s.lastRb = st.lastRb /\ s.sync = st.sync
  BY DEF RolloutInv, TypeOK, Shows
<1>2. \/ /\ SaveFailed(s, "DriftCheckFailed") /\ UNCHANGED cms
         /\ Wrote(s.imported, s.art, s.req, s.ro, s.last, s.lastRb, s.sync)
      \/ /\ RecordInSync(s, digest)
         /\ InSyncWith(digest) \/ (st' = st /\ lost' > lost)
  BY <1>1, FinalizeWrites
<1>3. CASE /\ UNCHANGED cms
           /\ Wrote(s.imported, s.art, s.req, s.ro, s.last, s.lastRb, s.sync)
  <2>1. Wrote(st.imported, st.art, s.req, s.ro, st.last, st.lastRb, st.sync)
    BY <1>1, <1>3
  <2>2. st' = st \/ Fits(st')
    BY <2>1 DEF Wrote
  <2>3. TypeOK'
    BY <1>1, <1>3, <2>2, StepTyped DEF TypeOK
  <2> QED
    BY <1>3, <2>1, <2>3, QuietInv
<1>4. CASE /\ RecordInSync(s, digest)
           /\ InSyncWith(digest) \/ (st' = st /\ lost' > lost)
  <2>1. /\ cms' \subseteq Digests
        /\ st.last # digest \/ digest \in cms => digest \in cms'
    BY <1>1, <1>4, RecordKeeps
  <2>2. st' = st \/ Fits(st')
    BY <1>4 DEF InSyncWith
  <2>3. TypeOK'
    BY <1>1, <2>1, <2>2, StepTyped DEF TypeOK
  <2>4. lost' = 0 => lost = 0
    BY <1>1, BoundsAssumption DEF Around, Counted, TypeOK
  <2>5. CASE InSyncWith(digest)
    BY <2>1, <2>3, <2>4, <2>5, SyncedInv
  <2>6. CASE st' = st /\ lost' > lost
    <3>1. lost' # 0
      BY <1>1, <2>6, BoundsAssumption DEF TypeOK
    <3> QED
      BY <2>3, <2>6, <3>1, LostInv
  <2> QED
    BY <1>4, <2>5, <2>6
<1> QED
  BY <1>2, <1>3, <1>4

\* A rollout's request is complete.
LEMMA CompleteInv ==
  ASSUME RolloutInv, Around, Complete
  PROVE  RolloutInv'
<1>1. /\ TypeOK /\ st \in Statuses /\ st.req.id # 0 /\ undone # "Yes"
      /\ st.req.id \in ReqIds /\ st.ro.phase # "AwaitingReadiness"
      /\ st.req.target \in Digests /\ st.req.target \in cms
  <2>1. TypeOK /\ Targets /\ GateIdle /\ st \in Statuses /\ Pending
    BY DEF RolloutInv, TypeOK, Complete, Completing
  <2>2. st.req.id # 0 /\ st.req.id \in ReqIds
    BY <2>1, BoundsAssumption DEF Pending, Statuses, Requests, ReqIds
  <2>3. undone # "Yes"
    BY <2>1, YesIsQuiet
  <2> QED
    BY <2>1, <2>2, <2>3 DEF GateIdle, Targets, Complete
<1>2. UNCHANGED <<content, backlog, nreq>> /\ running' \in BOOLEAN
  BY <1>1 DEF Complete, StartGroup, TypeOK
<1>3. reqs' \in [ReqIds -> NifiRequests]
  BY <1>1, RequestsTyped DEF Complete, Forget
<1>4. CASE ReadinessGate
  <2> DEFINE ro == [EnsureActive("Rollout", st.req.target) EXCEPT !.phase = "AwaitingReadiness"]
             t == [st EXCEPT !.req = NoReq, !.sync = "Other", !.ro = ro]
  <2>1. ro \in Rollouts /\ ro.op = "Rollout"
    <3>1. st.req.target \in Known /\ "AwaitingReadiness" \in Phases
      BY <1>1 DEF Known, Phases
    <3> QED
      BY <1>1, <3>1, ActiveTyped
  <2>2. Save(NotReady(t, "AwaitingReadiness")) /\ UNCHANGED cms
    BY <1>4 DEF Complete
  <2> HIDE DEF ro
  <2>3. /\ t \in Statuses /\ t.hist = st.hist
        /\ Shows(t, st.imported, st.art, NoReq, ro, st.last, st.lastRb, "Other")
    BY <1>1, <2>1, NothingTyped DEF Statuses, Shows, Syncs
  <2> HIDE DEF t
  <2>4. Wrote(st.imported, st.art, NoReq, ro, st.last, st.lastRb, "Other")
    <3>1. "AwaitingReadiness" \in Reasons
      BY DEF Reasons
    <3>2. Wrote(t.imported, t.art, t.req, t.ro, t.last, t.lastRb, t.sync)
      BY <1>1, <2>2, <2>3, <3>1, Reported DEF TypeOK
    <3> QED
      BY <2>3, <3>2 DEF Shows
  <2>5. TypeOK'
    <3>1. st' = st \/ Fits(st')
      BY <2>4 DEF Wrote
    <3> QED
      BY <1>1, <1>2, <1>3, <2>2, <3>1, StepTyped DEF TypeOK
  <2> QED
    BY <1>1, <1>2, <2>1, <2>2, <2>4, <2>5, NothingTyped, QuietInv
<1>5. CASE ~ReadinessGate
  <2>1. FinalizeRollout(Cleaned, st.req.target)
    BY <1>5 DEF Complete
  <2>2. /\ Cleaned \in Statuses /\ Len(Cleaned.hist) <= HistoryLimit /\ Cleaned.req.id = 0
        /\ Shows(Cleaned, st.imported, st.art, Cleaned.req, st.ro, st.last, st.lastRb, st.sync)
    BY <1>1, CleanedTyped
  <2>3. Cleaned.ro = st.ro
    BY <2>2 DEF Shows
  <2> QED
    BY <1>1, <1>2, <1>3, <2>1, <2>2, <2>3, FinalizeInv
<1> QED
  BY <1>4, <1>5

\* A rollback's request is complete: from now on what it failed for is blocked.
LEMMA RolledBackInv ==
  ASSUME RolloutInv, Around, CompleteRollback
  PROVE  RolloutInv'
<1> DEFINE rb == [st.lastRb EXCEPT !.completed = TRUE]
<1>1. /\ TypeOK /\ Targets /\ st \in Statuses /\ st.req.id # 0 /\ undone # "Yes"
      /\ st.req.id \in ReqIds /\ st.req.op = "Rollback" /\ st.imported
  <2>1. TypeOK /\ Targets /\ st \in Statuses /\ Pending
    BY DEF RolloutInv, TypeOK, CompleteRollback, Completing
  <2>2. st.req.id # 0 /\ st.req.id \in ReqIds
    BY <2>1, BoundsAssumption DEF Pending, Statuses, Requests, ReqIds
  <2>3. undone # "Yes"
    BY <2>1, YesIsQuiet
  <2> QED
    BY <2>1, <2>2, <2>3 DEF Targets, CompleteRollback
<1>2. /\ UNCHANGED <<content, backlog, nreq>> /\ running' \in BOOLEAN
      /\ cms' \subseteq Digests /\ (st.last \in cms => st.last \in cms')
  BY <1>1, PurgeKeeps DEF CompleteRollback, StartGroup, TypeOK
<1>3. reqs' \in [ReqIds -> NifiRequests]
  BY <1>1, RequestsTyped DEF CompleteRollback, Forget
<1>4. /\ rb.completed = TRUE /\ rb.gen = st.lastRb.gen /\ rb.digest = st.lastRb.digest
  BY <1>1 DEF Statuses, Rollbacks
<1>5. Wrote(st.imported, st.last, NoReq, NoRollout, st.last, rb, "RolledBack")
  BY <1>1, RolledBackWrites
<1> HIDE DEF rb
<1>6. TypeOK'
  <2>1. st' = st \/ Fits(st')
    BY <1>5 DEF Wrote
  <2> QED
    BY <1>1, <1>2, <1>3, <2>1, StepTyped DEF TypeOK
<1>7. UNCHANGED <<want, gen>> /\ ~(nreq' > nreq)
  BY <1>1, <1>2 DEF Around, spec, TypeOK
<1>8. CASE st' = st
  <2>1. undone' = undone
    BY <1>1, <1>2, <1>8, UndoneStays DEF Around
  <2> QED
    BY <1>2, <1>6, <1>8, <2>1, KeptInv
<1>9. CASE /\ st'.ready = FALSE
           /\ Shows(st', st.imported, st.last, NoReq, NoRollout, st.last, rb, "RolledBack")
  <2>1. /\ st'.imported = st.imported /\ st'.req = NoReq /\ st'.ro = NoRollout
        /\ st'.last = st.last /\ st'.lastRb = rb
    BY <1>9 DEF Shows
  <2>2. Targets' /\ GateIdle' /\ ReadyIdle'
    BY <2>1, NothingTyped DEF Targets, GateIdle, ReadyIdle
  <2>3. CheckpointKept'
    <3>1. lost' = 0 => lost = 0
      BY <1>1, BoundsAssumption DEF Around, Counted, TypeOK
    <3> QED
      BY <1>2, <2>1, <3>1 DEF RolloutInv, CheckpointKept
  <2>4. undone' = "Yes" => undone = "Started"
    BY <1>1, <1>7 DEF Around, TrackUndone
  <2>5. undone = "Started" => st.lastRb.gen = gen /\ st.lastRb.digest = want
    BY <1>1 DEF RolloutInv, Undone
  <2>6. Undone'
    BY <1>1, <1>4, <1>7, <2>1, <2>4, <2>5, NothingTyped DEF Undone, Blocked, Active
  <2> QED
    BY <1>6, <2>2, <2>3, <2>6 DEF RolloutInv
<1> QED
  BY <1>5, <1>8, <1>9 DEF Wrote

\* The readiness gate.
LEMMA ReadinessInv ==
  ASSUME RolloutInv, Around, ReadinessFails \/ ReadinessPasses \/ ReadinessExpires
  PROVE  RolloutInv'
<1>1. /\ TypeOK /\ st \in Statuses /\ Len(st.hist) <= HistoryLimit /\ want \in Digests
      /\ AwaitingReadiness /\ st.ro.op = "Rollout" /\ st.req.id = 0 /\ undone # "Yes"
  <2>1. AwaitingReadiness
    BY DEF ReadinessFails, ReadinessPasses, ReadinessExpires
  <2>2. TypeOK /\ GateIdle
    BY DEF RolloutInv
  <2>3. undone # "Yes"
    BY <2>1, YesIsQuiet
  <2> QED
    BY <2>1, <2>2, <2>3 DEF TypeOK, GateIdle, AwaitingReadiness
<1>2. UNCHANGED nifi
  BY DEF ReadinessFails, ReadinessPasses, ReadinessExpires
<1>3. CASE ReadinessFails
  <2>1. "ReadinessCheckFailed" \in Reasons
    BY DEF Reasons
  <2> QED
    BY <1>3, <2>1, SameInv DEF ReadinessFails
<1>4. CASE ReadinessPasses
  <2>1. lost = 0 /\ st.last = want => want \in cms
    BY <1>1, DigestsAssumption DEF RolloutInv, CheckpointKept
  <2>2. Shows(st, st.imported, st.art, st.req, st.ro, st.last, st.lastRb, st.sync)
    BY DEF Shows
  <2>3. UNCHANGED <<content, backlog, nreq>> /\ running' \in BOOLEAN
        /\ reqs' \in [ReqIds -> NifiRequests]
    BY <1>1, <1>2 DEF nifi, TypeOK
  <2> QED
    BY <1>1, <1>4, <2>1, <2>2, <2>3, FinalizeInv DEF ReadinessPasses
<1>5. CASE ReadinessExpires
  <2>1. /\ UNCHANGED <<nifi, cms>>
        /\ (RetryAllowed /\ Save(Retrying(st))) \/ Abandon(st, "ReadinessTimeout")
    BY <1>5 DEF ReadinessExpires
  <2>2. \/ /\ Retried.phase = "Preparing"
           /\ Wrote(st.imported, st.art, NoReq, Retried, st.last, st.lastRb, "Other")
        \/ Wrote(st.imported, st.art, st.req, NoRollout, st.last, st.lastRb, st.sync)
    <3>1. "ReadinessTimeout" \in Reasons
      BY DEF Reasons
    <3>2. CASE RetryAllowed /\ Save(Retrying(st))
      BY <1>1, <3>2, RetryWrites
    <3>3. CASE Abandon(st, "ReadinessTimeout")
      BY <1>1, <3>1, <3>3, AbandonWrites
    <3> QED
      BY <2>1, <3>2, <3>3
  <2>3. TypeOK'
    <3>1. st' = st \/ Fits(st')
      BY <2>2 DEF Wrote
    <3> QED
      BY <1>1, <2>1, <3>1, StepTyped DEF TypeOK, nifi
  <2>4. CASE /\ Retried.phase = "Preparing"
             /\ Wrote(st.imported, st.art, NoReq, Retried, st.last, st.lastRb, "Other")
    BY <1>1, <2>1, <2>3, <2>4, NothingTyped, QuietInv DEF nifi
  <2>5. CASE Wrote(st.imported, st.art, st.req, NoRollout, st.last, st.lastRb, st.sync)
    BY <1>1, <2>1, <2>3, <2>5, NothingTyped, QuietInv DEF nifi
  <2> QED
    BY <2>2, <2>4, <2>5
<1> QED
  BY <1>3, <1>4, <1>5

\* Every reconcile keeps the invariant.
LEMMA ReconcileInv ==
  ASSUME RolloutInv, Reconcile
  PROVE  RolloutInv'
<1>1. Around
  BY HandlerCounts DEF Around, Reconcile, RolloutInv
<1> QED
  BY <1>1, OuterInv, ConfirmInv, PrepareInv, ReplaceInv, PollInv, FailureInv, CompletionInv,
     CompleteInv, RolledBackInv, ReadinessInv
     DEF Reconcile, Handler

-----------------------------------------------------------------------------
(* NiFi, the users and the theorems *)

\* The environment leaves the status and the checkpoints alone; a change of the source or
\* of the deployment starts the bookkeeping of the rollback anew.
LEMMA OutsideInv ==
  ASSUME RolloutInv, TypeOK', UNCHANGED <<st, cms, lost>>,
         undone' = "No" \/ UNCHANGED <<want, gen, undone>>
  PROVE  RolloutInv'
<1>1. Targets' /\ GateIdle' /\ ReadyIdle' /\ CheckpointKept'
  BY DEF RolloutInv, Targets, GateIdle, ReadyIdle, CheckpointKept
<1>2. Undone'
  <2>1. CASE undone' = "No"
    BY <2>1 DEF Undone
  <2>2. CASE UNCHANGED <<want, gen, undone>>
    BY <2>2 DEF RolloutInv, Undone, Blocked, Active
  <2> QED
    BY <2>1, <2>2
<1> QED
  BY <1>1, <1>2 DEF RolloutInv

\* NiFi ends a request.
LEMMA RequestEndsInv ==
  ASSUME RolloutInv, NEW id \in ReqIds, RequestEnds(id)
  PROVE  RolloutInv'
<1>1. /\ TypeOK /\ UNCHANGED <<running, backlog, nreq, spec, drifts, ghosts, cms, st, lost>>
  BY DEF RolloutInv, RequestEnds, Env
<1>2. /\ reqs \in [ReqIds -> NifiRequests] /\ fails \in 0..MaxFails /\ MaxFails \in Nat
      /\ content \in Known \union {Foreign} /\ reqs[id].target \in Known
  BY <1>1, BoundsAssumption DEF TypeOK, NifiRequests
<1>3. reqs' \in [ReqIds -> NifiRequests]
  <2>1. \E state \in {"done", "failed"} : reqs' = [reqs EXCEPT ![id].state = state]
    BY DEF RequestEnds
  <2> QED
    BY <1>2, <2>1 DEF NifiRequests, States
<1>4. content' \in Known \union {Foreign} /\ fails' \in 0..MaxFails
  BY <1>2 DEF RequestEnds
<1>5. TypeOK'
  BY <1>1, <1>3, <1>4 DEF TypeOK, spec, ghosts
<1> QED
  BY <1>1, <1>5, OutsideInv DEF spec, ghosts

\* NiFi restarts, queues move, users edit the canvas, the source and the deployment.
LEMMA EnvironmentInv ==
  ASSUME RolloutInv, Environment
  PROVE  RolloutInv'
<1>1. TypeOK
  BY DEF RolloutInv
<1>2. CASE NiFiRestarts
  <2>1. UNCHANGED <<running, backlog, nreq, spec, drifts, ghosts, cms, st, lost>>
    BY <1>2 DEF NiFiRestarts, Env
  <2>2. reqs' \in [ReqIds -> NifiRequests]
    BY <1>1, <1>2 DEF NiFiRestarts, TypeOK, NifiRequests, States
  <2>3. content' \in Known \union {Foreign}
    BY <1>1, <1>2 DEF NiFiRestarts, TypeOK
  <2>4. fails' \in 0..MaxFails
    <3>1. fails < MaxFails /\ fails' = fails + 1
      BY <1>2 DEF NiFiRestarts
    <3>2. fails \in 0..MaxFails /\ MaxFails \in Nat
      BY <1>1, BoundsAssumption DEF TypeOK
    <3> QED
      BY <3>1, <3>2
  <2>5. TypeOK'
    BY <1>1, <2>1, <2>2, <2>3, <2>4 DEF TypeOK, spec, ghosts
  <2> QED
    BY <2>1, <2>5, OutsideInv DEF spec, ghosts
<1>3. CASE QueuesMove
  <2>1. UNCHANGED <<content, running, reqs, nreq, spec, fails, drifts, ghosts, cms, st, lost>>
        /\ backlog' = ~backlog
    BY <1>3 DEF QueuesMove, Env
  <2>2. TypeOK'
    BY <1>1, <2>1 DEF TypeOK, spec, ghosts
  <2> QED
    BY <2>1, <2>2, OutsideInv DEF spec, ghosts
<1>4. CASE EditCanvas
  <2>1. UNCHANGED <<running, backlog, reqs, nreq, spec, fails, ghosts, cms, st, lost>>
        /\ content' = Foreign
    BY <1>4 DEF EditCanvas, Env
  <2>2. drifts' \in 0..MaxDrifts
    BY <1>1, <1>4, BoundsAssumption DEF EditCanvas, TypeOK
  <2>3. TypeOK'
    BY <1>1, <2>1, <2>2 DEF TypeOK, spec, ghosts
  <2> QED
    BY <2>1, <2>3, OutsideInv DEF spec, ghosts
<1>5. CASE FlipCancel
  <2>1. UNCHANGED <<content, running, backlog, reqs, nreq, want, edits, fails, drifts, cms, st, lost>>
        /\ cancel' = ~cancel /\ attempts' = 0 /\ undone' = "No"
    BY <1>5 DEF FlipCancel, Env, nifi
  <2>2. cancels' \in 0..MaxCancels /\ gen' \in Nat /\ gen <= gen'
    BY <1>1, <1>5, BoundsAssumption DEF FlipCancel, TypeOK
  <2>3. st.seen <= gen'
    <3>1. st.seen \in Nat /\ gen \in Nat /\ st.seen <= gen
      BY <1>1 DEF TypeOK, Statuses
    <3> QED
      BY <2>2, <3>1
  <2>4. TypeOK'
    BY <1>1, <2>1, <2>2, <2>3 DEF TypeOK
  <2> QED
    BY <2>1, <2>4, OutsideInv
<1>6. ASSUME NEW digest \in Digests, NEW bump \in {0, 1}, ChangeSource(digest, bump)
      PROVE  RolloutInv'
  <2>1. /\ UNCHANGED <<content, running, backlog, reqs, nreq, cancel, cancels, fails, drifts, cms,
                       st, lost>>
        /\ want' = digest /\ attempts' = 0 /\ undone' = "No"
    BY <1>6 DEF ChangeSource, Env, nifi
  <2>2. edits' \in 0..MaxEdits /\ gen' \in Nat /\ gen <= gen'
    BY <1>1, <1>6, BoundsAssumption DEF ChangeSource, TypeOK
  <2>3. st.seen <= gen'
    <3>1. st.seen \in Nat /\ gen \in Nat /\ st.seen <= gen
      BY <1>1 DEF TypeOK, Statuses
    <3> QED
      BY <2>2, <3>1
  <2>4. TypeOK'
    BY <1>1, <2>1, <2>2, <2>3 DEF TypeOK
  <2> QED
    BY <2>1, <2>4, OutsideInv
<1> QED
  BY <1>2, <1>3, <1>4, <1>5, <1>6 DEF Environment

\* The initial states.
LEMMA InitInv ==
  ASSUME Init
  PROVE  RolloutInv
<1> DEFINE s == [imported |-> FALSE, art |-> None, req |-> NoReq, ro |-> NoRollout,
                 hist |-> <<>>, last |-> None, lastRb |-> NoRollback, ready |-> FALSE,
                 reason |-> "Accepted", seen |-> 0, sync |-> "Other"]
<1>1. st = s
  BY DEF Init
<1>2. <<>> \in Seq(Entries) /\ Len(<<>>) = 0
  OBVIOUS
<1>3. None \in Known /\ "Accepted" \in Reasons /\ "Other" \in Syncs
  BY DEF Known, Reasons, Syncs
<1>4. s \in Statuses /\ Len(s.hist) <= HistoryLimit
  BY <1>2, <1>3, NothingTyped, BoundsAssumption DEF Statuses
<1>5. reqs \in [ReqIds -> NifiRequests]
  <2>1. [op |-> "None", target |-> None, state |-> "gone"] \in NifiRequests
    BY <1>3 DEF NifiRequests, Ops, States
  <2> QED
    BY <2>1 DEF Init
<1>6. TypeOK
  <2>1. st \in Statuses /\ Len(st.hist) <= HistoryLimit /\ st.seen = 0
    BY <1>1, <1>4
  <2>2. /\ nreq \in 0..MaxReqs /\ gen \in Nat /\ st.seen <= gen
        /\ fails \in 0..MaxFails /\ lost \in 0..MaxLost /\ edits \in 0..MaxEdits
        /\ cancels \in 0..MaxCancels /\ drifts \in 0..MaxDrifts /\ attempts \in Nat
    <3> HIDE DEF s
    <3>1. /\ nreq = 0 /\ gen = 1 /\ fails = 0 /\ lost = 0 /\ edits = 0 /\ cancels = 0
          /\ drifts = 0 /\ attempts = 0
      BY DEF Init
    <3> QED
      BY <2>1, <3>1, BoundsAssumption
  <2>3. /\ content = None /\ running = TRUE /\ backlog = FALSE /\ cms = {}
        /\ want \in Digests /\ cancel = FALSE /\ undone = "No"
    BY DEF Init
  <2> HIDE DEF s
  <2> QED
    BY <1>3, <1>5, <2>1, <2>2, <2>3 DEF TypeOK
<1>7. Targets /\ GateIdle /\ ReadyIdle /\ CheckpointKept /\ Undone
  BY <1>1, NothingTyped DEF Init, Targets, GateIdle, ReadyIdle, CheckpointKept, Undone
<1> QED
  BY <1>6, <1>7 DEF RolloutInv

\* No step breaks the invariant.
LEMMA NextInv ==
  ASSUME RolloutInv, [Next]_vars
  PROVE  RolloutInv'
<1>1. CASE UNCHANGED vars
  BY <1>1 DEF vars, nifi, spec, ghosts, RolloutInv, TypeOK, Targets, GateIdle, ReadyIdle,
              CheckpointKept, Undone, Blocked, Active
<1>2. CASE NiFiWorks
  BY <1>2, RequestEndsInv DEF NiFiWorks
<1> QED
  BY <1>1, <1>2, ReconcileInv, EnvironmentInv DEF Next, BoundReached

\* The inductive invariant holds in every reachable state, whatever calls fail, whatever
\* writes are lost and whenever the users act.
THEOREM RolloutInvariant == Spec => []RolloutInv
<1>1. Init => RolloutInv
  BY InitInv
<1>2. RolloutInv /\ [Next]_vars => RolloutInv'
  BY NextInv
<1> QED
  BY <1>1, <1>2, PTL DEF Spec

\* The controller's status and NiFi's requests keep their shape: the history stays within
\* spec.rollback.historyLimit and the retries within spec.rollout.retry.maxRetries.
THEOREM TypeCorrect == Spec => []TypeOK
<1>1. RolloutInv => TypeOK
  BY DEF RolloutInv
<1> QED
  BY <1>1, RolloutInvariant, PTL

\* trimFlowDeploymentHistory never takes the checkpoint a rollback would restore.
THEOREM CheckpointsAreKept == Spec => []CheckpointKept
<1>1. RolloutInv => CheckpointKept
  BY DEF RolloutInv
<1> QED
  BY <1>1, RolloutInvariant, PTL

\* Once rolled back, the deployment makes no replace request until its source or its
\* spec changes: rollbackBlocksTarget holds it, whatever fails in between.
THEOREM RollbacksStay == Spec => StaysRolledBack
<1>1. ASSUME RolloutInv, [Next]_vars
      PROVE  [nreq' > nreq => undone # "Yes"]_vars
  <2> SUFFICES ASSUME undone = "Yes"
               PROVE  ~(nreq' > nreq)
    OBVIOUS
  <2>1. nreq \in Nat
    BY <1>1 DEF RolloutInv, TypeOK
  <2>2. ASSUME Handler
        PROVE  nreq' = nreq
    <3>1. ~Cancelling /\ ~AwaitingReadiness /\ ~Pending /\ ~Mounted /\ st.imported
      BY <1>1, YesIsQuiet
    <3>2. ~Replace /\ ~HandleFailure
      BY <3>1 DEF Replace, Outdated, HandleFailure
    <3> QED
      BY <2>2, <3>2
         DEF Handler, nifi, CancelRollout, Import, LiveNotFound, RequeueBlocked, ReportDrift,
             CheckFails, Confirm, PrepareFails, AwaitDrain, Stop, PollFails, Poll,
             CompletionFails, Complete, CompleteRollback, ReadinessFails, ReadinessPasses,
             ReadinessExpires
  <2>3. CASE Reconcile
    BY <2>1, <2>2, <2>3 DEF Reconcile
  <2>4. CASE NiFiWorks \/ Environment \/ BoundReached \/ UNCHANGED vars
    <3>1. nreq' = nreq
      BY <2>4 DEF NiFiWorks, RequestEnds, Environment, NiFiRestarts, QueuesMove, EditCanvas,
                  FlipCancel, ChangeSource, nifi, BoundReached, vars
    <3> QED
      BY <2>1, <3>1
  <2> QED
    BY <1>1, <2>3, <2>4 DEF Next
<1>2. RolloutInv /\ [Next]_vars => [nreq' > nreq => undone # "Yes"]_vars
  BY <1>1
<1> QED
  BY <1>2, RolloutInvariant, PTL DEF Spec, StaysRolledBack

-----------------------------------------------------------------------------
(* Requests that the status lost track of *)

Stray == {id \in ReqIds : reqs[id].state = "running" /\ st.req.id # id}

\* A step strays nothing if it starts no request and stops the one it forgets.
LEMMA NothingStrays ==
  ASSUME \A id \in ReqIds : reqs'[id].state = "running" => reqs[id].state = "running",
         \/ st'.req.id = st.req.id
         \/ st.req.id \in ReqIds => reqs'[st.req.id].state # "running"
  PROVE  Stray' \subseteq Stray
BY DEF Stray

\* A deleted or forgotten request does not run, and no other starts.
LEMMA ForgottenStops ==
  ASSUME TypeOK, NEW id \in ReqIds, reqs' = [reqs EXCEPT ![id].state = "gone"]
  PROVE  /\ \A i \in ReqIds : reqs'[i].state = "running" => reqs[i].state = "running"
         /\ reqs'[id].state = "gone"
<1>1. reqs \in [ReqIds -> NifiRequests]
  BY DEF TypeOK
<1> QED
  BY <1>1 DEF NifiRequests

\* The request that is made is recorded, or the write that would have is lost.
LEMMA MadeIsRecorded ==
  ASSUME TypeOK, NEW from \in [ReqIds -> NifiRequests], NEW op \in {"Rollout", "Rollback"},
         NEW target \in Known, CreateRequest(from, op, target),
         NEW s \in Statuses, Len(s.hist) <= HistoryLimit, Save(Replacing(s, Request(op, target))),
         \A i \in ReqIds : from[i].state = "running" => reqs[i].state = "running",
         st.req.id \in ReqIds => from[st.req.id].state # "running"
  PROVE  \/ Stray' \subseteq Stray /\ lost <= lost'
         \/ Stray' \subseteq Stray \union {nreq'} /\ nreq' \in ReqIds /\ lost' = lost + 1
<1> DEFINE q == Request(op, target)
<1>1. /\ nreq' \in ReqIds /\ \A id \in ReqIds \ {nreq'} : reqs'[id] = from[id]
      /\ q \in Requests /\ q.id = nreq'
  BY CreatedRequest
<1>2. lost \in Nat
  BY BoundsAssumption DEF TypeOK
<1> HIDE DEF q
<1>3. \/ lost' = lost + 1
      \/ lost' = lost /\ st' = Replacing(s, q)
  BY DEF Save, q
<1>4. CASE lost' = lost + 1
  <2>1. st' = st \/ st' = Replacing(s, q)
    BY DEF Save, q
  <2>2. Stray' \subseteq Stray \union {nreq'}
    <3> SUFFICES ASSUME NEW i \in ReqIds, reqs'[i].state = "running", i # nreq'
                 PROVE  i \in Stray
      BY DEF Stray
    <3>1. from[i].state = "running"
      BY <1>1
    <3> QED
      BY <3>1 DEF Stray
  <2> QED
    BY <1>1, <1>4, <2>2
<1>5. CASE lost' = lost /\ st' = Replacing(s, q)
  <2>1. st'.req = q
    BY <1>1, <1>5 DEF Replacing, NotReady, Statuses, Syncs
  <2>2. Stray' \subseteq Stray
    <3> SUFFICES ASSUME NEW i \in ReqIds, reqs'[i].state = "running", i # nreq'
                 PROVE  i \in Stray
      BY <1>1, <2>1 DEF Stray
    <3>1. from[i].state = "running"
      BY <1>1
    <3> QED
      BY <3>1 DEF Stray
  <2> QED
    BY <1>2, <1>5, <2>2
<1> QED
  BY <1>3, <1>4, <1>5

\* What a handler may stray: nothing, or the one request whose status write is lost.
LEMMA HandlerStrays ==
  ASSUME RolloutInv, Handler, "forget" \notin FaultPoints
  PROVE  \/ Stray' \subseteq Stray /\ lost <= lost'
         \/ Stray' \subseteq Stray \union {nreq'} /\ nreq' \in ReqIds /\ lost' = lost + 1
<1>1. /\ TypeOK /\ Targets /\ GateIdle /\ st \in Statuses /\ Len(st.hist) <= HistoryLimit
      /\ st.req \in Requests /\ reqs \in [ReqIds -> NifiRequests] /\ want \in Known
      /\ (st.req.id # 0 => st.req.id \in ReqIds) /\ 0 \notin ReqIds
  BY BoundsAssumption DEF RolloutInv, TypeOK, Statuses, Requests, ReqIds, Known
<1>2. lost <= lost'
  BY <1>1, HandlerCounts DEF Counted
<1>3. ASSUME reqs' = reqs, st.req.id = 0
      PROVE  Stray' \subseteq Stray
  BY <1>1, <1>3, NothingStrays
<1>4. ASSUME st.req.id # 0, reqs' = [reqs EXCEPT ![st.req.id].state = "gone"]
      PROVE  Stray' \subseteq Stray
  BY <1>1, <1>4, ForgottenStops, NothingStrays
<1>5. ASSUME reqs' = reqs, st'.req.id = st.req.id
      PROVE  Stray' \subseteq Stray
  BY <1>5, NothingStrays
<1>6. ASSUME NEW r \in Reasons, SaveFailed(st, r)
      PROVE  st'.req.id = st.req.id
  <2>1. Wrote(st.imported, st.art, st.req, st.ro, st.last, st.lastRb, st.sync)
    BY <1>1, <1>6, FailureWrites
  <2> QED
    BY <2>1 DEF Wrote, Shows
<1>7. CASE CancelRollout
  BY <1>2, <1>3, <1>4, <1>7 DEF CancelRollout, DeleteRequest
<1>8. CASE Import \/ LiveNotFound \/ RequeueBlocked \/ ReportDrift \/ CheckFails \/ Confirm
           \/ PrepareFails \/ AwaitDrain \/ Stop
  <2>1. reqs' = reqs /\ st.req.id = 0
    BY <1>8 DEF nifi, Import, LiveNotFound, RequeueBlocked, ReportDrift, CheckFails, Confirm,
                PrepareFails, AwaitDrain, Draining, Stop, StoppingFirst, Outdated, Deployed,
                Mounted, Idle
  <2> QED
    BY <1>2, <1>3, <2>1
<1>9. CASE Replace
  <2> DEFINE ro == [Target EXCEPT !.phase = "Replacing"]
             s == [st EXCEPT !.ro = ro]
  <2>1. st.req.id = 0
    BY <1>9 DEF Replace, Outdated, Mounted, Idle
  <2>2. ro \in Rollouts
    BY <1>1, TargetTyped
  <2>3. \/ reqs' = reqs
        \/ /\ CreateRequest(reqs, "Rollout", want)
           /\ Save(Replacing(s, Request("Rollout", want)))
    BY <1>9 DEF Replace
  <2> HIDE DEF ro
  <2>4. s \in Statuses /\ s.hist = st.hist
    BY <1>1, <2>2 DEF Statuses
  <2> HIDE DEF s
  <2>5. CASE reqs' = reqs
    BY <1>2, <1>3, <2>1, <2>5
  <2>6. CASE /\ CreateRequest(reqs, "Rollout", want)
             /\ Save(Replacing(s, Request("Rollout", want)))
    BY <1>1, <2>1, <2>4, <2>6, MadeIsRecorded
  <2> QED
    BY <2>3, <2>5, <2>6
<1>10. CASE PollFails
  <2>1. "FlowReplaceGetFailed" \in Reasons
    BY DEF Reasons
  <2>2. SaveFailed(st, "FlowReplaceGetFailed") /\ reqs' = reqs
    BY <1>10 DEF PollFails, nifi
  <2> QED
    BY <1>2, <1>5, <1>6, <2>1, <2>2
<1>11. CASE Poll
  <2> DEFINE q == [st.req EXCEPT !.complete = (Answer = "done")]
  <2>1. q \in Requests /\ q.id = st.req.id
    BY <1>1 DEF Requests
  <2>2. Save(Replacing(st, q)) /\ reqs' = reqs
    BY <1>11 DEF Poll, nifi
  <2> HIDE DEF q
  <2>3. Wrote(st.imported, st.art, q, st.ro, st.last, st.lastRb, "Other")
    BY <1>1, <2>1, <2>2, RequestWrites
  <2>4. st'.req.id = st.req.id
    BY <2>1, <2>3 DEF Wrote, Shows
  <2> QED
    BY <1>2, <1>5, <2>2, <2>4
<1>12. CASE HandleFailure
  <2>1. st.req.id # 0
    BY <1>12 DEF HandleFailure, Pending
  <2>2. PICK kept \in {FALSE, "forget" \in FaultPoints} :
           LET s == FailedStatus(kept)
           IN  \/ /\ \E r \in {"RollbackFailed", "RollbackUnavailable", "FlowReplaceFailed"} :
                       Abandon(s, r)
                  /\ reqs' = Left(kept) /\ UNCHANGED nreq
               \/ RetryAllowed /\ Save(Retrying(s)) /\ reqs' = Left(kept) /\ UNCHANGED nreq
               \/ st.req.op = "Rollout" /\ CanRollBack /\ StartRollback(s, Left(kept))
    BY <1>12, FailureEnds
  <2>3. kept = FALSE
    <3>1. ("forget" \in FaultPoints) = FALSE
      OBVIOUS
    <3> QED
      BY <3>1
  <2> DEFINE s == FailedStatus(FALSE)
             gone == [reqs EXCEPT ![st.req.id].state = "gone"]
  <2>4. Left(FALSE) = gone
    BY DEF Left
  <2>5. reqs' = gone \/ (CanRollBack /\ StartRollback(s, gone))
    BY <2>2, <2>3, <2>4
  <2>6. CASE reqs' = gone
    BY <1>2, <1>4, <2>1, <2>6
  <2>7. CASE CanRollBack /\ StartRollback(s, gone)
    <3> DEFINE rb == [gen |-> gen, digest |-> st.req.target, completed |-> FALSE]
               ro == [EnsureActive("Rollback", st.last) EXCEPT !.phase = "RollingBack"]
               t == [s EXCEPT !.lastRb = rb, !.ro = ro]
    <3>1. \/ reqs' = gone
          \/ /\ CreateRequest(gone, "Rollback", st.last)
             /\ Save(Replacing(t, Request("Rollback", st.last)))
      BY <2>7 DEF StartRollback
    <3>2. rb \in Rollbacks
      BY <1>1 DEF TypeOK, Statuses, Requests, Rollbacks
    <3>3. ro \in Rollouts /\ st.last \in Known
      <4>1. st.last \in Known /\ "RollingBack" \in Phases
        BY <1>1 DEF Statuses, Phases
      <4> QED
        BY <1>1, <4>1, ActiveTyped
    <3>4. s \in Statuses /\ Len(s.hist) <= HistoryLimit
      BY <1>1, <2>1, FailedStatusTyped
    <3> HIDE DEF s, rb, ro
    <3>5. t \in Statuses /\ t.hist = s.hist
      BY <3>2, <3>3, <3>4 DEF Statuses
    <3>6. /\ gone \in [ReqIds -> NifiRequests] /\ gone[st.req.id].state = "gone"
          /\ \A i \in ReqIds : gone[i].state = "running" => reqs[i].state = "running"
      BY <1>1, <2>1 DEF NifiRequests, States
    <3> HIDE DEF t, gone
    <3>7. CASE /\ CreateRequest(gone, "Rollback", st.last)
               /\ Save(Replacing(t, Request("Rollback", st.last)))
      BY <1>1, <3>3, <3>4, <3>5, <3>6, <3>7, MadeIsRecorded
    <3> QED
      BY <2>6, <3>1, <3>7
  <2> QED
    BY <2>5, <2>6, <2>7
<1>13. CASE CompletionFails
  <2>1. st.req.id # 0
    BY <1>13 DEF CompletionFails, Completing, Pending
  <2>2. /\ "NiFiRefreshFailed" \in Reasons /\ "SnapshotMetadataFailed" \in Reasons
        /\ "FlowReplaceCleanupFailed" \in Reasons
    BY DEF Reasons
  <2>3. \/ /\ reqs' = reqs
           /\ \/ SaveFailed(st, "NiFiRefreshFailed") \/ SaveFailed(st, "SnapshotMetadataFailed")
              \/ SaveFailed(st, "FlowReplaceCleanupFailed")
        \/ reqs' = [reqs EXCEPT ![st.req.id].state = "gone"]
    BY <1>13 DEF CompletionFails, Forget
  <2> QED
    BY <1>2, <1>4, <1>5, <1>6, <2>1, <2>2, <2>3
<1>14. CASE Complete \/ CompleteRollback
  <2>1. st.req.id # 0 /\ reqs' = [reqs EXCEPT ![st.req.id].state = "gone"]
    BY <1>14 DEF Complete, CompleteRollback, Completing, Pending, Forget
  <2> QED
    BY <1>2, <1>4, <2>1
<1>15. CASE ReadinessFails \/ ReadinessPasses \/ ReadinessExpires
  <2>1. reqs' = reqs /\ AwaitingReadiness
    BY <1>15 DEF ReadinessFails, ReadinessPasses, ReadinessExpires, nifi
  <2>2. st.req.id = 0
    BY <1>1, <2>1 DEF GateIdle, AwaitingReadiness
  <2> QED
    BY <1>2, <1>3, <2>1, <2>2
<1> QED
  BY <1>7, <1>8, <1>9, <1>10, <1>11, <1>12, <1>13, <1>14, <1>15 DEF Handler

\* NiFi and the users start no request.
LEMMA OthersStrayNothing ==
  ASSUME RolloutInv, NiFiWorks \/ Environment \/ BoundReached \/ UNCHANGED vars
  PROVE  Stray' \subseteq Stray /\ lost' = lost
<1>1. reqs \in [ReqIds -> NifiRequests]
  BY DEF RolloutInv, TypeOK
<1>2. st' = st /\ lost' = lost
  BY DEF NiFiWorks, RequestEnds, Environment, NiFiRestarts, QueuesMove, EditCanvas, FlipCancel,
         ChangeSource, Env, BoundReached, vars
<1>3. \A i \in ReqIds : reqs'[i].state = "running" => reqs[i].state = "running"
  <2>1. CASE NiFiWorks
    <3>1. PICK id \in ReqIds : RequestEnds(id)
      BY <2>1 DEF NiFiWorks
    <3>2. \E state \in {"done", "failed"} : reqs' = [reqs EXCEPT ![id].state = state]
      BY <3>1 DEF RequestEnds
    <3> QED
      BY <1>1, <3>2 DEF NifiRequests
  <2>2. CASE NiFiRestarts
    BY <1>1, <2>2 DEF NiFiRestarts, NifiRequests
  <2>3. CASE reqs' = reqs
    BY <2>3
  <2> QED
    BY <2>1, <2>2, <2>3
       DEF Environment, QueuesMove, EditCanvas, FlipCancel, ChangeSource, BoundReached, vars, nifi
<1> QED
  BY <1>2, <1>3, NothingStrays

\* Whenever the controller can delete the requests it gives up, NiFi works on none that the
\* status does not name, but for as many as status writes were lost.
THEOREM NoStrayRequests == ASSUME "forget" \notin FaultPoints PROVE Spec => []NoStrayRequest
<1>1. IsFiniteSet(ReqIds)
  BY BoundsAssumption, FS_Interval DEF ReqIds
<1>2. Init => NoStrayRequest
  <2> SUFFICES ASSUME Init
               PROVE  NoStrayRequest
    OBVIOUS
  <2>1. \A id \in ReqIds : reqs[id].state = "gone"
    BY DEF Init
  <2>2. Stray = {}
    BY <2>1 DEF Stray
  <2>3. lost = 0 /\ Cardinality({}) = 0
    BY FS_EmptySet DEF Init
  <2> QED
    BY <2>2, <2>3 DEF NoStrayRequest, Stray
<1>3. ASSUME RolloutInv, NoStrayRequest, [Next]_vars
      PROVE  NoStrayRequest'
  <2>1. Stray \subseteq ReqIds /\ Stray' \subseteq ReqIds
    BY DEF Stray, ReqIds
  <2>2. IsFiniteSet(Stray) /\ IsFiniteSet(Stray')
    BY <1>1, <2>1, FS_Subset
  <2>3. Cardinality(Stray) \in Nat /\ Cardinality(Stray') \in Nat
    BY <2>2, FS_CardinalityType
  <2>4. Cardinality(Stray) <= lost /\ lost \in Nat
    BY <1>3, BoundsAssumption DEF NoStrayRequest, Stray, RolloutInv, TypeOK
  <2>5. \/ Stray' \subseteq Stray /\ lost <= lost'
        \/ Stray' \subseteq Stray \union {nreq'} /\ lost' = lost + 1
    <3>1. CASE Reconcile
      BY <1>3, <3>1, HandlerStrays DEF Reconcile
    <3>2. CASE NiFiWorks \/ Environment \/ BoundReached \/ UNCHANGED vars
      BY <1>3, <2>4, <3>2, OthersStrayNothing
    <3> QED
      BY <1>3, <3>1, <3>2 DEF Next
  <2>6. lost' \in Nat
    BY <1>3, NextInv, BoundsAssumption DEF RolloutInv, TypeOK
  <2>7. CASE Stray' \subseteq Stray /\ lost <= lost'
    <3>1. Cardinality(Stray') <= Cardinality(Stray)
      BY <2>2, <2>7, FS_Subset
    <3>2. Cardinality(Stray') <= lost'
      BY <2>3, <2>4, <2>6, <2>7, <3>1
    <3> QED
      BY <3>2 DEF NoStrayRequest, Stray
  <2>8. CASE Stray' \subseteq Stray \union {nreq'} /\ lost' = lost + 1
    <3>1. /\ IsFiniteSet(Stray \union {nreq'})
          /\ Cardinality(Stray \union {nreq'}) \in {Cardinality(Stray), Cardinality(Stray) + 1}
      BY <2>2, FS_AddElement
    <3>2. Cardinality(Stray') <= Cardinality(Stray \union {nreq'})
      BY <2>8, <3>1, FS_Subset
    <3>3. Cardinality(Stray') <= lost'
      BY <2>3, <2>4, <2>6, <2>8, <3>1, <3>2
    <3> QED
      BY <3>3 DEF NoStrayRequest, Stray
  <2> QED
    BY <2>5, <2>7, <2>8
<1>4. RolloutInv /\ NoStrayRequest /\ [Next]_vars => NoStrayRequest'
  BY <1>3
<1> QED
  BY <1>2, <1>4, RolloutInvariant, PTL DEF Spec

-----------------------------------------------------------------------------
(* What a status in sync says of the live flow *)

\* The status was left alone, or one was written that is not Ready.
Unconfirmed == st' = st \/ st'.ready = FALSE

\* Every report but those of markSnapshotDeploymentInSync and markSnapshotDeploymentDrift.
LEMMA NotReadyWritten ==
  ASSUME NEW s, "ready" \in DOMAIN s, NEW r, SaveFailed(s, r) \/ Save(NotReady(s, r))
  PROVE  Unconfirmed
<1>1. NotReady(s, r).ready = FALSE
  BY DEF NotReady
<1> QED
  BY <1>1 DEF SaveFailed, Save, Unconfirmed

\* What can follow a handler: a status in sync is written only for a flow that was compared.
LEMMA HandlerReports ==
  ASSUME RolloutInv, Handler
  PROVE  \/ content' = content /\ (Unconfirmed \/ st'.sync # "InSync"
                                     \/ \E d \in Digests : InSyncWith(d))
         \/ st' = st /\ (~st.ready \/ lost' > lost)
         \/ st'.ready = FALSE
<1>1. /\ TypeOK /\ Targets /\ st \in Statuses /\ Len(st.hist) <= HistoryLimit
      /\ want \in Digests /\ lost \in Nat
  BY BoundsAssumption DEF RolloutInv, TypeOK
<1>2. "ready" \in DOMAIN st
  BY <1>1 DEF Statuses
<1>3. ASSUME NEW r, SaveFailed(st, r)
      PROVE  Unconfirmed
  BY <1>2, <1>3, NotReadyWritten
<1>4. CASE CancelRollout
  <2> DEFINE s == [st EXCEPT !.req = NoReq, !.ro = NoRollout, !.sync = "Other"]
  <2>1. "ready" \in DOMAIN s /\ SaveFailed(s, "RolloutCancelled")
    BY <1>2, <1>4 DEF CancelRollout
  <2>2. Unconfirmed
    BY <2>1, NotReadyWritten
  <2>3. st.ready => content' = content
    BY <1>4 DEF CancelRollout, RolloutInv, ReadyIdle
  <2> QED
    BY <2>2, <2>3 DEF Unconfirmed
<1>5. CASE Import
  <2> DEFINE s == [st EXCEPT !.ro = EnsureActive("Rollout", want)]
             t == [s EXCEPT !.imported = TRUE, !.art = want, !.sync = "Other", !.req = NoReq]
  <2>1. "ready" \in DOMAIN s /\ "ready" \in DOMAIN t
    BY <1>2
  <2>2. \/ SaveFailed(s, "SnapshotImportFailed") /\ content' = content
        \/ Save(NotReady(t, "SnapshotMetadataPending"))
    BY <1>5 DEF Import
  <2> HIDE DEF s, t
  <2>3. NotReady(t, "SnapshotMetadataPending").ready = FALSE
    BY <2>1 DEF NotReady
  <2>4. CASE SaveFailed(s, "SnapshotImportFailed") /\ content' = content
    BY <2>1, <2>4, NotReadyWritten
  <2>5. CASE Save(NotReady(t, "SnapshotMetadataPending"))
    BY <1>1, <2>3, <2>5 DEF Save
  <2> QED
    BY <2>2, <2>4, <2>5
<1>6. CASE LiveNotFound \/ RequeueBlocked \/ CheckFails \/ PollFails \/ ReadinessFails
  <2>1. content' = content /\ (st' = st \/ \E r : SaveFailed(st, r))
    BY <1>6 DEF LiveNotFound, RequeueBlocked, CheckFails, PollFails, ReadinessFails, nifi
  <2> QED
    BY <1>3, <2>1 DEF Unconfirmed
<1>7. CASE ReportDrift
  <2>1. content' = content /\ (st' = st \/ st' = Drifted(st))
    BY <1>7 DEF ReportDrift, Save, nifi
  <2>2. Drifted(st).sync = "Drifted"
    BY <1>1, DriftedTyped DEF TypeOK, Shows
  <2> QED
    BY <2>1, <2>2 DEF Unconfirmed
<1>8. CASE Confirm
  <2>1. content' = content /\ ~LiveDiffers(want) /\ (st' = st \/ SaveInSync(st, want))
    BY <1>8 DEF Confirm
  <2>2. SaveInSync(st, want) => InSyncWith(want) \/ st' = st
    BY <1>1, <2>1, InSyncWrites DEF SaveInSync
  <2> QED
    BY <1>1, <2>1, <2>2 DEF Unconfirmed
<1>9. CASE PrepareFails \/ AwaitDrain \/ Stop
  <2> DEFINE s == [st EXCEPT !.ro = Target]
             t == [st EXCEPT !.ro = Target, !.sync = "DrainingQueues"]
             u == [st EXCEPT !.ro = [Target EXCEPT !.phase = "Prepared"], !.sync = "Other"]
  <2>1. "ready" \in DOMAIN s /\ "ready" \in DOMAIN t /\ "ready" \in DOMAIN u
    BY <1>2
  <2>2. /\ content' = content
        /\ \/ st' = st \/ SaveFailed(s, "RolloutPreparationFailed")
           \/ Save(NotReady(t, "DrainingQueues")) \/ Save(NotReady(u, "RolloutPrepared"))
    BY <1>9 DEF PrepareFails, AwaitDrain, Stop, nifi
  <2> HIDE DEF s, t, u
  <2>3. Unconfirmed
    BY <2>1, <2>2, NotReadyWritten DEF Unconfirmed
  <2> QED
    BY <2>2, <2>3
<1>10. CASE Replace
  <2> DEFINE s == [st EXCEPT !.ro = [Target EXCEPT
                         !.phase = IF @ = "Preparing" THEN "Prepared" ELSE @]]
             t == [st EXCEPT !.ro = [Target EXCEPT !.phase = "Replacing"]]
             u == [t EXCEPT !.req = Request("Rollout", want), !.sync = "Other"]
  <2>1. "ready" \in DOMAIN s /\ "ready" \in DOMAIN t /\ "ready" \in DOMAIN u
    BY <1>2
  <2>2. /\ content' = content
        /\ \/ SaveFailed(s, "RolloutCheckpointFailed") \/ SaveFailed(t, "FlowReplaceCreateFailed")
           \/ Save(NotReady(u, "FlowReplaceRunning"))
    BY <1>10 DEF Replace, Replacing
  <2> HIDE DEF s, t, u
  <2>3. Unconfirmed
    BY <2>1, <2>2, NotReadyWritten
  <2> QED
    BY <2>2, <2>3
<1>11. CASE Poll
  <2> DEFINE s == [st EXCEPT !.req = [st.req EXCEPT !.complete = (Answer = "done")],
                             !.sync = "Other"]
  <2>1. "ready" \in DOMAIN s
    BY <1>2
  <2>2. content' = content /\ Save(NotReady(s, "FlowReplaceRunning"))
    BY <1>11 DEF Poll, Replacing, nifi
  <2> HIDE DEF s
  <2> QED
    BY <2>1, <2>2, NotReadyWritten
<1>12. CASE HandleFailure
  <2>1. content' = content
    BY <1>12 DEF HandleFailure
  <2>2. st.req.id # 0
    BY <1>12 DEF HandleFailure, Pending
  <2>3. ~st.ready
    BY <2>2 DEF RolloutInv, ReadyIdle
  <2>4. PICK kept \in {FALSE, "forget" \in FaultPoints} :
           LET s == FailedStatus(kept)
           IN  \/ /\ \E r \in {"RollbackFailed", "RollbackUnavailable", "FlowReplaceFailed"} :
                       Abandon(s, r)
                  /\ reqs' = Left(kept) /\ UNCHANGED nreq
               \/ RetryAllowed /\ Save(Retrying(s)) /\ reqs' = Left(kept) /\ UNCHANGED nreq
               \/ st.req.op = "Rollout" /\ CanRollBack /\ StartRollback(s, Left(kept))
    BY <1>12, FailureEnds
  <2> DEFINE s == FailedStatus(kept)
             a == [s EXCEPT !.ro = NoRollout]
             b == [s EXCEPT !.ro.retries = @ + 1, !.ro.phase = "Preparing", !.req = NoReq,
                            !.sync = "Other"]
             c == [[s EXCEPT
                !.lastRb = [gen |-> gen, digest |-> st.req.target, completed |-> FALSE],
                !.ro = [EnsureActive("Rollback", st.last) EXCEPT !.phase = "RollingBack"]]
                EXCEPT !.req = Request("Rollback", st.last), !.sync = "Other"]
  <2>5. "ready" \in DOMAIN s
    BY <1>2 DEF FailedStatus
  <2>6. \/ \E r : SaveFailed(a, r)
        \/ Save(NotReady(b, "RolloutRetrying"))
        \/ SaveFailed(s, "RollbackCreateFailed")
        \/ Save(NotReady(c, "FlowReplaceRunning"))
    BY <2>4 DEF Abandon, Retrying, StartRollback, Replacing
  <2> HIDE DEF s
  <2>7. "ready" \in DOMAIN a /\ "ready" \in DOMAIN b /\ "ready" \in DOMAIN c
    BY <2>5
  <2> HIDE DEF a, b, c
  <2>8. Unconfirmed
    BY <2>5, <2>6, <2>7, NotReadyWritten
  <2> QED
    BY <2>1, <2>8
<1>13. CASE CompletionFails
  <2>1. "ready" \in DOMAIN Cleaned
    BY <1>2 DEF Cleaned
  <2>2. content' = content /\ (\E r : SaveFailed(st, r) \/ SaveFailed(Cleaned, r))
    BY <1>13 DEF CompletionFails
  <2> QED
    BY <1>2, <2>1, <2>2, NotReadyWritten
<1>14. ASSUME NEW s \in Statuses, Len(s.hist) <= HistoryLimit, NEW d \in Digests,
              s.imported = st.imported, s.lastRb = st.lastRb, FinalizeRollout(s, d)
       PROVE  Unconfirmed \/ InSyncWith(d)
  <2>1. \/ SaveFailed(s, "DriftCheckFailed")
        \/ InSyncWith(d) \/ st' = st
    BY <1>1, <1>14, FinalizeWrites
  <2>2. "ready" \in DOMAIN s
    BY DEF Statuses
  <2> QED
    BY <2>1, <2>2, NotReadyWritten DEF Unconfirmed
<1>15. CASE Complete
  <2> DEFINE s == [st EXCEPT !.req = NoReq, !.sync = "Other",
                !.ro = [EnsureActive("Rollout", st.req.target) EXCEPT !.phase = "AwaitingReadiness"]]
  <2>1. content' = content /\ st.req.target \in Digests
    BY <1>1, <1>15 DEF Complete, Completing, Pending, Targets
  <2>2. "ready" \in DOMAIN s
    BY <1>2
  <2>3. Save(NotReady(s, "AwaitingReadiness")) \/ FinalizeRollout(Cleaned, st.req.target)
    BY <1>15 DEF Complete
  <2> HIDE DEF s
  <2>4. /\ Cleaned \in Statuses /\ Len(Cleaned.hist) <= HistoryLimit
        /\ Cleaned.imported = st.imported /\ Cleaned.lastRb = st.lastRb
    BY <1>1, CleanedTyped DEF Shows
  <2> QED
    BY <1>14, <2>1, <2>2, <2>3, <2>4, NotReadyWritten
<1>16. CASE CompleteRollback
  <2>1. content' = content /\ st.req.id # 0
    BY <1>16 DEF CompleteRollback, Completing, Pending
  <2>2. Wrote(st.imported, st.last, NoReq, NoRollout, st.last,
              [st.lastRb EXCEPT !.completed = TRUE], "RolledBack")
    BY <1>1, <1>16, <2>1, RolledBackWrites
  <2> QED
    BY <2>1, <2>2 DEF Wrote, Unconfirmed
<1>17. CASE ReadinessPasses
  <2>1. content' = content /\ FinalizeRollout(st, want)
    BY <1>17 DEF ReadinessPasses, nifi
  <2> QED
    BY <1>1, <1>14, <2>1
<1>18. CASE ReadinessExpires
  <2> DEFINE a == [st EXCEPT !.ro = NoRollout]
             b == [st EXCEPT !.ro.retries = @ + 1, !.ro.phase = "Preparing", !.req = NoReq,
                             !.sync = "Other"]
  <2>1. "ready" \in DOMAIN a /\ "ready" \in DOMAIN b
    BY <1>2
  <2>2. /\ content' = content
        /\ SaveFailed(a, "ReadinessTimeout") \/ Save(NotReady(b, "RolloutRetrying"))
    BY <1>18 DEF ReadinessExpires, Abandon, Retrying, nifi
  <2> HIDE DEF a, b
  <2> QED
    BY <2>1, <2>2, NotReadyWritten
<1> QED
  BY <1>4, <1>5, <1>6, <1>7, <1>8, <1>9, <1>10, <1>11, <1>12, <1>13, <1>15, <1>16, <1>17, <1>18
     DEF Handler

\* When no write was lost, NiFi works on the request the status names and on no other ...
LEMMA OnlyNamedRuns ==
  ASSUME RolloutInv, NoStrayRequest, lost = 0, NEW id \in ReqIds, reqs[id].state = "running"
  PROVE  st.req.id = id
<1>1. IsFiniteSet(ReqIds)
  BY BoundsAssumption, FS_Interval DEF ReqIds
<1>2. IsFiniteSet(Stray)
  <2>1. Stray \subseteq ReqIds
    BY DEF Stray
  <2> QED
    BY <1>1, <2>1, FS_Subset
<1>3. Cardinality(Stray) \in Nat /\ Cardinality(Stray) <= 0
  BY <1>2, FS_CardinalityType DEF NoStrayRequest, Stray
<1>4. Stray = {}
  BY <1>2, <1>3, FS_EmptySet
<1> QED
  BY <1>4 DEF Stray

\* ... and on none behind a status that says Ready.
LEMMA ReadyIsStill ==
  ASSUME RolloutInv, NoStrayRequest, st.ready, lost = 0, NEW id \in ReqIds
  PROVE  reqs[id].state # "running"
<1>1. st.req.id = 0 /\ id # 0
  BY BoundsAssumption DEF RolloutInv, ReadyIdle, ReqIds
<1> QED
  BY <1>1, OnlyNamedRuns

\* A deployment reported Ready and in sync has the artifact it names as its live content,
\* under every policy that compares, unless a user edited the canvas or a write was lost.
THEOREM InSyncIsLive ==
  ASSUME "forget" \notin FaultPoints, DriftMode # "Ignore"
  PROVE  Spec => []InSyncMeansLive
<1>1. Init => InSyncMeansLive
  BY DEF Init, InSyncMeansLive
<1>2. ASSUME RolloutInv, NoStrayRequest, InSyncMeansLive, [Next]_vars
      PROVE  InSyncMeansLive'
  <2> SUFFICES ASSUME st'.ready, st'.sync = "InSync", drifts' = 0, lost' = 0
               PROVE  content' = st'.art
    BY DEF InSyncMeansLive
  <2>1. lost \in Nat /\ drifts \in Nat
    BY <1>2, BoundsAssumption DEF RolloutInv, TypeOK
  <2>2. CASE Reconcile
    <3>1. Handler /\ drifts' = drifts
      BY <2>2 DEF Reconcile
    <3>2. lost = 0
      BY <1>2, <2>1, <3>1, HandlerCounts DEF Counted, RolloutInv
    <3>3. \/ content' = content /\ (st' = st \/ \E d \in Digests : InSyncWith(d))
          \/ st' = st /\ ~st.ready
      BY <1>2, <3>1, <3>2, HandlerReports DEF Unconfirmed
    <3>4. CASE content' = content /\ st' = st
      BY <1>2, <3>1, <3>2, <3>4 DEF InSyncMeansLive
    <3>5. ASSUME content' = content, NEW d \in Digests, InSyncWith(d)
          PROVE  content' = st'.art
      <4>1. st'.art = d /\ (~LiveDiffers(d) \/ lost' > lost)
        BY <3>5 DEF InSyncWith, Shows
      <4>2. ~LiveDiffers(d)
        BY <3>2, <4>1
      <4> QED
        BY <3>5, <4>1, <4>2 DEF LiveDiffers
    <3> QED
      BY <3>3, <3>4, <3>5
  <2>3. CASE NiFiWorks
    <3>1. PICK id \in ReqIds : RequestEnds(id)
      BY <2>3 DEF NiFiWorks
    <3>2. st' = st /\ lost' = lost /\ reqs[id].state = "running"
      BY <3>1 DEF RequestEnds, Env
    <3> QED
      BY <1>2, <3>2, ReadyIsStill
  <2>4. CASE NiFiRestarts
    <3>1. st' = st /\ lost' = lost /\ drifts' = drifts
      BY <2>4 DEF NiFiRestarts, Env
    <3>2. \A id \in ReqIds : reqs[id].state # "running"
      BY <1>2, <3>1, ReadyIsStill
    <3>3. content' = content
      BY <2>4, <3>2 DEF NiFiRestarts
    <3> QED
      BY <1>2, <3>1, <3>3 DEF InSyncMeansLive
  <2>5. CASE EditCanvas
    BY <2>1, <2>5 DEF EditCanvas
  <2>6. CASE \/ QueuesMove \/ FlipCancel \/ BoundReached \/ UNCHANGED vars
             \/ \E digest \in Digests, bump \in {0, 1} : ChangeSource(digest, bump)
    <3>1. content' = content /\ st' = st /\ lost' = lost /\ drifts' = drifts
      BY <2>6 DEF QueuesMove, FlipCancel, ChangeSource, BoundReached, vars, nifi, Env
    <3> QED
      BY <1>2, <3>1 DEF InSyncMeansLive
  <2> QED
    BY <1>2, <2>2, <2>3, <2>4, <2>5, <2>6 DEF Next, Environment
<1>3. RolloutInv /\ NoStrayRequest /\ InSyncMeansLive /\ [Next]_vars => InSyncMeansLive'
  BY <1>2
<1>4. Spec => []NoStrayRequest
  BY NoStrayRequests
<1> QED
  BY <1>1, <1>3, <1>4, RolloutInvariant, PTL DEF Spec

-----------------------------------------------------------------------------
(* A flow that was stopped is started again before the deployment is Ready *)

\* Status writes land, rollouts are neither cancelled nor retargeted half way, and requests
\* can be deleted. (Otherwise a rollout may end, cancelled or overtaken, with the group stopped.)
Calm == MaxLost = 0 /\ MaxCancels = 0 /\ ~MidRolloutEdits /\ "forget" \notin FaultPoints

\* A stopped group is one of a rollout that is not over: another reconcile will act on it.
StoppedInv ==
  ~running =>
    /\ Strategy = "StopAllThenApply" /\ st.imported /\ st.ro.phase # "AwaitingReadiness"
    /\ ~st.ready /\ ~Blocked
    /\ \/ st.art # want
       \/ DriftMode = "Reconcile" /\ (Active \/ content # want)

\* A pending request belongs to the active rollout, and while it has not succeeded what it
\* is to repair is not repaired.
PendingInv ==
  st.req.id # 0 =>
    /\ Active /\ ~st.req.failed
    /\ st.art = want /\ reqs[st.req.id].state \in {"running", "failed"} => content # want

RunInv == StoppedInv /\ PendingInv /\ cancel = FALSE

\* A step after which the group runs.
LEMMA StartedInv ==
  ASSUME RunInv, running' = TRUE, UNCHANGED cancel,
         st'.req.id = 0 \/ (st' = st /\ reqs'[st.req.id].state = "gone")
  PROVE  RunInv'
<1>1. StoppedInv'
  BY DEF StoppedInv
<1>2. PendingInv'
  BY DEF RunInv, PendingInv, Active
<1> QED
  BY <1>1, <1>2 DEF RunInv

\* A step of the rollout that reports, and keeps, gives up or stops its request.
LEMMA GoingInv ==
  ASSUME RunInv, UNCHANGED <<want, gen, cancel, content>>, running' = TRUE \/ running' = running,
         NEW req, NEW ro, NEW sync,
         Wrote(st.imported, st.art, req, ro, st.last, st.lastRb, sync),
         ~running => /\ ro.phase # "AwaitingReadiness"
                     /\ ro.phase # "None" \/ ~Active \/ st.art # want \/ content # want,
         req.id = 0 \/ (req.id = st.req.id /\ req.failed = st.req.failed /\ ro.phase # "None"),
         st.req.id # 0 => reqs'[st.req.id].state = reqs[st.req.id].state
                            \/ reqs'[st.req.id].state = "gone"
  PROVE  RunInv'
<1>1. CASE st' = st
  <2>1. StoppedInv'
    BY <1>1 DEF RunInv, StoppedInv, Blocked, Active
  <2>2. PendingInv'
    BY <1>1 DEF RunInv, PendingInv, Active
  <2> QED
    BY <2>1, <2>2 DEF RunInv
<1>2. CASE /\ st'.ready = FALSE
           /\ Shows(st', st.imported, st.art, req, ro, st.last, st.lastRb, sync)
  <2>1. /\ st'.imported = st.imported /\ st'.art = st.art /\ st'.req = req /\ st'.ro = ro
        /\ st'.lastRb = st.lastRb
    BY <1>2 DEF Shows
  <2>2. StoppedInv'
    BY <1>2, <2>1 DEF RunInv, StoppedInv, Blocked, Active
  <2>3. PendingInv'
    BY <2>1 DEF RunInv, PendingInv, Active
  <2> QED
    BY <2>2, <2>3 DEF RunInv
<1> QED
  BY <1>1, <1>2 DEF Wrote

\* A request is made and recorded.
LEMMA MadeInv ==
  ASSUME RunInv, UNCHANGED <<want, gen, cancel, content, running>>,
         NEW req, NEW ro, NEW lastRb, NEW sync, st'.ready = FALSE,
         Shows(st', st.imported, st.art, req, ro, st.last, lastRb, sync),
         ro.phase \in {"Replacing", "RollingBack"}, ~req.failed,
         lastRb = st.lastRb \/ lastRb.completed = FALSE,
         st.art = want => content # want
  PROVE  RunInv'
<1>1. /\ st'.imported = st.imported /\ st'.art = st.art /\ st'.req = req /\ st'.ro = ro
      /\ st'.lastRb = lastRb
  BY DEF Shows
<1>2. StoppedInv'
  BY <1>1 DEF RunInv, StoppedInv, Blocked, Active
<1>3. PendingInv'
  BY <1>1 DEF PendingInv, Active
<1> QED
  BY <1>2, <1>3 DEF RunInv

\* With no write to lose, what is saved is what is read.
LEMMA CalmSaves ==
  ASSUME Calm, TypeOK, NEW s, Save(s)
  PROVE  st' = s
<1>1. ~(lost < MaxLost)
  BY DEF Calm, TypeOK
<1> QED
  BY <1>1 DEF Save

\* A failure is reported.
LEMMA ReportedRun ==
  ASSUME RolloutInv, RunInv, UNCHANGED <<nifi, spec>>, NEW r \in Reasons, SaveFailed(st, r)
  PROVE  RunInv'
<1>1. Wrote(st.imported, st.art, st.req, st.ro, st.last, st.lastRb, st.sync)
  BY FailureWrites DEF RolloutInv
<1>2. UNCHANGED <<want, gen, cancel, content, running, reqs>>
  BY DEF nifi, spec
<1>3. ~running => st.ro.phase # "AwaitingReadiness"
  BY DEF RunInv, StoppedInv
<1>4. st.ro.phase # "None" \/ ~Active
  BY DEF Active
<1>5. st.req.id = 0 \/ st.ro.phase # "None"
  BY DEF RunInv, PendingInv, Active
<1> QED
  BY <1>1, <1>2, <1>3, <1>4, <1>5, GoingInv

\* The handlers of a deployment with no request pending and none made.
LEMMA IdleRun ==
  ASSUME Calm, RolloutInv, RunInv, UNCHANGED spec,
         \/ CancelRollout \/ Import \/ LiveNotFound \/ RequeueBlocked \/ ReportDrift
         \/ CheckFails \/ Confirm
  PROVE  RunInv'
<1>1. /\ TypeOK /\ st \in Statuses /\ want \in Digests /\ UNCHANGED <<want, gen, cancel>>
      /\ running \in BOOLEAN
  BY DEF RolloutInv, TypeOK, spec
<1>2. CASE CancelRollout
  BY <1>2 DEF CancelRollout, Cancelling, RunInv
<1>3. CASE Import
  <2>1. st.req.id = 0 /\ running' = running /\ ~st.imported
    BY <1>3 DEF Import, Idle
  <2>2. running' = TRUE
    BY <1>1, <2>1 DEF RunInv, StoppedInv
  <2>3. st'.req.id = 0
    BY <1>1, <1>3, <2>1, ImportWrites, NothingTyped DEF Wrote, Shows
  <2> QED
    BY <1>1, <2>2, <2>3, StartedInv
<1>4. CASE LiveNotFound \/ CheckFails
  <2>1. /\ UNCHANGED nifi
        /\ \/ SaveFailed(st, "NiFiGetFailed") \/ SaveFailed(st, "DriftCheckFailed")
           \/ SaveFailed(st, "SnapshotMetadataFailed") \/ SaveFailed(st, "RolloutFinalizeFailed")
    BY <1>4 DEF LiveNotFound, CheckFails
  <2>2. /\ "NiFiGetFailed" \in Reasons /\ "DriftCheckFailed" \in Reasons
        /\ "SnapshotMetadataFailed" \in Reasons /\ "RolloutFinalizeFailed" \in Reasons
    BY DEF Reasons
  <2> QED
    BY <2>1, <2>2, ReportedRun
<1>5. CASE RequeueBlocked
  BY <1>1, <1>5 DEF RequeueBlocked, nifi, RunInv, StoppedInv, PendingInv, Blocked, Active
<1>6. CASE ReportDrift
  <2>1. st.req.id = 0 /\ running' = running /\ st.art = want /\ DriftMode # "Reconcile"
    BY <1>6 DEF ReportDrift, Deployed, Mounted, Idle, nifi
  <2>2. running' = TRUE
    BY <1>1, <2>1 DEF RunInv, StoppedInv
  <2>3. st'.req = st.req
    BY <1>1, <1>6, DriftedTyped DEF ReportDrift, Save, Shows, TypeOK
  <2> QED
    BY <1>1, <2>1, <2>2, <2>3, StartedInv
<1>7. CASE Confirm
  <2>1. /\ st.req.id = 0 /\ st.art = want /\ ~LiveDiffers(want)
        /\ IF NeedsCompletion THEN StartGroup ELSE UNCHANGED running
        /\ st' = st \/ SaveInSync(st, want)
    BY <1>7 DEF Confirm, Deployed, Mounted, Idle
  <2>2. running' = TRUE
    <3>1. CASE NeedsCompletion
      BY <1>1, <2>1, <3>1 DEF StartGroup, RunInv, StoppedInv
    <3>2. CASE ~NeedsCompletion
      <4>1. ~Active
        BY <3>2 DEF NeedsCompletion
      <4>2. DriftMode = "Reconcile" => content = want
        BY <2>1 DEF LiveDiffers
      <4> QED
        BY <1>1, <2>1, <3>2, <4>1, <4>2 DEF RunInv, StoppedInv
    <3> QED
      BY <3>1, <3>2
  <2>3. st'.req.id = 0
    <3>1. st' = st \/ InSyncWith(want)
      BY <1>1, <2>1, InSyncWrites DEF SaveInSync
    <3> QED
      BY <2>1, <3>1, NothingTyped DEF InSyncWith, Shows
  <2> QED
    BY <1>1, <2>2, <2>3, StartedInv
<1> QED
  BY <1>2, <1>3, <1>4, <1>5, <1>6, <1>7

\* Preparing the rollout and making its request.
LEMMA PrepareRun ==
  ASSUME Calm, RolloutInv, RunInv, UNCHANGED spec,
         PrepareFails \/ AwaitDrain \/ Stop \/ Replace
  PROVE  RunInv'
<1>1. /\ TypeOK /\ st \in Statuses /\ Len(st.hist) <= HistoryLimit /\ st.sync \in Syncs
      /\ UNCHANGED <<want, gen, cancel>> /\ want \in Known /\ reqs \in [ReqIds -> NifiRequests]
  BY DEF RolloutInv, TypeOK, spec, Statuses, Known
<1>2. /\ Idle /\ st.req.id = 0 /\ st.imported /\ ~Blocked
      /\ st.art = want => DriftMode = "Reconcile" /\ content # want
  BY DEF PrepareFails, AwaitDrain, Draining, Stop, StoppingFirst, Replace, Outdated, Mounted, Idle
<1>3. /\ Target \in Rollouts /\ (Target = st.ro \/ Target.phase = "Preparing")
      /\ [Target EXCEPT !.phase = "Prepared"] \in Rollouts
      /\ [Target EXCEPT !.phase = "Prepared"].phase = "Prepared"
      /\ [Target EXCEPT !.phase = "Replacing"] \in Rollouts
      /\ [Target EXCEPT !.phase = "Replacing"].phase = "Replacing"
  BY <1>1, TargetTyped
<1>4. ~running => st.ro.phase # "AwaitingReadiness"
  BY DEF RunInv, StoppedInv
<1>5. ASSUME NEW ro, NEW sync, UNCHANGED <<content, running, reqs>>,
             Wrote(st.imported, st.art, st.req, ro, st.last, st.lastRb, sync),
             ro.phase = st.ro.phase \/ ro.phase \in {"Preparing", "Prepared", "Replacing"}
      PROVE  RunInv'
  <2>1. ~running => /\ ro.phase # "AwaitingReadiness"
                    /\ ro.phase # "None" \/ ~Active \/ st.art # want \/ content # want
    BY <1>4, <1>5 DEF Active
  <2> QED
    BY <1>1, <1>2, <1>5, <2>1, GoingInv
<1>6. CASE PrepareFails \/ AwaitDrain
  <2>1. /\ Target.phase = "Preparing" /\ UNCHANGED <<content, running, reqs>>
        /\ \/ SaveFailed([st EXCEPT !.ro = Target], "RolloutPreparationFailed")
           \/ Save(NotReady([st EXCEPT !.ro = Target, !.sync = "DrainingQueues"], "DrainingQueues"))
           \/ st' = st
    BY <1>6 DEF PrepareFails, AwaitDrain, Draining, StoppingFirst, nifi
  <2>2. /\ "RolloutPreparationFailed" \in Reasons /\ "DrainingQueues" \in Reasons
        /\ "DrainingQueues" \in Syncs
    BY DEF Reasons, Syncs
  <2>3. CASE SaveFailed([st EXCEPT !.ro = Target], "RolloutPreparationFailed")
    <3>1. Wrote(st.imported, st.art, st.req, Target, st.last, st.lastRb, st.sync)
      BY <1>1, <1>3, <2>2, <2>3, PrepareWrites
    <3> QED
      BY <1>5, <2>1, <3>1
  <2>4. CASE Save(NotReady([st EXCEPT !.ro = Target, !.sync = "DrainingQueues"], "DrainingQueues"))
    <3>1. Wrote(st.imported, st.art, st.req, Target, st.last, st.lastRb, "DrainingQueues")
      BY <1>1, <1>3, <2>2, <2>4, PrepareWrites
    <3> QED
      BY <1>5, <2>1, <3>1
  <2>5. CASE st' = st
    <3>1. Wrote(st.imported, st.art, st.req, Target, st.last, st.lastRb, st.sync)
      BY <2>5 DEF Wrote
    <3> QED
      BY <1>5, <2>1, <3>1
  <2> QED
    BY <2>1, <2>3, <2>4, <2>5
<1>7. CASE Stop
  <2> DEFINE ro == [Target EXCEPT !.phase = "Prepared"]
             s == [st EXCEPT !.ro = ro, !.sync = "Other"]
  <2>1. /\ running' = FALSE /\ UNCHANGED content /\ Strategy = "StopAllThenApply"
        /\ Save(NotReady(s, "RolloutPrepared"))
    BY <1>7 DEF Stop, StoppingFirst
  <2>2. ro \in Rollouts /\ ro.phase = "Prepared"
    BY <1>3
  <2> HIDE DEF ro
  <2>3. /\ s \in Statuses /\ s.imported = st.imported /\ s.art = st.art /\ s.req = st.req
        /\ s.ro = ro /\ s.lastRb = st.lastRb
    BY <1>1, <2>2 DEF Statuses, Syncs
  <2> HIDE DEF s
  <2>4. st' = NotReady(s, "RolloutPrepared")
    BY <1>1, <2>1, CalmSaves
  <2>5. /\ st'.ready = FALSE /\ st'.imported = st.imported /\ st'.art = st.art
        /\ st'.req = st.req /\ st'.ro = ro /\ st'.lastRb = st.lastRb
    BY <2>3, <2>4, NotReadyKeeps
  <2>6. StoppedInv'
    BY <1>1, <1>2, <2>1, <2>2, <2>5 DEF StoppedInv, Blocked, Active
  <2>7. PendingInv'
    BY <1>2, <2>5 DEF PendingInv
  <2> QED
    BY <1>1, <2>6, <2>7 DEF RunInv
<1>8. CASE Replace
  <2> DEFINE prepared == [Target EXCEPT !.phase = IF @ = "Preparing" THEN "Prepared" ELSE @]
             ro == [Target EXCEPT !.phase = "Replacing"]
             s == [st EXCEPT !.ro = ro]
             q == Request("Rollout", want)
  <2>1. /\ UNCHANGED <<content, running>>
        /\ \/ SaveFailed([st EXCEPT !.ro = prepared], "RolloutCheckpointFailed")
              /\ UNCHANGED reqs
           \/ SaveFailed(s, "FlowReplaceCreateFailed") /\ UNCHANGED reqs
           \/ CreateRequest(reqs, "Rollout", want) /\ Save(Replacing(s, q))
    BY <1>8 DEF Replace
  <2>2. prepared \in Rollouts /\ (prepared.phase = st.ro.phase \/ prepared.phase = "Prepared")
    <3>1. (IF Target.phase = "Preparing" THEN "Prepared" ELSE Target.phase) \in Phases
      BY <1>3 DEF Rollouts, Phases
    <3>2. prepared = [Target EXCEPT !.phase = IF Target.phase = "Preparing" THEN "Prepared"
                                              ELSE Target.phase]
      BY <1>3 DEF Rollouts
    <3>3. prepared \in Rollouts
          /\ prepared.phase = IF Target.phase = "Preparing" THEN "Prepared" ELSE Target.phase
      BY <1>3, <3>1, <3>2 DEF Rollouts
    <3> QED
      BY <1>3, <3>3
  <2>3. ro \in Rollouts /\ ro.phase = "Replacing"
    BY <1>3
  <2>4. "RolloutCheckpointFailed" \in Reasons /\ "FlowReplaceCreateFailed" \in Reasons
    BY DEF Reasons
  <2> HIDE DEF prepared, ro
  <2>5. /\ s \in Statuses /\ s.hist = st.hist
        /\ Shows(s, st.imported, st.art, st.req, ro, st.last, st.lastRb, st.sync)
    BY <1>1, <2>3 DEF Statuses, Shows
  <2> HIDE DEF s, q
  <2>6. CASE SaveFailed([st EXCEPT !.ro = prepared], "RolloutCheckpointFailed") /\ UNCHANGED reqs
    <3>1. Wrote(st.imported, st.art, st.req, prepared, st.last, st.lastRb, st.sync)
      BY <1>1, <2>2, <2>4, <2>6, PrepareWrites
    <3> QED
      BY <1>5, <2>1, <2>2, <2>6, <3>1
  <2>7. CASE SaveFailed(s, "FlowReplaceCreateFailed") /\ UNCHANGED reqs
    <3>1. Wrote(s.imported, s.art, s.req, s.ro, s.last, s.lastRb, s.sync)
      BY <1>1, <2>4, <2>5, <2>7, Reported
    <3>2. Wrote(st.imported, st.art, st.req, ro, st.last, st.lastRb, st.sync)
      BY <2>5, <3>1 DEF Shows
    <3> QED
      BY <1>5, <2>1, <2>3, <2>7, <3>2
  <2>8. CASE CreateRequest(reqs, "Rollout", want) /\ Save(Replacing(s, q))
    <3>1. q \in Requests /\ q.failed = FALSE
      BY <1>1, <2>8, CreatedRequest DEF q
    <3>2. st' = Replacing(s, q)
      BY <1>1, <2>8, CalmSaves
    <3>3. /\ st'.ready = FALSE
          /\ Shows(st', st.imported, st.art, q, ro, st.last, st.lastRb, "Other")
      BY <2>5, <3>1, <3>2 DEF Replacing, NotReady, Statuses, Shows, Syncs
    <3> QED
      BY <1>1, <1>2, <2>1, <2>3, <3>1, <3>3, MadeInv
  <2> QED
    BY <2>1, <2>6, <2>7, <2>8
<1> QED
  BY <1>6, <1>7, <1>8

\* A pending request: polled, failed or complete.
LEMMA PendingRun ==
  ASSUME Calm, RolloutInv, RunInv, UNCHANGED spec,
         \/ PollFails \/ Poll \/ HandleFailure \/ CompletionFails \/ Complete \/ CompleteRollback
  PROVE  RunInv'
<1>1. /\ TypeOK /\ Targets /\ st \in Statuses /\ Len(st.hist) <= HistoryLimit
      /\ st.req \in Requests /\ st.ro \in Rollouts /\ running \in BOOLEAN
      /\ UNCHANGED <<want, gen, cancel>> /\ reqs \in [ReqIds -> NifiRequests]
  BY DEF RolloutInv, TypeOK, spec, Statuses
<1>2. st.req.id # 0 /\ st.req.id \in ReqIds
  <2>1. st.req.id # 0
    BY DEF PollFails, Poll, Polling, HandleFailure, CompletionFails, Complete, CompleteRollback,
           Completing, Pending
  <2> QED
    BY <1>1, <2>1, BoundsAssumption DEF Requests, ReqIds
<1>3. Active /\ ~st.req.failed /\ st.ro.phase # "None" /\ st.ro.phase # "AwaitingReadiness"
  BY <1>2 DEF RunInv, PendingInv, Active, RolloutInv, GateIdle
<1>4. ASSUME NEW req, NEW sync, UNCHANGED content, running' = TRUE \/ running' = running,
             req.id = 0 \/ (req.id = st.req.id /\ req.failed = st.req.failed),
             reqs'[st.req.id].state = reqs[st.req.id].state \/ reqs'[st.req.id].state = "gone",
             Wrote(st.imported, st.art, req, st.ro, st.last, st.lastRb, sync)
      PROVE  RunInv'
  BY <1>1, <1>3, <1>4, GoingInv
<1>5. CASE PollFails
  <2>1. "FlowReplaceGetFailed" \in Reasons
    BY DEF Reasons
  <2> QED
    BY <1>5, <2>1, ReportedRun DEF PollFails
<1>6. CASE Poll
  <2> DEFINE q == [st.req EXCEPT !.complete = (Answer = "done")]
  <2>1. q \in Requests /\ q.id = st.req.id /\ q.failed = st.req.failed
    BY <1>1 DEF Requests
  <2>2. Save(Replacing(st, q)) /\ UNCHANGED <<content, running, reqs>>
    BY <1>6 DEF Poll, nifi
  <2> HIDE DEF q
  <2>3. Wrote(st.imported, st.art, q, st.ro, st.last, st.lastRb, "Other")
    BY <1>1, <2>1, <2>2, RequestWrites
  <2> QED
    BY <1>4, <2>1, <2>2, <2>3
<1>7. CASE HandleFailure
  <2>1. UNCHANGED <<content, running>> /\ (st.art = want => content # want)
    <3>1. UNCHANGED <<content, running>> /\ reqs[st.req.id].state = "failed"
      BY <1>3, <1>7 DEF HandleFailure, Answer
    <3> QED
      BY <1>2, <3>1 DEF RunInv, PendingInv
  <2>2. PICK kept \in {FALSE, "forget" \in FaultPoints} :
           LET s == FailedStatus(kept)
           IN  \/ /\ \E r \in {"RollbackFailed", "RollbackUnavailable", "FlowReplaceFailed"} :
                       Abandon(s, r)
                  /\ reqs' = Left(kept) /\ UNCHANGED nreq
               \/ RetryAllowed /\ Save(Retrying(s)) /\ reqs' = Left(kept) /\ UNCHANGED nreq
               \/ st.req.op = "Rollout" /\ CanRollBack /\ StartRollback(s, Left(kept))
    BY <1>7, FailureEnds
  <2>3. kept = FALSE
    <3>1. ("forget" \in FaultPoints) = FALSE
      BY DEF Calm
    <3> QED
      BY <3>1
  <2> DEFINE s == FailedStatus(FALSE)
             f == FailedReq(FALSE)
             gone == [reqs EXCEPT ![st.req.id].state = "gone"]
  <2>4. Left(FALSE) = gone
    BY DEF Left
  <2>5. \/ /\ \E r \in {"RollbackFailed", "RollbackUnavailable", "FlowReplaceFailed"} :
                Abandon(s, r)
           /\ reqs' = gone
        \/ RetryAllowed /\ Save(Retrying(s)) /\ reqs' = gone
        \/ CanRollBack /\ StartRollback(s, gone)
    BY <2>2, <2>3, <2>4
  <2>6. /\ s \in Statuses /\ Len(s.hist) <= HistoryLimit /\ f \in Requests /\ f.id = 0
        /\ Shows(s, st.imported, st.art, f, st.ro, st.last, st.lastRb, st.sync)
    BY <1>1, <1>2, FailedStatusTyped
  <2>7. gone \in [ReqIds -> NifiRequests] /\ gone[st.req.id].state = "gone"
    BY <1>1, <1>2 DEF NifiRequests, States
  <2> HIDE DEF s, f, gone
  <2>8. CASE /\ \E r \in {"RollbackFailed", "RollbackUnavailable", "FlowReplaceFailed"} :
                  Abandon(s, r)
             /\ reqs' = gone
    <3>1. PICK r \in {"RollbackFailed", "RollbackUnavailable", "FlowReplaceFailed"} : Abandon(s, r)
      BY <2>8
    <3>2. r \in Reasons
      BY DEF Reasons
    <3>3. Wrote(s.imported, s.art, s.req, NoRollout, s.last, s.lastRb, s.sync)
      BY <1>1, <2>6, <3>1, <3>2, AbandonWrites
    <3>4. Wrote(st.imported, st.art, f, NoRollout, st.last, st.lastRb, st.sync)
      BY <2>6, <3>3 DEF Shows
    <3> QED
      BY <1>1, <2>1, <2>6, <2>7, <2>8, <3>4, NothingTyped, GoingInv
  <2>9. CASE RetryAllowed /\ Save(Retrying(s)) /\ reqs' = gone
    <3>1. s.ro = st.ro
      BY <2>6 DEF Shows
    <3>2. /\ Retried.phase = "Preparing"
          /\ Wrote(s.imported, s.art, NoReq, Retried, s.last, s.lastRb, "Other")
      BY <1>1, <2>6, <2>9, <3>1, RetryWrites
    <3>3. Wrote(st.imported, st.art, NoReq, Retried, st.last, st.lastRb, "Other")
      BY <2>6, <3>2 DEF Shows
    <3> QED
      BY <1>1, <2>1, <2>7, <2>9, <3>2, <3>3, NothingTyped, GoingInv
  <2>10. CASE CanRollBack /\ StartRollback(s, gone)
    <3> DEFINE rb == [gen |-> gen, digest |-> st.req.target, completed |-> FALSE]
               ro == [EnsureActive("Rollback", st.last) EXCEPT !.phase = "RollingBack"]
               t == [s EXCEPT !.lastRb = rb, !.ro = ro]
               q == Request("Rollback", st.last)
    <3>1. \/ SaveFailed(s, "RollbackCreateFailed") /\ reqs' = gone
          \/ CreateRequest(gone, "Rollback", st.last) /\ Save(Replacing(t, q))
      BY <2>10 DEF StartRollback
    <3>2. rb \in Rollbacks /\ rb.completed = FALSE
      BY <1>1 DEF TypeOK, Statuses, Requests, Rollbacks
    <3>3. ro \in Rollouts /\ ro.phase = "RollingBack" /\ st.last \in Known
      <4>1. st.last \in Known /\ "RollingBack" \in Phases
        BY <1>1 DEF Statuses, Phases
      <4> QED
        BY <1>1, <4>1, ActiveTyped
    <3> HIDE DEF rb, ro
    <3>4. /\ t \in Statuses
          /\ Shows(t, st.imported, st.art, f, ro, st.last, rb, st.sync)
      BY <2>6, <3>2, <3>3 DEF Statuses, Shows
    <3> HIDE DEF t, q
    <3>5. CASE SaveFailed(s, "RollbackCreateFailed") /\ reqs' = gone
      <4>1. "RollbackCreateFailed" \in Reasons
        BY DEF Reasons
      <4>2. Wrote(s.imported, s.art, s.req, s.ro, s.last, s.lastRb, s.sync)
        BY <1>1, <2>6, <3>5, <4>1, Reported
      <4>3. Wrote(st.imported, st.art, f, st.ro, st.last, st.lastRb, st.sync)
        BY <2>6, <4>2 DEF Shows
      <4> QED
        BY <1>4, <2>1, <2>6, <2>7, <3>5, <4>3
    <3>6. CASE CreateRequest(gone, "Rollback", st.last) /\ Save(Replacing(t, q))
      <4>1. q \in Requests /\ q.failed = FALSE
        BY <1>1, <2>7, <3>3, <3>6, CreatedRequest DEF q
      <4>2. st' = Replacing(t, q)
        BY <1>1, <3>6, CalmSaves
      <4>3. /\ st'.ready = FALSE
            /\ Shows(st', st.imported, st.art, q, ro, st.last, rb, "Other")
        BY <3>4, <4>1, <4>2 DEF Replacing, NotReady, Statuses, Shows, Syncs
      <4> QED
        BY <1>1, <2>1, <3>2, <3>3, <4>1, <4>3, MadeInv
    <3> QED
      BY <3>1, <3>5, <3>6
  <2> QED
    BY <2>5, <2>8, <2>9, <2>10
<1>8. StartGroup => running' = TRUE
  BY <1>1 DEF StartGroup, RunInv, StoppedInv
<1>9. Forget => reqs'[st.req.id].state = "gone"
  BY <1>1, <1>2 DEF Forget, NifiRequests
<1>10. /\ Cleaned \in Statuses /\ Len(Cleaned.hist) <= HistoryLimit /\ Cleaned.req.id = 0
       /\ Shows(Cleaned, st.imported, st.art, Cleaned.req, st.ro, st.last, st.lastRb, st.sync)
  BY <1>1, CleanedTyped
<1>11. CASE CompletionFails
  <2>1. /\ "NiFiRefreshFailed" \in Reasons /\ "SnapshotMetadataFailed" \in Reasons
        /\ "FlowReplaceCleanupFailed" \in Reasons /\ "RolloutFinalizeFailed" \in Reasons
        /\ "RolloutCheckpointMissing" \in Reasons
    BY DEF Reasons
  <2>2. UNCHANGED <<content, backlog, nreq>>
    BY <1>11 DEF CompletionFails
  <2>3. CASE /\ UNCHANGED <<running, reqs>>
             /\ \/ SaveFailed(st, "NiFiRefreshFailed") \/ SaveFailed(st, "SnapshotMetadataFailed")
                \/ SaveFailed(st, "FlowReplaceCleanupFailed")
    BY <2>1, <2>2, <2>3, ReportedRun DEF nifi
  <2>4. CASE /\ Forget /\ (UNCHANGED running \/ StartGroup)
             /\ \/ SaveFailed(Cleaned, "RolloutFinalizeFailed")
                \/ SaveFailed(Cleaned, "RolloutCheckpointMissing")
    <3>1. Wrote(Cleaned.imported, Cleaned.art, Cleaned.req, Cleaned.ro, Cleaned.last,
                Cleaned.lastRb, Cleaned.sync)
      BY <1>1, <1>10, <2>1, <2>4, Reported
    <3>2. Wrote(st.imported, st.art, Cleaned.req, st.ro, st.last, st.lastRb, st.sync)
      BY <1>10, <3>1 DEF Shows
    <3> QED
      BY <1>4, <1>8, <1>9, <1>10, <2>2, <2>4, <3>2
  <2> QED
    BY <1>11, <2>3, <2>4 DEF CompletionFails
<1>12. CASE Complete
  <2>1. running' = TRUE /\ reqs'[st.req.id].state = "gone"
    BY <1>8, <1>9, <1>12 DEF Complete
  <2>2. st' = st \/ st'.req.id = 0
    <3> DEFINE ro == [EnsureActive("Rollout", st.req.target) EXCEPT !.phase = "AwaitingReadiness"]
               t == [st EXCEPT !.req = NoReq, !.sync = "Other", !.ro = ro]
    <3>1. \/ Save(NotReady(t, "AwaitingReadiness"))
          \/ FinalizeRollout(Cleaned, st.req.target)
      BY <1>12 DEF Complete
    <3> HIDE DEF ro
    <3>2. NotReady(t, "AwaitingReadiness").req = NoReq
      BY <1>1 DEF NotReady, Statuses
    <3> HIDE DEF t
    <3>3. CASE Save(NotReady(t, "AwaitingReadiness"))
      BY <3>2, <3>3, NothingTyped DEF Save
    <3>4. CASE FinalizeRollout(Cleaned, st.req.target)
      <4>1. st.req.target \in Digests
        BY <1>1, <1>2 DEF Targets
      <4>2. Cleaned.imported = st.imported /\ Cleaned.lastRb = st.lastRb
        BY <1>10 DEF Shows
      <4>3. \/ Wrote(Cleaned.imported, Cleaned.art, Cleaned.req, Cleaned.ro, Cleaned.last,
                     Cleaned.lastRb, Cleaned.sync)
            \/ InSyncWith(st.req.target) \/ st' = st
        BY <1>1, <1>10, <3>4, <4>1, <4>2, FinalizeWrites
      <4> QED
        BY <1>10, <4>3, NothingTyped DEF Wrote, InSyncWith, Shows
    <3> QED
      BY <3>1, <3>3, <3>4
  <2> QED
    BY <1>1, <2>1, <2>2, StartedInv
<1>13. CASE CompleteRollback
  <2>1. running' = TRUE /\ reqs'[st.req.id].state = "gone"
    BY <1>8, <1>9, <1>13 DEF CompleteRollback
  <2>2. Wrote(st.imported, st.last, NoReq, NoRollout, st.last,
              [st.lastRb EXCEPT !.completed = TRUE], "RolledBack")
    BY <1>1, <1>2, <1>13, RolledBackWrites
  <2>3. st' = st \/ st'.req.id = 0
    BY <2>2, NothingTyped DEF Wrote, Shows
  <2> QED
    BY <1>1, <2>1, <2>3, StartedInv
<1> QED
  BY <1>5, <1>6, <1>7, <1>11, <1>12, <1>13

\* The readiness gate is passed, or not, with the group running.
LEMMA ReadinessRun ==
  ASSUME RolloutInv, RunInv, UNCHANGED spec,
         ReadinessFails \/ ReadinessPasses \/ ReadinessExpires
  PROVE  RunInv'
<1>1. /\ TypeOK /\ st \in Statuses /\ Len(st.hist) <= HistoryLimit /\ want \in Digests
      /\ UNCHANGED cancel /\ running \in BOOLEAN
  BY DEF RolloutInv, TypeOK, spec
<1>2. AwaitingReadiness /\ UNCHANGED nifi
  BY DEF ReadinessFails, ReadinessPasses, ReadinessExpires
<1>3. st.req.id = 0 /\ running' = TRUE
  BY <1>1, <1>2 DEF AwaitingReadiness, RolloutInv, GateIdle, RunInv, StoppedInv, nifi
<1>4. st'.req.id = 0
  <2>1. "ReadinessTimeout" \in Reasons /\ "ReadinessCheckFailed" \in Reasons
    BY DEF Reasons
  <2>2. CASE ReadinessFails
    <3>1. Wrote(st.imported, st.art, st.req, st.ro, st.last, st.lastRb, st.sync)
      BY <1>1, <2>1, <2>2, FailureWrites DEF ReadinessFails
    <3> QED
      BY <1>3, <3>1 DEF Wrote, Shows
  <2>3. CASE ReadinessPasses
    <3>1. \/ Wrote(st.imported, st.art, st.req, st.ro, st.last, st.lastRb, st.sync)
          \/ InSyncWith(want) \/ st' = st
      BY <1>1, <2>3, FinalizeWrites DEF ReadinessPasses
    <3> QED
      BY <1>3, <3>1, NothingTyped DEF Wrote, InSyncWith, Shows
  <2>4. CASE ReadinessExpires
    <3>1. (RetryAllowed /\ Save(Retrying(st))) \/ Abandon(st, "ReadinessTimeout")
      BY <2>4 DEF ReadinessExpires
    <3>2. CASE RetryAllowed /\ Save(Retrying(st))
      <4>1. Wrote(st.imported, st.art, NoReq, Retried, st.last, st.lastRb, "Other")
        BY <1>1, <3>2, RetryWrites
      <4> QED
        BY <1>3, <4>1, NothingTyped DEF Wrote, Shows
    <3>3. CASE Abandon(st, "ReadinessTimeout")
      <4>1. Wrote(st.imported, st.art, st.req, NoRollout, st.last, st.lastRb, st.sync)
        BY <1>1, <2>1, <3>3, AbandonWrites
      <4> QED
        BY <1>3, <4>1 DEF Wrote, Shows
    <3> QED
      BY <3>1, <3>2, <3>3
  <2> QED
    BY <2>2, <2>3, <2>4
<1> QED
  BY <1>1, <1>3, <1>4, StartedInv

\* NiFi and the users.
LEMMA OutsideRun ==
  ASSUME Calm, RolloutInv, NoStrayRequest, RunInv, NiFiWorks \/ Environment
  PROVE  RunInv'
<1>1. /\ lost = 0 /\ cancels = 0 /\ want \in Digests /\ Foreign # want
      /\ reqs \in [ReqIds -> NifiRequests] /\ MaxCancels = 0
  BY DigestsAssumption DEF RolloutInv, TypeOK, Calm
<1>2. CASE NiFiWorks
  <2>1. PICK id \in ReqIds : RequestEnds(id)
    BY <1>2 DEF NiFiWorks
  <2>2. /\ UNCHANGED <<st, running, want, gen, cancel>> /\ reqs[id].state = "running"
        /\ \/ reqs' = [reqs EXCEPT ![id].state = "done"]
           \/ reqs' = [reqs EXCEPT ![id].state = "failed"] /\ content' \in {content, Foreign}
    BY <2>1 DEF RequestEnds, Env, spec
  <2>3. st.req.id = id /\ id # 0
    BY <1>1, <2>2, OnlyNamedRuns, BoundsAssumption DEF ReqIds
  <2>4. Active /\ ~st.req.failed /\ (st.art = want => content # want)
    BY <2>2, <2>3 DEF RunInv, PendingInv
  <2>5. StoppedInv'
    BY <2>2, <2>4 DEF RunInv, StoppedInv, Blocked, Active
  <2>6. \/ reqs'[id].state = "done"
        \/ content' \in {content, Foreign}
    BY <1>1, <2>2 DEF NifiRequests
  <2>7. PendingInv'
    BY <1>1, <2>2, <2>3, <2>4, <2>6 DEF PendingInv, Active
  <2> QED
    BY <2>2, <2>5, <2>7 DEF RunInv
<1>3. CASE NiFiRestarts
  <2>1. UNCHANGED <<st, running, want, gen, cancel>> /\ content' \in {content, Foreign}
    BY <1>3 DEF NiFiRestarts, Env, spec
  <2>2. \A id \in ReqIds : reqs'[id].state = "gone"
    BY <1>1, <1>3 DEF NiFiRestarts, NifiRequests
  <2>3. StoppedInv'
    BY <1>1, <2>1 DEF RunInv, StoppedInv, Blocked, Active
  <2>4. st.req.id # 0 => st.req.id \in ReqIds
    BY BoundsAssumption DEF RolloutInv, TypeOK, Statuses, Requests, ReqIds
  <2>5. PendingInv'
    BY <2>1, <2>2, <2>4 DEF RunInv, PendingInv, Active
  <2> QED
    BY <2>1, <2>3, <2>5 DEF RunInv
<1>4. CASE QueuesMove
  BY <1>4 DEF QueuesMove, Env, spec, RunInv, StoppedInv, PendingInv, Blocked, Active
<1>5. CASE EditCanvas
  BY <1>1, <1>5 DEF EditCanvas, Env, spec, RunInv, StoppedInv, PendingInv, Blocked, Active
<1>6. CASE FlipCancel
  BY <1>1, <1>6 DEF FlipCancel
<1>7. ASSUME NEW digest \in Digests, NEW bump \in {0, 1}, ChangeSource(digest, bump)
      PROVE  RunInv'
  <2>1. Settled /\ UNCHANGED <<st, running, cancel>>
    BY <1>7 DEF ChangeSource, Env, nifi, Calm
  <2>2. st'.req.id = 0 /\ running' = TRUE
    BY <2>1 DEF Settled, RunInv, StoppedInv, RolloutInv, TypeOK
  <2> QED
    BY <2>1, <2>2, StartedInv
<1> QED
  BY <1>2, <1>3, <1>4, <1>5, <1>6, <1>7 DEF Environment

\* The flow of a Ready deployment runs: whatever call fails and whenever NiFi forgets its
\* requests, no rollout ends with the group it stopped still stopped.
THEOREM ReadyIsRunning == ASSUME Calm PROVE Spec => []ReadyMeansRunning
<1>1. Init => RunInv
  BY NothingTyped DEF Init, RunInv, StoppedInv, PendingInv
<1>2. ASSUME RolloutInv, NoStrayRequest, RunInv, [Next]_vars
      PROVE  RunInv'
  <2>1. CASE Reconcile
    <3>1. Handler /\ UNCHANGED spec
      BY <2>1 DEF Reconcile
    <3> QED
      BY <1>2, <3>1, IdleRun, PrepareRun, PendingRun, ReadinessRun DEF Handler
  <2>2. CASE NiFiWorks \/ Environment
    BY <1>2, <2>2, OutsideRun
  <2>3. CASE BoundReached \/ UNCHANGED vars
    BY <1>2, <2>3 DEF BoundReached, vars, nifi, spec, RunInv, StoppedInv, PendingInv, Blocked, Active
  <2> QED
    BY <1>2, <2>1, <2>2, <2>3 DEF Next
<1>3. RolloutInv /\ NoStrayRequest /\ RunInv /\ [Next]_vars => RunInv'
  BY <1>2
<1>4. Spec => []NoStrayRequest
  BY NoStrayRequests DEF Calm
<1>5. RunInv => ReadyMeansRunning
  BY DEF RunInv, StoppedInv, ReadyMeansRunning
<1> QED
  BY <1>1, <1>3, <1>4, <1>5, RolloutInvariant, PTL DEF Spec

=============================================================================
