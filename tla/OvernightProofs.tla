-------------------------- MODULE OvernightProofs --------------------------
(***************************************************************************)
(* Machine-checked proofs about the two nightly commands.  Overnight: for  *)
(* every set of invocations, runs, users and sources, every plan and every *)
(* set of faults.  EmailOvernight: for every planned night, every user and *)
(* policy, every set of postings, e-mails, links and options.              *)
(***************************************************************************)
EXTENDS Overnight, EmailOvernight, SequenceTheorems, FiniteSetTheorems,
        WellFoundedInduction, TLAPS

-----------------------------------------------------------------------------
\* The row an enqueue names, and the row a claim picks, are rows.
LEMMA PlanJobIsJob ==
    ASSUME TypeOK, NEW p \in Procs, planned[p] < Len(PlanRows)
    PROVE  PlanJob(p) \in Jobs
<1>1. planned[p] + 1 \in 1..Len(PlanRows)
  BY DEF TypeOK
<1>2. PlanRows[planned[p] + 1] \in [user: Users, source: Sources]
  BY <1>1, ConstantsOK, ElementOfSeq DEF ConstantsOK
<1>3. RunOf[p] \in Runs
  BY ConstantsOK DEF ConstantsOK
<1> QED
  BY <1>2, <1>3 DEF PlanJob, Jobs

\* claim_next's subquery returns a pending row with no running sibling.
LEMMA NextClaimFresh ==
    ASSUME NEW j \in Jobs, NEW locked, NextClaim(j, locked)
    PROVE  /\ status[j] = "pending"
           /\ j \notin locked
           /\ \A k \in RowsIn("running") : k.source # j.source
BY DEF NextClaim, Claimable

-----------------------------------------------------------------------------
(* Types *)

\* The empty queue and the idle invocations are well typed.
LEMMA InitType == Init => TypeOK
<1> SUFFICES ASSUME Init PROVE TypeOK
  OBVIOUS
<1>1. QueueTypeOK
  BY DEF Init, QueueInit, QueueTypeOK, Statuses
<1>2. planned \in [Procs -> 0..Len(PlanRows)]
  BY ConstantsOK DEF ConstantsOK, Init
<1>3. pc \in [Procs -> Phases]
  BY DEF Init, Phases
<1> QED
  BY <1>1, <1>2, <1>3 DEF Init, TypeOK

\* The five statements keep the table well typed.
LEMMA EnqueueType ==
    ASSUME QueueTypeOK, NEW j \in Jobs, Enqueue(j)
    PROVE  QueueTypeOK'
<1>1. CASE status[j] = "absent"
  <2>1. status' \in [Jobs -> Statuses]
    BY <1>1 DEF QueueTypeOK, Enqueue, Statuses
  <2>2. inserted' \in Seq(Jobs)
    <3>1. inserted \in Seq(Jobs) /\ inserted' = Append(inserted, j)
      BY <1>1 DEF QueueTypeOK, Enqueue
    <3> QED
      BY <3>1, AppendProperties
  <2>3. attempts' \in [Jobs -> Nat]
    BY <1>1 DEF QueueTypeOK, Enqueue
  <2> QED
    BY <2>1, <2>2, <2>3 DEF QueueTypeOK
<1>2. CASE status[j] # "absent"
  BY <1>2 DEF QueueTypeOK, Enqueue, queueVars
<1> QED
  BY <1>1, <1>2

\* ... claim_next's UPDATE,
LEMMA LeaseType ==
    ASSUME QueueTypeOK, NEW j \in Jobs, Lease(j)
    PROVE  QueueTypeOK'
BY DEF QueueTypeOK, Lease, Statuses

\* ... mark_succeeded and mark_failed,
LEMMA MarkType ==
    ASSUME QueueTypeOK, NEW j, NEW s \in Statuses, Mark(j, s)
    PROVE  QueueTypeOK'
BY DEF QueueTypeOK, Mark

\* ... requeue_running,
LEMMA RequeueType ==
    ASSUME QueueTypeOK, NEW r, RequeueRunning(r)
    PROVE  QueueTypeOK'
BY DEF QueueTypeOK, RequeueRunning, Statuses

\* ... and a step that leaves the table alone.
LEMMA UnchangedQueueType ==
    ASSUME QueueTypeOK, UNCHANGED queueVars
    PROVE  QueueTypeOK'
BY DEF QueueTypeOK, queueVars

\* A process in the middle of a claim or of a job has picked a row.
Picked == \A p \in Procs : pc[p] \in {"claim"} \cup Holding => cur[p] \in Jobs

\* Nobody has picked a row at the start.
LEMMA InitPicked == Init => Picked
BY DEF Init, Picked, Holding

\* Every action keeps the types, and keeps a row in hand where one is needed.
LEMMA NextType == TypeOK /\ Picked /\ [Next]_vars => TypeOK' /\ Picked'
<1> SUFFICES ASSUME TypeOK, Picked, [Next]_vars
             PROVE  TypeOK' /\ Picked'
  OBVIOUS
<1> USE DEF Picked, Holding, Phases, Live, Goto
<1>0. QueueTypeOK
  BY DEF TypeOK
<1>1. ASSUME NEW p \in Procs, Start(p)
      PROVE  TypeOK' /\ Picked'
  BY <1>0, <1>1, UnchangedQueueType DEF TypeOK, Start, fanIn
<1>2. ASSUME NEW p \in Procs, Plan(p)
      PROVE  TypeOK' /\ Picked'
  <2>1. CASE planned[p] < Len(PlanRows)
    <3>1. QueueTypeOK'
      BY <1>0, <1>2, <2>1, PlanJobIsJob, EnqueueType DEF Plan
    <3>2. planned' \in [Procs -> 0..Len(PlanRows)]
      <4>1. planned[p] + 1 \in 0..Len(PlanRows)
        BY <2>1 DEF TypeOK
      <4> QED
        BY <1>2, <2>1, <4>1 DEF Plan, TypeOK
    <3> QED
      BY <1>2, <2>1, <3>1, <3>2 DEF TypeOK, Plan, fanIn
  <2>2. CASE ~(planned[p] < Len(PlanRows))
    <3>1. QueueTypeOK'
      BY <1>0, <1>2, <2>2, UnchangedQueueType DEF Plan
    <3> QED
      BY <1>2, <2>2, <3>1 DEF TypeOK, Plan, fanIn
  <2> QED
    BY <2>1, <2>2
<1>3. ASSUME NEW p \in Procs, ClaimBegin(p)
      PROVE  TypeOK' /\ Picked'
  BY <1>0, <1>3, UnchangedQueueType DEF TypeOK, ClaimBegin, fanIn
<1>4. ASSUME NEW p \in Procs, ClaimCommit(p)
      PROVE  TypeOK' /\ Picked'
  <2>1. QueueTypeOK'
    BY <1>0, <1>4, LeaseType DEF ClaimCommit
  <2> QED
    BY <1>4, <2>1 DEF TypeOK, ClaimCommit, fanIn
<1>5. ASSUME NEW p \in Procs, ClaimNone(p)
      PROVE  TypeOK' /\ Picked'
  BY <1>0, <1>5, UnchangedQueueType DEF TypeOK, ClaimNone, fanIn
<1>6. ASSUME NEW p \in Procs, PersistBegin(p)
      PROVE  TypeOK' /\ Picked'
  BY <1>0, <1>6, UnchangedQueueType DEF TypeOK, PersistBegin, fanIn
<1>7. ASSUME NEW p \in Procs, PersistEnd(p)
      PROVE  TypeOK' /\ Picked'
  BY <1>0, <1>7, UnchangedQueueType DEF TypeOK, PersistEnd, fanIn
<1>8. ASSUME NEW p \in Procs, MarkSucceeded(p)
      PROVE  TypeOK' /\ Picked'
  <2>1. QueueTypeOK'
    BY <1>0, <1>8, MarkType DEF MarkSucceeded, Statuses
  <2> QED
    BY <1>8, <2>1 DEF TypeOK, MarkSucceeded, fanIn
<1>9. ASSUME NEW p \in Procs, JobRaises(p)
      PROVE  TypeOK' /\ Picked'
  BY <1>0, <1>9, UnchangedQueueType DEF TypeOK, JobRaises, fanIn
<1>10. ASSUME NEW p \in Procs, MarkFailed(p)
       PROVE  TypeOK' /\ Picked'
  <2>1. QueueTypeOK'
    BY <1>0, <1>10, MarkType DEF MarkFailed, Statuses
  <2> QED
    BY <1>10, <2>1 DEF TypeOK, MarkFailed, fanIn
<1>11. ASSUME NEW p \in Procs, ConsolidateSelect(p)
       PROVE  TypeOK' /\ Picked'
  <2>1. QueueTypeOK'
    BY <1>0, <1>11, UnchangedQueueType DEF ConsolidateSelect
  <2>2. PICK ph \in {"dead", "upsert"} : pc' = [pc EXCEPT ![p] = ph]
    BY <1>11 DEF ConsolidateSelect
  <2>3. batch' \in [Procs -> SUBSET Jobs]
    BY <1>11 DEF ConsolidateSelect, SucceededRowsOf, TypeOK
  <2> QED
    BY <1>11, <2>1, <2>2, <2>3 DEF ConsolidateSelect, TypeOK
<1>12. ASSUME NEW p \in Procs, ConsolidateUpsert(p)
       PROVE  TypeOK' /\ Picked'
  <2>1. QueueTypeOK'
    BY <1>0, <1>12, UnchangedQueueType DEF ConsolidateUpsert
  <2>2. RunOf[p] \in Runs
    BY ConstantsOK DEF ConstantsOK
  <2>3. batch' \in [Procs -> SUBSET Jobs] /\ merged' \in [Runs -> SUBSET Jobs]
    <3>1. CASE batch[p] = {}
      BY <1>12, <3>1 DEF ConsolidateUpsert, TypeOK
    <3>2. CASE batch[p] # {}
      <4>1. PICK j \in batch[p] :
              /\ merged' = [merged EXCEPT ![RunOf[p]] = @ \cup {j}]
              /\ batch' = [batch EXCEPT ![p] = @ \ {j}]
        BY <1>12, <3>2 DEF ConsolidateUpsert
      <4>2. batch[p] \subseteq Jobs /\ merged[RunOf[p]] \subseteq Jobs
        BY <2>2 DEF TypeOK
      <4>3. merged[RunOf[p]] \cup {j} \in SUBSET Jobs
        BY <4>2
      <4>4. batch[p] \ {j} \in SUBSET Jobs
        BY <4>2
      <4>5. merged' \in [Runs -> SUBSET Jobs]
        BY <4>1, <4>3 DEF TypeOK
      <4>6. batch' \in [Procs -> SUBSET Jobs]
        BY <4>1, <4>4 DEF TypeOK
      <4> QED
        BY <4>5, <4>6
    <3> QED
      BY <3>1, <3>2
  <2> QED
    BY <1>12, <2>1, <2>3 DEF TypeOK, ConsolidateUpsert
<1>13. ASSUME NEW p \in Procs, Interrupt(p)
       PROVE  TypeOK' /\ Picked'
  <2>1. QueueTypeOK'
    BY <1>0, <1>13, LeaseType, UnchangedQueueType DEF Interrupt, ClaimOutcome
  <2> QED
    BY <1>13, <2>1 DEF TypeOK, Interrupt
<1>14. ASSUME NEW p \in Procs, Requeue(p)
       PROVE  TypeOK' /\ Picked'
  <2>1. QueueTypeOK'
    BY <1>0, <1>14, RequeueType DEF Requeue
  <2> QED
    BY <1>14, <2>1 DEF TypeOK, Requeue, fanIn
<1>15. ASSUME NEW p \in Procs, RequeueFails(p)
       PROVE  TypeOK' /\ Picked'
  BY <1>0, <1>15, UnchangedQueueType DEF TypeOK, RequeueFails, fanIn
<1>16. ASSUME NEW p \in Procs, Crash(p)
       PROVE  TypeOK' /\ Picked'
  <2>1. QueueTypeOK'
    BY <1>0, <1>16, LeaseType, UnchangedQueueType DEF Crash, ClaimOutcome
  <2> QED
    BY <1>16, <2>1 DEF TypeOK, Crash
<1>17. ASSUME NEW p \in Procs, Score(p)
       PROVE  TypeOK' /\ Picked'
  BY <1>0, <1>17, UnchangedQueueType DEF TypeOK, Score, fanIn
<1>18. ASSUME UNCHANGED vars
       PROVE  TypeOK' /\ Picked'
  <2>1. QueueTypeOK'
    BY <1>0, <1>18, UnchangedQueueType DEF vars
  <2> QED
    BY <1>18, <2>1 DEF TypeOK, vars
<1> QED
  BY <1>1, <1>2, <1>3, <1>4, <1>5, <1>6, <1>7, <1>8, <1>9, <1>10, <1>11,
     <1>12, <1>13, <1>14, <1>15, <1>16, <1>17, <1>18
     DEF Next, Work

\* Whatever faults happen and however invocations overlap, the table, the run
\* directories and the fan-in table stay well typed (queue.py, worker.py).
THEOREM TypeCorrect == Spec => []TypeOK
<1>1. Init => TypeOK /\ Picked
  BY InitType, InitPicked
<1>2. TypeOK /\ Picked /\ [Next]_vars => (TypeOK /\ Picked)'
  BY NextType
<1> QED
  BY <1>1, <1>2, PTL DEF Spec

-----------------------------------------------------------------------------
(* Invocations that do not overlap *)

\* No two invocations are alive at once.
OneLive ==
    \A p, q \in Procs : pc[p] \in Live /\ pc[q] \in Live => p = q

\* Between the snapshot of claim_next's subquery and its UPDATE the picked row
\* stays claimable.
ClaimFresh ==
    \A p \in Procs : pc[p] = "claim" =>
        /\ cur[p] \in Jobs
        /\ status[cur[p]] = "pending"
        /\ \A k \in RowsIn("running") : k.source # cur[p].source

\* The row process_job works on stays leased.
HoldsLease ==
    \A p \in Procs : pc[p] \in Holding =>
        cur[p] \in Jobs /\ status[cur[p]] = "running"

\* The part of the invariant about leases.  SourceSerialized alone is not
\* inductive: that the row about to be leased has no running sibling is
\* ClaimFresh, which in turn needs that nobody else is at work.
LeaseInv == OneLive /\ ClaimFresh /\ HoldsLease /\ SourceSerialized

\* At the start nobody is alive and no row is leased.
LEMMA InitLease == Init => LeaseInv
BY DEF Init, QueueInit, LeaseInv, OneLive, ClaimFresh, HoldsLease,
       SourceSerialized, RowsIn, Live, Holding

\* What a step of a live invocation finds about all the others.
LEMMA OthersNotLive ==
    ASSUME OneLive, NEW p \in Procs, pc[p] \in Live
    PROVE  \A q \in Procs : q # p => pc[q] \notin Live
BY DEF OneLive

\* A lease taken on a fresh row keeps sources serialized.
LEMMA LeaseKeepsSerial ==
    ASSUME QueueTypeOK, SourceSerialized, NEW j \in Jobs, Lease(j),
           \A k \in RowsIn("running") : k.source # j.source
    PROVE  SourceSerialized'
BY DEF QueueTypeOK, SourceSerialized, RowsIn, Lease

\* A statement that makes no row running keeps sources serialized.
LEMMA FewerRunningKeepsSerial ==
    ASSUME SourceSerialized, RowsIn("running")' \subseteq RowsIn("running")
    PROVE  SourceSerialized'
BY DEF SourceSerialized

\* A step of the live invocation that leaves it with no row to claim or to work
\* on keeps everything but the serialization, whatever it does to the table.
LEMMA EmptyHandedStep ==
    ASSUME TypeOK, OneLive, NEW p \in Procs, pc[p] \in Live,
           NEW ph \in Phases \ ({"claim"} \cup Holding),
           pc' = [pc EXCEPT ![p] = ph]
    PROVE  OneLive' /\ ClaimFresh' /\ HoldsLease'
<1>1. \A q \in Procs : q # p => pc[q] \notin Live
  BY OthersNotLive
<1>2. OneLive'
  BY <1>1 DEF TypeOK, OneLive
<1>3. ClaimFresh' /\ HoldsLease'
  BY <1>1 DEF TypeOK, ClaimFresh, HoldsLease, Live, Holding
<1> QED
  BY <1>2, <1>3

\* A step of the live invocation inside process_job: the table is untouched.
LEMMA JobStep ==
    ASSUME TypeOK, LeaseInv, NEW p \in Procs, pc[p] \in Holding,
           NEW ph \in Holding, pc' = [pc EXCEPT ![p] = ph],
           UNCHANGED <<queueVars, cur>>
    PROVE  LeaseInv'
<1>1. \A q \in Procs : q # p => pc[q] \notin Live
  BY OthersNotLive DEF LeaseInv, Live
<1>2. OneLive' /\ ClaimFresh' /\ HoldsLease'
  BY <1>1 DEF LeaseInv, TypeOK, OneLive, ClaimFresh, HoldsLease, Live,
              Holding, queueVars, RowsIn
<1>3. SourceSerialized'
  BY FewerRunningKeepsSerial DEF LeaseInv, queueVars, RowsIn
<1> QED
  BY <1>2, <1>3 DEF LeaseInv

\* The claim of an invocation that stops may still commit.
LEMMA ClaimOutcomeKeepsSerial ==
    ASSUME QueueTypeOK, LeaseInv, NEW p \in Procs, ClaimOutcome(p)
    PROVE  SourceSerialized'
<1>1. CASE UNCHANGED queueVars
  BY <1>1, FewerRunningKeepsSerial DEF LeaseInv, queueVars, RowsIn
<1>2. CASE pc[p] = "claim" /\ Lease(cur[p])
  BY <1>2, LeaseKeepsSerial DEF LeaseInv, ClaimFresh
<1> QED
  BY <1>1, <1>2 DEF ClaimOutcome

\* Every step of an invocation that is alone keeps the leases in order.
LEMMA NextLease ==
    ASSUME ~Overlap, TypeOK, LeaseInv, [Next]_vars
    PROVE  LeaseInv'
<1> USE DEF Goto
<1>0. QueueTypeOK /\ OneLive /\ SourceSerialized
  BY DEF TypeOK, LeaseInv
<1>1. ASSUME NEW p \in Procs, Start(p)
      PROVE  LeaseInv'
  <2>1. \A q \in Procs : pc[q] \notin Live
    BY <1>1 DEF Start, LiveProcs
  <2>2. OneLive' /\ ClaimFresh' /\ HoldsLease'
    BY <1>1, <2>1 DEF Start, TypeOK, OneLive, ClaimFresh, HoldsLease, Live,
                      Holding
  <2>3. SourceSerialized'
    BY <1>0, <1>1, FewerRunningKeepsSerial DEF Start, queueVars, RowsIn
  <2> QED
    BY <2>2, <2>3 DEF LeaseInv
<1>2. ASSUME NEW p \in Procs, Plan(p)
      PROVE  LeaseInv'
  <2>1. PICK ph \in {"plan", "work"} : pc' = [pc EXCEPT ![p] = ph]
    BY <1>2 DEF Plan, TypeOK
  <2>2. OneLive' /\ ClaimFresh' /\ HoldsLease'
    BY <1>0, <1>2, <2>1, EmptyHandedStep DEF Plan, Live, Holding, Phases
  <2>3. RowsIn("running")' \subseteq RowsIn("running")
    BY <1>0, <1>2 DEF Plan, Enqueue, queueVars, QueueTypeOK, RowsIn
  <2> QED
    BY <1>0, <2>2, <2>3, FewerRunningKeepsSerial DEF LeaseInv
<1>3. ASSUME NEW p \in Procs, ClaimBegin(p)
      PROVE  LeaseInv'
  <2>1. PICK j \in Jobs : /\ NextClaim(j, Locked)
                          /\ cur' = [cur EXCEPT ![p] = j]
    BY <1>3 DEF ClaimBegin
  <2>2. status[j] = "pending" /\ \A k \in RowsIn("running") : k.source # j.source
    BY <2>1, NextClaimFresh
  <2>3. \A q \in Procs : q # p => pc[q] \notin Live
    BY <1>0, <1>3, OthersNotLive DEF ClaimBegin, Live
  <2>4. UNCHANGED queueVars /\ pc' = [pc EXCEPT ![p] = "claim"]
    BY <1>3 DEF ClaimBegin
  <2>5. OneLive' /\ ClaimFresh' /\ HoldsLease'
    BY <2>1, <2>2, <2>3, <2>4
       DEF TypeOK, OneLive, ClaimFresh, HoldsLease, Live, Holding, queueVars,
           RowsIn
  <2>6. SourceSerialized'
    BY <1>0, <2>4, FewerRunningKeepsSerial DEF queueVars, RowsIn
  <2> QED
    BY <2>5, <2>6 DEF LeaseInv
<1>4. ASSUME NEW p \in Procs, ClaimCommit(p)
      PROVE  LeaseInv'
  <2>1. /\ cur[p] \in Jobs
        /\ \A k \in RowsIn("running") : k.source # cur[p].source
    BY <1>4 DEF ClaimCommit, LeaseInv, ClaimFresh
  <2>2. SourceSerialized'
    BY <1>0, <1>4, <2>1, LeaseKeepsSerial DEF ClaimCommit
  <2>3. \A q \in Procs : q # p => pc[q] \notin Live
    BY <1>0, <1>4, OthersNotLive DEF ClaimCommit, Live
  <2>4. OneLive' /\ ClaimFresh' /\ HoldsLease'
    BY <1>0, <1>4, <2>1, <2>3
       DEF ClaimCommit, Lease, TypeOK, QueueTypeOK, OneLive, ClaimFresh,
           HoldsLease, Live, Holding
  <2> QED
    BY <2>2, <2>4 DEF LeaseInv
<1>5. ASSUME NEW p \in Procs, ClaimNone(p) \/ Score(p)
      PROVE  LeaseInv'
  <2>1. OneLive' /\ ClaimFresh' /\ HoldsLease'
    BY <1>0, <1>5, EmptyHandedStep DEF ClaimNone, Score, Live, Holding, Phases
  <2> QED
    BY <1>0, <1>5, <2>1, FewerRunningKeepsSerial
       DEF ClaimNone, Score, queueVars, RowsIn, LeaseInv
<1>6. ASSUME NEW p \in Procs, PersistBegin(p) \/ PersistEnd(p) \/ JobRaises(p)
      PROVE  LeaseInv'
  <2>1. pc[p] \in Holding /\ UNCHANGED <<queueVars, cur>>
    BY <1>6 DEF PersistBegin, PersistEnd, JobRaises, Holding
  <2>2. PICK ph \in Holding : pc' = [pc EXCEPT ![p] = ph]
    BY <1>6 DEF PersistBegin, PersistEnd, JobRaises, Holding
  <2> QED
    BY <2>1, <2>2, JobStep
<1>7. ASSUME NEW p \in Procs, MarkSucceeded(p) \/ MarkFailed(p)
      PROVE  LeaseInv'
  <2>1. OneLive' /\ ClaimFresh' /\ HoldsLease'
    BY <1>0, <1>7, EmptyHandedStep
       DEF MarkSucceeded, MarkFailed, Live, Holding, Phases
  <2>2. RowsIn("running")' \subseteq RowsIn("running")
    BY <1>0, <1>7 DEF MarkSucceeded, MarkFailed, Mark, QueueTypeOK, RowsIn
  <2> QED
    BY <1>0, <2>1, <2>2, FewerRunningKeepsSerial DEF LeaseInv
<1>8. ASSUME NEW p \in Procs, ConsolidateSelect(p)
      PROVE  LeaseInv'
  <2>1. PICK ph \in {"dead", "upsert"} : pc' = [pc EXCEPT ![p] = ph]
    BY <1>8 DEF ConsolidateSelect
  <2>2. OneLive' /\ ClaimFresh' /\ HoldsLease'
    BY <1>0, <1>8, <2>1, EmptyHandedStep
       DEF ConsolidateSelect, Live, Holding, Phases
  <2> QED
    BY <1>0, <1>8, <2>2, FewerRunningKeepsSerial
       DEF ConsolidateSelect, queueVars, RowsIn, LeaseInv
<1>9. ASSUME NEW p \in Procs, ConsolidateUpsert(p)
      PROVE  LeaseInv'
  <2>1. PICK ph \in {"upsert", "score"} : pc' = [pc EXCEPT ![p] = ph]
    BY <1>9 DEF ConsolidateUpsert, TypeOK
  <2>2. OneLive' /\ ClaimFresh' /\ HoldsLease'
    BY <1>0, <1>9, <2>1, EmptyHandedStep
       DEF ConsolidateUpsert, Live, Holding, Phases
  <2> QED
    BY <1>0, <1>9, <2>2, FewerRunningKeepsSerial
       DEF ConsolidateUpsert, queueVars, RowsIn, LeaseInv
<1>10. ASSUME NEW p \in Procs, Requeue(p) \/ RequeueFails(p)
       PROVE  LeaseInv'
  <2>1. OneLive' /\ ClaimFresh' /\ HoldsLease'
    BY <1>0, <1>10, EmptyHandedStep
       DEF Requeue, RequeueFails, Live, Holding, Phases
  <2>2. RowsIn("running")' \subseteq RowsIn("running")
    BY <1>0, <1>10
       DEF Requeue, RequeueFails, RequeueRunning, queueVars, QueueTypeOK, RowsIn
  <2> QED
    BY <1>0, <2>1, <2>2, FewerRunningKeepsSerial DEF LeaseInv
<1>11. ASSUME NEW p \in Procs, Interrupt(p) \/ Crash(p)
       PROVE  LeaseInv'
  <2>1. PICK ph \in {"stopping", "dead"} : pc' = [pc EXCEPT ![p] = ph]
    BY <1>11 DEF Interrupt, Crash
  <2>2. OneLive' /\ ClaimFresh' /\ HoldsLease'
    BY <1>0, <1>11, <2>1, EmptyHandedStep
       DEF Interrupt, Crash, Live, Holding, Phases
  <2>3. SourceSerialized'
    BY <1>0, <1>11, ClaimOutcomeKeepsSerial DEF Interrupt, Crash
  <2> QED
    BY <2>2, <2>3 DEF LeaseInv
<1>12. ASSUME UNCHANGED vars
       PROVE  LeaseInv'
  BY <1>12 DEF vars, queueVars, LeaseInv, OneLive, ClaimFresh, HoldsLease,
               SourceSerialized, RowsIn
<1> QED
  BY <1>1, <1>2, <1>3, <1>4, <1>5, <1>6, <1>7, <1>8, <1>9, <1>10, <1>11, <1>12
     DEF Next, Work

\* The lease invariant holds in every state of a serial behaviour.
LEMMA LeaseInvariant == ~Overlap /\ Spec => []LeaseInv
<1> SUFFICES ASSUME ~Overlap PROVE Spec => []LeaseInv
  OBVIOUS
<1>1. TypeOK /\ LeaseInv /\ [Next]_vars => LeaseInv'
  BY NextLease
<1> QED
  BY <1>1, InitLease, TypeCorrect, PTL DEF Spec

\* While invocations do not overlap, no two running rows share a source, through
\* crashes, interrupts, lost requeues and any number of reruns (queue.py:8-9).
THEOREM SerialSources == ~Overlap /\ Spec => []SourceSerialized
<1>1. LeaseInv => SourceSerialized
  BY DEF LeaseInv
<1> QED
  BY <1>1, LeaseInvariant, PTL

-----------------------------------------------------------------------------
(* The table implements the ledger *)

\* The empty queue is the empty ledger.
LEMMA InitLedger == Init => Ledger!Init
BY DEF Init, QueueInit, Ledger!Init

\* Each statement on the table is a step of the ledger or leaves it alone.
LEMMA EnqueueIsPlan ==
    ASSUME NEW j \in Jobs, Enqueue(j)
    PROVE  [Ledger!Next]_status
BY DEF Enqueue, queueVars, Ledger!Next, Ledger!Plan

\* claim_next's UPDATE of a fresh row is a lease of the ledger.
LEMMA LeaseIsLease ==
    ASSUME NEW j \in Jobs, Lease(j), status[j] = "pending",
           \A k \in RowsIn("running") : k.source # j.source
    PROVE  [Ledger!Next]_status
BY DEF Lease, RowsIn, SourceOfJob, Ledger!Next, Ledger!Lease

\* mark_succeeded and mark_failed end a lease.
LEMMA MarkIsFinish ==
    ASSUME NEW j \in Jobs, NEW s \in {"succeeded", "failed"}, Mark(j, s),
           status[j] = "running"
    PROVE  [Ledger!Next]_status
BY DEF Mark, Ledger!Next, Ledger!Finish

\* requeue_running gives back the leases of one run.
LEMMA RequeueIsGiveBack ==
    ASSUME QueueTypeOK, NEW r, RequeueRunning(r)
    PROVE  [Ledger!Next]_status
<1> DEFINE S == {j \in Jobs : j.run = r /\ status[j] = "running"}
<1>1. S \in SUBSET Jobs /\ \A j \in S : status[j] = "running"
  OBVIOUS
<1>2. status' = [j \in Jobs |-> IF j \in S THEN "pending" ELSE status[j]]
  BY DEF RequeueRunning
<1>3. Ledger!GiveBack(S)
  BY <1>1, <1>2 DEF Ledger!GiveBack
<1> QED
  BY <1>1, <1>3 DEF Ledger!Next

\* A claim in flight when its process stops is a lease or nothing.
LEMMA ClaimOutcomeIsLease ==
    ASSUME LeaseInv, NEW p \in Procs, ClaimOutcome(p)
    PROVE  [Ledger!Next]_status
<1>1. CASE UNCHANGED queueVars
  BY <1>1 DEF queueVars
<1>2. CASE pc[p] = "claim" /\ Lease(cur[p])
  BY <1>2, LeaseIsLease DEF LeaseInv, ClaimFresh
<1> QED
  BY <1>1, <1>2 DEF ClaimOutcome

\* Every step of Overnight is a step of the ledger or leaves it alone.
LEMMA NextLedger ==
    ASSUME TypeOK, LeaseInv, [Next]_vars
    PROVE  [Ledger!Next]_status
<1>1. ASSUME NEW p \in Procs, Plan(p)
      PROVE  [Ledger!Next]_status
  <2>1. CASE planned[p] < Len(PlanRows)
    BY <1>1, <2>1, PlanJobIsJob, EnqueueIsPlan DEF Plan
  <2>2. CASE ~(planned[p] < Len(PlanRows))
    BY <1>1, <2>2 DEF Plan, queueVars
  <2> QED
    BY <2>1, <2>2
<1>2. ASSUME NEW p \in Procs, ClaimCommit(p)
      PROVE  [Ledger!Next]_status
  BY <1>2, LeaseIsLease DEF ClaimCommit, LeaseInv, ClaimFresh
<1>3. ASSUME NEW p \in Procs, MarkSucceeded(p)
      PROVE  [Ledger!Next]_status
  BY <1>3, MarkIsFinish DEF MarkSucceeded, LeaseInv, HoldsLease, Holding
<1>4. ASSUME NEW p \in Procs, MarkFailed(p)
      PROVE  [Ledger!Next]_status
  BY <1>4, MarkIsFinish DEF MarkFailed, LeaseInv, HoldsLease, Holding
<1>5. ASSUME NEW p \in Procs, Requeue(p)
      PROVE  [Ledger!Next]_status
  BY <1>5, RequeueIsGiveBack DEF Requeue, TypeOK
<1>6. ASSUME NEW p \in Procs, Interrupt(p) \/ Crash(p)
      PROVE  [Ledger!Next]_status
  BY <1>6, ClaimOutcomeIsLease DEF Interrupt, Crash
<1>7. ASSUME NEW p \in Procs,
             \/ Start(p) \/ ClaimBegin(p) \/ ClaimNone(p) \/ PersistBegin(p)
             \/ PersistEnd(p) \/ JobRaises(p) \/ ConsolidateSelect(p)
             \/ ConsolidateUpsert(p) \/ Score(p) \/ RequeueFails(p)
      PROVE  [Ledger!Next]_status
  BY <1>7 DEF Start, ClaimBegin, ClaimNone, PersistBegin, PersistEnd,
              JobRaises, ConsolidateSelect, ConsolidateUpsert, Score,
              RequeueFails, queueVars
<1>8. CASE UNCHANGED vars
  BY <1>8 DEF vars, queueVars
<1> QED
  BY <1>1, <1>2, <1>3, <1>4, <1>5, <1>6, <1>7, <1>8 DEF Next, Work

\* While invocations do not overlap, queue.py's table implements JobLedger: no
\* row is leased twice at once, none is finished without a lease, and no
\* finished row is taken back.
THEOREM ImplementsLedger == ~Overlap /\ Spec => LedgerSpec
<1> SUFFICES ASSUME ~Overlap PROVE Spec => LedgerSpec
  OBVIOUS
<1>1. TypeOK /\ LeaseInv /\ [Next]_vars => [Ledger!Next]_status
  BY NextLedger
<1> QED
  BY <1>1, InitLedger, TypeCorrect, LeaseInvariant, PTL
     DEF Spec, LedgerSpec, Ledger!Spec

-----------------------------------------------------------------------------
(* Files and the fan-in *)

\* The file a job is about to be marked succeeded for is complete.
FileReady == \A p \in Procs : pc[p] = "mark" => file[cur[p]] = "whole"

\* Rows read by consolidate_run and not yet upserted stay succeeded.
BatchSucceeded ==
    \A p \in Procs : \A j \in batch[p] :
        j.run = RunOf[p] /\ status[j] = "succeeded"

FanInv == FileReady /\ SucceededFileWhole /\ BatchSucceeded /\ MergedRowsSucceeded

\* No file, no succeeded row and no fan-in at the start.
LEMMA InitFan == Init => FanInv
BY DEF Init, QueueInit, FanInv, FileReady, SucceededFileWhole, BatchSucceeded,
       MergedRowsSucceeded, RowsIn

\* A step that takes no row out of succeeded keeps what is backed by one.
LEMMA SucceededStays ==
    ASSUME BatchSucceeded, MergedRowsSucceeded, UNCHANGED <<batch, merged>>,
           TypeOK,
           \A j \in Jobs : status[j] = "succeeded" => status'[j] = "succeeded"
    PROVE  BatchSucceeded' /\ MergedRowsSucceeded'
<1>1. BatchSucceeded'
  BY DEF BatchSucceeded, TypeOK
<1>2. MergedRowsSucceeded'
  BY DEF MergedRowsSucceeded, TypeOK
<1> QED
  BY <1>1, <1>2

\* No statement on the table makes or unmakes a succeeded row but mark_succeeded.
SameSucceeded == \A j \in Jobs : status'[j] = "succeeded" <=> status[j] = "succeeded"

\* An enqueue succeeds no row and un-succeeds none,
LEMMA EnqueueKeepsSucceeded ==
    ASSUME QueueTypeOK, NEW k \in Jobs, Enqueue(k)
    PROVE  SameSucceeded
BY DEF QueueTypeOK, Enqueue, queueVars, SameSucceeded

\* ... nor does a lease,
LEMMA ClaimKeepsSucceeded ==
    ASSUME QueueTypeOK, LeaseInv, NEW p \in Procs, pc[p] = "claim", Lease(cur[p])
    PROVE  SameSucceeded
BY DEF QueueTypeOK, LeaseInv, ClaimFresh, Lease, SameSucceeded

\* ... nor does a claim in flight when its process stops.
LEMMA ClaimOutcomeKeepsSucceeded ==
    ASSUME QueueTypeOK, LeaseInv, NEW p \in Procs, ClaimOutcome(p)
    PROVE  SameSucceeded
BY ClaimKeepsSucceeded DEF ClaimOutcome, queueVars, SameSucceeded

\* A step that changes neither files, nor fan-in, nor what has succeeded.
LEMMA FanUntouched ==
    ASSUME TypeOK, FanInv, SameSucceeded, UNCHANGED <<file, batch, merged>>,
           FileReady'
    PROVE  FanInv'
<1>1. BatchSucceeded' /\ MergedRowsSucceeded'
  BY SucceededStays DEF FanInv, SameSucceeded
<1>2. SucceededFileWhole'
  BY DEF FanInv, SucceededFileWhole, RowsIn, SameSucceeded
<1> QED
  BY <1>1, <1>2 DEF FanInv

\* Every step keeps the files whole and the fan-in backed.
LEMMA NextFan ==
    ASSUME TypeOK, LeaseInv, FanInv, [Next]_vars
    PROVE  FanInv'
<1> USE DEF Goto
<1>0. QueueTypeOK
  BY DEF TypeOK
<1>1. ASSUME NEW p \in Procs,
             \/ Start(p) \/ ClaimBegin(p) \/ ClaimNone(p) \/ JobRaises(p)
             \/ Score(p) \/ RequeueFails(p)
      PROVE  FanInv'
  <2>1. SameSucceeded /\ UNCHANGED <<file, batch, merged>>
    BY <1>1 DEF Start, ClaimBegin, ClaimNone, JobRaises, Score,
                RequeueFails, queueVars, fanIn, SameSucceeded
  <2>2. FileReady'
    BY <1>1 DEF Start, ClaimBegin, ClaimNone, JobRaises, Score,
                RequeueFails, TypeOK, FanInv, FileReady
  <2> QED
    BY <2>1, <2>2, FanUntouched
<1>2. ASSUME NEW p \in Procs, Plan(p)
      PROVE  FanInv'
  <2>1. SameSucceeded
    BY <1>0, <1>2, PlanJobIsJob, EnqueueKeepsSucceeded
       DEF Plan, queueVars, SameSucceeded
  <2>2. FileReady'
    BY <1>2 DEF Plan, TypeOK, FanInv, FileReady
  <2> QED
    BY <1>2, <2>1, <2>2, FanUntouched DEF Plan, fanIn
<1>3. ASSUME NEW p \in Procs, ClaimCommit(p)
      PROVE  FanInv'
  <2>1. SameSucceeded
    BY <1>0, <1>3, ClaimKeepsSucceeded DEF ClaimCommit
  <2>2. FileReady'
    BY <1>3 DEF ClaimCommit, TypeOK, FanInv, FileReady
  <2> QED
    BY <1>3, <2>1, <2>2, FanUntouched DEF ClaimCommit, fanIn
<1>4. ASSUME NEW p \in Procs, PersistBegin(p) \/ PersistEnd(p)
      PROVE  FanInv'
  <2>1. cur[p] \in Jobs /\ status[cur[p]] = "running"
    BY <1>4 DEF PersistBegin, PersistEnd, LeaseInv, HoldsLease, Holding
  <2>2. \A q \in Procs : q # p => pc[q] # "mark"
    BY <1>4 DEF PersistBegin, PersistEnd, LeaseInv, OneLive, Live, Holding
  <2>3. UNCHANGED <<status, batch, merged, cur>>
    BY <1>4 DEF PersistBegin, PersistEnd, queueVars, fanIn
  <2>4. FileReady'
    BY <1>4, <2>1, <2>2, <2>3 DEF PersistBegin, PersistEnd, TypeOK, FileReady
  <2>5. SucceededFileWhole'
    BY <1>4, <2>1, <2>3
       DEF PersistBegin, PersistEnd, TypeOK, FanInv, SucceededFileWhole, RowsIn
  <2>6. BatchSucceeded' /\ MergedRowsSucceeded'
    BY <2>3, SucceededStays DEF FanInv
  <2> QED
    BY <2>4, <2>5, <2>6 DEF FanInv
<1>5. ASSUME NEW p \in Procs, MarkSucceeded(p)
      PROVE  FanInv'
  <2>1. cur[p] \in Jobs /\ file[cur[p]] = "whole"
    BY <1>5 DEF MarkSucceeded, LeaseInv, HoldsLease, Holding, FanInv, FileReady
  <2>2. FileReady'
    BY <1>5 DEF MarkSucceeded, TypeOK, FanInv, FileReady
  <2>3. SucceededFileWhole'
    BY <1>0, <1>5, <2>1
       DEF MarkSucceeded, Mark, QueueTypeOK, FanInv, SucceededFileWhole, RowsIn
  <2>4. \A j \in Jobs : status[j] = "succeeded" => status'[j] = "succeeded"
    BY <1>0, <1>5 DEF MarkSucceeded, Mark, QueueTypeOK
  <2>5. BatchSucceeded' /\ MergedRowsSucceeded'
    BY <1>5, <2>4, SucceededStays DEF FanInv, MarkSucceeded, fanIn
  <2> QED
    BY <2>2, <2>3, <2>5 DEF FanInv
<1>6. ASSUME NEW p \in Procs, MarkFailed(p)
      PROVE  FanInv'
  <2>1. SameSucceeded
    BY <1>0, <1>6 DEF MarkFailed, Mark, QueueTypeOK, LeaseInv, HoldsLease,
                      Holding, SameSucceeded
  <2>2. FileReady'
    BY <1>6 DEF MarkFailed, TypeOK, FanInv, FileReady
  <2> QED
    BY <1>6, <2>1, <2>2, FanUntouched DEF MarkFailed, fanIn
<1>7. ASSUME NEW p \in Procs, ConsolidateSelect(p)
      PROVE  FanInv'
  <2>1. FileReady' /\ SucceededFileWhole' /\ MergedRowsSucceeded'
    BY <1>7 DEF ConsolidateSelect, queueVars, TypeOK, FanInv, FileReady,
                SucceededFileWhole, MergedRowsSucceeded, RowsIn
  <2>2. BatchSucceeded'
    BY <1>7 DEF ConsolidateSelect, queueVars, TypeOK, FanInv, BatchSucceeded,
                SucceededRowsOf
  <2> QED
    BY <2>1, <2>2 DEF FanInv
<1>8. ASSUME NEW p \in Procs, ConsolidateUpsert(p)
      PROVE  FanInv'
  <2>1. FileReady' /\ SucceededFileWhole'
    BY <1>8 DEF ConsolidateUpsert, queueVars, TypeOK, FanInv, FileReady,
                SucceededFileWhole, RowsIn
  <2>2. CASE batch[p] = {}
    BY <1>8, <2>1, <2>2
       DEF ConsolidateUpsert, queueVars, FanInv, BatchSucceeded,
           MergedRowsSucceeded
  <2>3. CASE batch[p] # {}
    <3>1. PICK j \in batch[p] :
            /\ merged' = [merged EXCEPT ![RunOf[p]] = @ \cup {j}]
            /\ batch' = [batch EXCEPT ![p] = @ \ {j}]
      BY <1>8, <2>3 DEF ConsolidateUpsert
    <3>2. j.run = RunOf[p] /\ status[j] = "succeeded"
      BY DEF FanInv, BatchSucceeded
    <3>3. UNCHANGED status
      BY <1>8 DEF ConsolidateUpsert, queueVars
    <3>4. BatchSucceeded'
      BY <3>1, <3>3 DEF TypeOK, FanInv, BatchSucceeded
    <3>5. MergedRowsSucceeded'
      BY <3>1, <3>2, <3>3 DEF TypeOK, FanInv, MergedRowsSucceeded
    <3> QED
      BY <2>1, <3>4, <3>5 DEF FanInv
  <2> QED
    BY <2>2, <2>3
<1>9. ASSUME NEW p \in Procs, Requeue(p)
      PROVE  FanInv'
  <2>1. SameSucceeded
    BY <1>0, <1>9 DEF Requeue, RequeueRunning, QueueTypeOK, SameSucceeded
  <2>2. FileReady'
    BY <1>9 DEF Requeue, TypeOK, FanInv, FileReady
  <2> QED
    BY <1>9, <2>1, <2>2, FanUntouched DEF Requeue, fanIn
<1>10. ASSUME NEW p \in Procs, Interrupt(p) \/ Crash(p)
       PROVE  FanInv'
  <2>1. SameSucceeded
    BY <1>0, <1>10, ClaimOutcomeKeepsSucceeded DEF Interrupt, Crash
  <2>2. UNCHANGED <<file, merged>> /\ batch' = [batch EXCEPT ![p] = {}]
    BY <1>10 DEF Interrupt, Crash
  <2>3. FileReady'
    BY <1>10 DEF Interrupt, Crash, TypeOK, FanInv, FileReady
  <2>4. SucceededFileWhole'
    BY <2>1, <2>2 DEF FanInv, SucceededFileWhole, RowsIn, SameSucceeded
  <2>5. BatchSucceeded'
    BY <2>1, <2>2 DEF TypeOK, FanInv, BatchSucceeded, SameSucceeded
  <2>6. MergedRowsSucceeded'
    BY <2>1, <2>2 DEF TypeOK, FanInv, MergedRowsSucceeded, SameSucceeded
  <2> QED
    BY <2>3, <2>4, <2>5, <2>6 DEF FanInv
<1>11. CASE UNCHANGED vars
  BY <1>11 DEF vars, queueVars, FanInv, FileReady, SucceededFileWhole,
               BatchSucceeded, MergedRowsSucceeded, RowsIn
<1> QED
  BY <1>1, <1>2, <1>3, <1>4, <1>5, <1>6, <1>7, <1>8, <1>9, <1>10, <1>11
     DEF Next, Work

\* The invariant of every behaviour without overlap.
LEMMA FanInvariant == ~Overlap /\ Spec => []FanInv
<1> SUFFICES ASSUME ~Overlap
             PROVE  Spec => []FanInv
  OBVIOUS
<1>1. TypeOK /\ LeaseInv /\ FanInv /\ [Next]_vars => FanInv'
  BY NextFan
<1> QED
  BY <1>1, InitFan, TypeCorrect, LeaseInvariant, PTL DEF Spec

\* While invocations do not overlap, the file of a succeeded row is complete,
\* whatever was interrupted, crashed and resumed (worker.py's persist-then-mark
\* order).
THEOREM FilesWhole == ~Overlap /\ Spec => []SucceededFileWhole
<1>1. FanInv => SucceededFileWhole
  BY DEF FanInv
<1> QED
  BY <1>1, FanInvariant, PTL

\* ... and what was fanned in stays backed by succeeded rows of its run.
THEOREM FanInSound == ~Overlap /\ Spec => []MergedRowsSucceeded
<1>1. FanInv => MergedRowsSucceeded
  BY DEF FanInv
<1> QED
  BY <1>1, FanInvariant, PTL

-----------------------------------------------------------------------------
(* Overlapping invocations that nobody interrupts *)

Uninterrupted == "interrupt" \notin Faults /\ "crash" \notin Faults

Claiming == {"claim"} \cup Holding

\* A process has a row in hand exactly from the claim's lock to the mark.
InHand == \A p \in Procs : cur[p] # NoJob <=> pc[p] \in Claiming

NoneStopping == \A p \in Procs : pc[p] # "stopping"

\* Two processes never have the same row in hand: SKIP LOCKED separates claims
\* in flight, the status separates a claim from a leased row.
DistinctRows ==
    \A p, q \in Procs : cur[p] = cur[q] /\ cur[p] # NoJob => p = q

HandStatus ==
    \A p \in Procs : /\ pc[p] = "claim" => status[cur[p]] = "pending"
                     /\ pc[p] \in Holding => status[cur[p]] = "running"

RunningHeld == \A j \in RowsIn("running") : \E p \in Procs : cur[p] = j

AttemptsMatch ==
    \A j \in Jobs :
        attempts[j] = IF status[j] \in {"absent", "pending"} THEN 0 ELSE 1

ExclusiveInv ==
    InHand /\ NoneStopping /\ DistinctRows /\ HandStatus /\ RunningHeld
           /\ AttemptsMatch

\* At the start no row is held and none has been attempted.
LEMMA InitExclusive == Init => ExclusiveInv
BY DEF Init, QueueInit, ExclusiveInv, InHand, NoneStopping, DistinctRows,
       HandStatus, RunningHeld, AttemptsMatch, RowsIn, Claiming, Holding

\* A step that moves only program counters, within or outside of Claiming.
LEMMA PcOnlyExclusive ==
    ASSUME TypeOK, ExclusiveInv, NEW p \in Procs, NEW ph \in Phases,
           pc' = [pc EXCEPT ![p] = ph], ph # "stopping",
           \/ pc[p] \notin Claiming /\ ph \notin Claiming
           \/ pc[p] \in Holding /\ ph \in Holding,
           UNCHANGED <<queueVars, cur>>
    PROVE  ExclusiveInv'
<1> USE DEF ExclusiveInv, Claiming, Holding
<1>1. InHand' /\ NoneStopping' /\ DistinctRows'
  BY DEF TypeOK, InHand, NoneStopping, DistinctRows
<1>2. HandStatus'
  BY DEF TypeOK, HandStatus, queueVars
<1>3. RunningHeld' /\ AttemptsMatch'
  BY DEF RunningHeld, AttemptsMatch, RowsIn, queueVars
<1> QED
  BY <1>1, <1>2, <1>3

\* The holder of a row ends its lease; nobody else's is disturbed.
LEMMA MarkExclusive ==
    ASSUME TypeOK, ExclusiveInv, NEW p \in Procs, pc[p] \in Holding,
           NEW s \in Finished, Mark(cur[p], s),
           cur' = [cur EXCEPT ![p] = NoJob], pc' = [pc EXCEPT ![p] = "work"]
    PROVE  ExclusiveInv'
<1> USE DEF ExclusiveInv
<1>0. cur[p] \in Jobs /\ status[cur[p]] = "running"
  BY DEF TypeOK, InHand, HandStatus, Claiming, Holding
<1>1. InHand' /\ NoneStopping' /\ DistinctRows'
  BY DEF TypeOK, InHand, NoneStopping, DistinctRows, Claiming, Holding
<1>2. HandStatus'
  <2> SUFFICES ASSUME NEW q \in Procs, q # p, pc[q] \in Claiming
               PROVE  status'[cur[q]] = status[cur[q]]
    BY DEF TypeOK, HandStatus, Claiming, Holding
  <2>1. cur[q] # cur[p] /\ cur[q] \in Jobs
    BY DEF TypeOK, InHand, DistinctRows, Claiming, Holding
  <2> QED
    BY <2>1 DEF Mark, TypeOK, QueueTypeOK
<1>3. RunningHeld'
  <2> SUFFICES ASSUME NEW j \in Jobs, status'[j] = "running"
               PROVE  \E q \in Procs : cur'[q] = j
    BY DEF RunningHeld, RowsIn
  <2>1. status[j] = "running" /\ j # cur[p]
    BY <1>0 DEF Mark, TypeOK, QueueTypeOK, Finished
  <2>2. PICK q \in Procs : cur[q] = j
    BY <2>1 DEF RunningHeld, RowsIn
  <2>3. cur'[q] = j
    BY <2>1, <2>2 DEF TypeOK
  <2> QED
    BY <2>3
<1>4. AttemptsMatch'
  BY <1>0 DEF AttemptsMatch, Mark, TypeOK, QueueTypeOK, Finished
<1> QED
  BY <1>1, <1>2, <1>3, <1>4

\* Every uninterrupted step keeps the leases exclusive.
LEMMA NextExclusive ==
    ASSUME Uninterrupted, ConstantsOK, TypeOK, ExclusiveInv, [Next]_vars
    PROVE  ExclusiveInv'
<1> USE DEF Goto
<1>0. QueueTypeOK
  BY DEF TypeOK
<1>1. ASSUME NEW p \in Procs,
             \/ Start(p) \/ ClaimNone(p) \/ PersistBegin(p)
             \/ PersistEnd(p) \/ JobRaises(p) \/ Score(p)
      PROVE  ExclusiveInv'
  <2>1. PICK ph \in Phases \ {"stopping"} : pc' = [pc EXCEPT ![p] = ph]
                /\ \/ pc[p] \notin Claiming /\ ph \notin Claiming
                   \/ pc[p] \in Holding /\ ph \in Holding
    BY <1>1 DEF Start, ClaimNone, PersistBegin, PersistEnd, JobRaises, Score,
                Phases, Live, Claiming, Holding
  <2>2. UNCHANGED <<queueVars, cur>>
    BY <1>1 DEF Start, ClaimNone, PersistBegin, PersistEnd, JobRaises, Score
  <2> QED
    BY <2>1, <2>2, PcOnlyExclusive
<1>2. ASSUME NEW p \in Procs, Plan(p)
      PROVE  ExclusiveInv'
  <2>1. CASE planned[p] < Len(PlanRows) /\ status[PlanJob(p)] = "absent"
    <3> DEFINE j == PlanJob(p)
    <3>1. j \in Jobs
      BY <2>1, PlanJobIsJob
    <3>2. /\ status' = [status EXCEPT ![j] = "pending"]
          /\ UNCHANGED <<attempts, pc, cur>>
      BY <1>2, <2>1 DEF Plan, Enqueue
    <3>3. \A q \in Procs : pc[q] \in Claiming => cur[q] \in Jobs /\ cur[q] # j
      BY <2>1 DEF ExclusiveInv, InHand, HandStatus, Claiming, TypeOK
    <3> QED
      BY <1>0, <2>1, <3>1, <3>2, <3>3
         DEF QueueTypeOK, ExclusiveInv, InHand, NoneStopping, DistinctRows,
             HandStatus, RunningHeld, AttemptsMatch, RowsIn, Claiming
  <2>2. CASE planned[p] < Len(PlanRows) /\ status[PlanJob(p)] # "absent"
    BY <1>2, <2>2
       DEF Plan, Enqueue, queueVars, ExclusiveInv, InHand, NoneStopping,
           DistinctRows, HandStatus, RunningHeld, AttemptsMatch, RowsIn
  <2>3. CASE ~(planned[p] < Len(PlanRows))
    <3>1. /\ pc[p] \notin Claiming
          /\ "work" \in Phases \ {"stopping"}
          /\ "work" \notin Claiming
      BY <1>2 DEF Plan, Phases, Live, Claiming, Holding
    <3> QED
      BY <1>2, <2>3, <3>1, PcOnlyExclusive DEF Plan
  <2> QED
    BY <2>1, <2>2, <2>3
<1>3. ASSUME NEW p \in Procs, ClaimBegin(p)
      PROVE  ExclusiveInv'
  <2>1. PICK j \in Jobs : NextClaim(j, Locked) /\ cur' = [cur EXCEPT ![p] = j]
    BY <1>3 DEF ClaimBegin
  <2>2. status[j] = "pending" /\ j \notin Locked
    BY <2>1, NextClaimFresh
  <2>3. UNCHANGED queueVars /\ pc' = [pc EXCEPT ![p] = "claim"] /\ pc[p] = "work"
    BY <1>3 DEF ClaimBegin
  <2>4. j # NoJob
    BY ConstantsOK DEF ConstantsOK
  <2>5. \A q \in Procs : cur[q] # j
    BY <2>2, <2>4 DEF Locked, ExclusiveInv, InHand, HandStatus, Claiming
  <2>6. InHand' /\ NoneStopping' /\ DistinctRows'
    BY <2>1, <2>3, <2>4, <2>5
       DEF TypeOK, ExclusiveInv, InHand, NoneStopping, DistinctRows, Claiming
  <2>7. HandStatus'
    BY <2>1, <2>2, <2>3
       DEF TypeOK, ExclusiveInv, HandStatus, Holding, queueVars
  <2>8. cur[p] = NoJob
    BY <2>3 DEF ExclusiveInv, InHand, Claiming, Holding
  <2>9. RunningHeld' /\ AttemptsMatch'
    BY <2>1, <2>3, <2>8, ConstantsOK
       DEF ConstantsOK, TypeOK, ExclusiveInv, RunningHeld, AttemptsMatch,
           RowsIn, queueVars
  <2> QED
    BY <2>6, <2>7, <2>9 DEF ExclusiveInv
<1>4. ASSUME NEW p \in Procs, ClaimCommit(p)
      PROVE  ExclusiveInv'
  <2>1. /\ pc[p] = "claim"
        /\ pc' = [pc EXCEPT ![p] = "scrape"]
        /\ Lease(cur[p])
        /\ UNCHANGED cur
    BY <1>4 DEF ClaimCommit
  <2>2. cur[p] \in Jobs /\ cur[p] # NoJob /\ status[cur[p]] = "pending"
    BY <2>1 DEF TypeOK, ExclusiveInv, InHand, HandStatus, Claiming
  <2>3. \A q \in Procs : q # p => cur[q] # cur[p]
    BY <2>2 DEF ExclusiveInv, DistinctRows
  <2>4. InHand' /\ NoneStopping' /\ DistinctRows'
    BY <2>1 DEF TypeOK, ExclusiveInv, InHand, NoneStopping, DistinctRows,
                Claiming, Holding
  <2>5. HandStatus'
    BY <1>0, <2>1, <2>2, <2>3
       DEF TypeOK, QueueTypeOK, ExclusiveInv, InHand, HandStatus, Lease,
           Claiming, Holding
  <2>6. RunningHeld'
    BY <1>0, <2>1, <2>2
       DEF QueueTypeOK, ExclusiveInv, RunningHeld, RowsIn, Lease
  <2>7. AttemptsMatch'
    BY <1>0, <2>1, <2>2
       DEF QueueTypeOK, ExclusiveInv, AttemptsMatch, Lease
  <2> QED
    BY <2>4, <2>5, <2>6, <2>7 DEF ExclusiveInv
<1>5. ASSUME NEW p \in Procs, MarkSucceeded(p) \/ MarkFailed(p)
      PROVE  ExclusiveInv'
  <2>1. PICK s \in Finished : Mark(cur[p], s)
    BY <1>5 DEF MarkSucceeded, MarkFailed, Finished
  <2>2. /\ pc[p] \in Holding
        /\ cur' = [cur EXCEPT ![p] = NoJob]
        /\ pc' = [pc EXCEPT ![p] = "work"]
    BY <1>5 DEF MarkSucceeded, MarkFailed, Holding
  <2> QED
    BY <2>1, <2>2, MarkExclusive
<1>6. ASSUME NEW p \in Procs, ConsolidateSelect(p) \/ ConsolidateUpsert(p)
      PROVE  ExclusiveInv'
  <2>1. PICK ph \in {"dead", "upsert", "score"} : pc' = [pc EXCEPT ![p] = ph]
    BY <1>6 DEF ConsolidateSelect, ConsolidateUpsert, TypeOK
  <2>2. pc[p] \notin Claiming /\ ph \in Phases \ {"stopping"} /\ ph \notin Claiming
    BY <1>6, <2>1 DEF ConsolidateSelect, ConsolidateUpsert, Claiming, Holding,
                      Phases, Live
  <2>3. UNCHANGED <<queueVars, cur>>
    BY <1>6 DEF ConsolidateSelect, ConsolidateUpsert
  <2> QED
    BY <2>1, <2>2, <2>3, PcOnlyExclusive
<1>7. ASSUME NEW p \in Procs,
             Requeue(p) \/ RequeueFails(p) \/ Interrupt(p) \/ Crash(p)
      PROVE  FALSE
  BY <1>7 DEF Requeue, RequeueFails, Interrupt, Crash, Uninterrupted,
              ExclusiveInv, NoneStopping
<1>8. CASE UNCHANGED vars
  BY <1>8 DEF vars, queueVars, ExclusiveInv, InHand, NoneStopping, DistinctRows,
              HandStatus, RunningHeld, AttemptsMatch, RowsIn
<1> QED
  BY <1>1, <1>2, <1>3, <1>4, <1>5, <1>6, <1>7, <1>8 DEF Next, Work

\* The exclusive leases hold in every uninterrupted behaviour.
LEMMA ExclusiveInvariant == Uninterrupted /\ Spec => []ExclusiveInv
<1> SUFFICES ASSUME Uninterrupted PROVE Spec => []ExclusiveInv
  OBVIOUS
<1>1. TypeOK /\ ExclusiveInv /\ [Next]_vars => ExclusiveInv'
  BY NextExclusive, ConstantsOK
<1> QED
  BY <1>1, InitExclusive, TypeCorrect, PTL DEF Spec

\* However many invocations overlap, as long as none is killed or interrupted
\* every running row is held by exactly one of them (FOR UPDATE SKIP LOCKED).
THEOREM ExclusiveLease == Uninterrupted /\ Spec => []LeaseExclusive
<1>1. ExclusiveInv => LeaseExclusive
  BY DEF ExclusiveInv, LeaseExclusive, RunningHeld, HandStatus, DistinctRows
<1> QED
  BY <1>1, ExclusiveInvariant, PTL

\* ... and no row is ever claimed a second time: re-planning a run id does not
\* resurrect its finished rows (ON CONFLICT DO NOTHING).
THEOREM ScrapedAtMostOnce == Uninterrupted /\ Spec => []ScrapedOnce
<1>1. ExclusiveInv => ScrapedOnce
  BY DEF ExclusiveInv, AttemptsMatch, ScrapedOnce
<1> QED
  BY <1>1, ExclusiveInvariant, PTL

-----------------------------------------------------------------------------
(* Orders.                                                                 *)

\* R orders the members of S, all of them.
OrderOn(S, R) ==
  /\ \A x, y \in S : <<x, y>> \in R => <<y, x>> \notin R
  /\ \A x, y, z \in S : <<x, y>> \in R /\ <<y, z>> \in R => <<x, z>> \in R
  /\ \A x, y \in S : x = y \/ <<x, y>> \in R \/ <<y, x>> \in R

\* Counting what comes before numbers the members of a finite set from 0.
LEMMA CountsRank ==
  ASSUME NEW S, IsFiniteSet(S), NEW R, OrderOn(S, R)
  PROVE  /\ Cardinality(S) \in Nat
         /\ \A x \in S : CountBefore(S, R, x) \in Nat /\ CountBefore(S, R, x) < Cardinality(S)
         /\ \A x, y \in S : <<x, y>> \in R => CountBefore(S, R, x) < CountBefore(S, R, y)
         /\ \A n \in 0..(Cardinality(S) - 1) : \E x \in S : CountBefore(S, R, x) = n
<1> DEFINE below(x) == {y \in S : <<y, x>> \in R}
           N == Cardinality(S)
<1>1. N \in Nat
  BY FS_CardinalityType
<1>2. ASSUME NEW x \in S PROVE IsFiniteSet(below(x)) /\ Cardinality(below(x)) \in Nat /\ Cardinality(below(x)) < N
  <2>1. below(x) \in SUBSET S /\ x \notin below(x)
    BY DEF OrderOn
  <2>2. IsFiniteSet(below(x)) /\ Cardinality(below(x)) <= N /\ (N = Cardinality(below(x)) => S = below(x))
    BY <2>1, FS_Subset
  <2>3. Cardinality(below(x)) \in Nat
    BY <2>2, FS_CardinalityType
  <2> QED BY <1>1, <2>1, <2>2, <2>3
<1>3. ASSUME NEW x \in S, NEW y \in S, <<x, y>> \in R PROVE Cardinality(below(x)) < Cardinality(below(y))
  <2>1. below(x) \in SUBSET below(y)
    BY <1>3 DEF OrderOn
  <2>2. x \in below(y) /\ x \notin below(x)
    BY <1>3 DEF OrderOn
  <2>3. /\ Cardinality(below(x)) <= Cardinality(below(y))
        /\ Cardinality(below(y)) = Cardinality(below(x)) => below(y) = below(x)
    BY <1>2, <2>1, FS_Subset
  <2> QED BY <1>2, <2>2, <2>3
<1> DEFINE f == [x \in S |-> Cardinality(below(x))]
<1>4. f \in Injection(S, 0..(N - 1))
  <2>1. f \in [S -> 0..(N - 1)]
    BY <1>1, <1>2
  <2>2. ASSUME NEW x \in S, NEW y \in S, f[x] = f[y] PROVE x = y
    <3>1. Cardinality(below(x)) = Cardinality(below(y)) /\ Cardinality(below(x)) \in Nat
      BY <1>2, <2>2
    <3>2. <<x, y>> \notin R /\ <<y, x>> \notin R
      BY <1>3, <3>1
    <3> QED BY <3>2 DEF OrderOn
  <2> HIDE DEF f
  <2> QED BY <2>1, <2>2 DEF Injection, IsInjective
<1>5. IsFiniteSet(0..(N - 1)) /\ Cardinality(0..(N - 1)) = N
  BY <1>1, FS_Interval
<1>6. f \in Surjection(S, 0..(N - 1))
  <2> HIDE DEF f
  <2> QED BY <1>4, <1>5, FS_Injection
<1>7. ASSUME NEW n \in 0..(N - 1) PROVE \E x \in S : Cardinality(below(x)) = n
  <2>1. \E x \in S : f[x] = n
    <3> HIDE DEF f
    <3> QED BY <1>6 DEF Surjection
  <2> QED BY <2>1
<1> QED BY <1>1, <1>2, <1>3, <1>7 DEF CountBefore

\* A finite set in its order is a sequence of its members, each once.
LEMMA InOrderIs ==
  ASSUME NEW S, IsFiniteSet(S), NEW R, OrderOn(S, R)
  PROVE  /\ InOrder(S, R) \in [1..Cardinality(S) -> S]
         /\ \A n \in 1..Cardinality(S) : CountBefore(S, R, InOrder(S, R)[n]) = n - 1
         /\ \A x \in S : \E n \in 1..Cardinality(S) : InOrder(S, R)[n] = x
<1> DEFINE N == Cardinality(S)
           at == InOrder(S, R)
<1>1. N \in Nat
  BY CountsRank
<1>2. ASSUME NEW n \in 1..N PROVE at[n] \in S /\ CountBefore(S, R, at[n]) = n - 1
  <2>1. at[n] = CHOOSE x \in S : CountBefore(S, R, x) = n - 1
    BY DEF InOrder
  <2>2. n - 1 \in 0..(N - 1)
    BY <1>1
  <2>3. \E x \in S : CountBefore(S, R, x) = n - 1
    BY <2>2, CountsRank
  <2> HIDE DEF at
  <2> QED BY <2>1, <2>3
<1>3. ASSUME NEW x \in S PROVE \E n \in 1..N : at[n] = x
  <2> DEFINE n == CountBefore(S, R, x) + 1
  <2>1. n \in 1..N
    BY <1>1, CountsRank
  <2>2. at[n] \in S /\ CountBefore(S, R, at[n]) = CountBefore(S, R, x)
    <3>1. CountBefore(S, R, x) \in Nat
      BY CountsRank
    <3> QED BY <1>2, <2>1, <3>1
  <2>3. at[n] = x
    <3> HIDE DEF at, n
    <3>1. ASSUME NEW y \in S, CountBefore(S, R, y) = CountBefore(S, R, x) PROVE y = x
      <4>1. CountBefore(S, R, y) \in Nat
        BY CountsRank
      <4>2. <<x, y>> \notin R /\ <<y, x>> \notin R
        BY <3>1, <4>1, CountsRank
      <4> QED BY <4>2 DEF OrderOn
    <3> QED BY <2>2, <3>1
  <2> QED BY <2>1, <2>3
<1>4. at \in [1..N -> S]
  <2>1. at = [n \in 1..N |-> at[n]]
    BY DEF InOrder
  <2> HIDE DEF at
  <2> QED BY <1>2, <2>1
<1> QED BY <1>2, <1>3, <1>4

\* The kept entries, as many as were kept.
LEMMA PickIs ==
  ASSUME NEW T, NEW s \in Seq(T), NEW I \in SUBSET DOMAIN s
  PROVE  /\ IsFiniteSet(I) /\ Cardinality(I) \in Nat
         /\ Pick(s, I) \in Seq(T) /\ Len(Pick(s, I)) = Cardinality(I)
         /\ ToSet(Pick(s, I)) = {s[i] : i \in I}
<1> DEFINE R == {p \in I \X I : p[1] < p[2]}
           N == Cardinality(I)
           at == InOrder(I, R)
<1>1. DOMAIN s = 1..Len(s) /\ Len(s) \in Nat /\ \A i \in DOMAIN s : s[i] \in T
  OBVIOUS
<1>2. IsFiniteSet(I) /\ N \in Nat
  <2>1. IsFiniteSet(1..Len(s))
    BY <1>1, FS_Interval
  <2>2. IsFiniteSet(I)
    BY <1>1, <2>1, FS_Subset
  <2> QED BY <2>2, FS_CardinalityType
<1>3. OrderOn(I, R)
  <2>1. \A i, k \in I : <<i, k>> \in R <=> i < k
    OBVIOUS
  <2>2. I \subseteq Nat
    BY <1>1
  <2> HIDE DEF R
  <2> QED BY <2>1, <2>2 DEF OrderOn
<1>4. at \in [1..N -> I] /\ \A i \in I : \E n \in 1..N : at[n] = i
  <2> HIDE DEF R
  <2> QED BY <1>2, <1>3, InOrderIs
<1>5. Pick(s, I) = [n \in 1..N |-> s[at[n]]]
  BY DEF Pick
<1> HIDE DEF at, R
<1>6. Pick(s, I) \in Seq(T) /\ Len(Pick(s, I)) = N
  <2>1. Pick(s, I) \in [1..N -> T]
    BY <1>1, <1>4, <1>5
  <2> QED BY <1>2, <2>1
<1>7. ToSet(Pick(s, I)) = {s[i] : i \in I}
  <2>1. DOMAIN Pick(s, I) = 1..N
    BY <1>5
  <2>2. ASSUME NEW n \in 1..N PROVE Pick(s, I)[n] = s[at[n]] /\ at[n] \in I
    BY <1>4, <1>5
  <2> QED BY <1>4, <2>1, <2>2 DEF ToSet
<1> QED BY <1>2, <1>6, <1>7

-----------------------------------------------------------------------------
(* Types.                                                                  *)

\* Every posting a row's search may find, and a link may yield.
OfRow(j) == UNION {ToSet(found) : found \in Found(j)}
OfLink(l) == Fetched(l) \cup {Unvisited(l, o) : o \in {EXPIRED, EXTERNAL_ATS}}
AnyPosting == (UNION {OfRow(j) : j \in Searchable}) \cup (UNION {OfLink(l) : l \in AllLinks})

\* A table row a consolidation is to write: the key, and who asked for it.
FanRows == {<<Key(q), us>> : q \in AnyPosting, us \in SUBSET Users}

FanStates(runs, rows) ==
  [pc : {"upsert", "consolidated"}, run : runs, row : rows, jobs : Seq(AnyPosting), rows : Seq(FanRows)]

WorkerRows == Jobs \cup {Planned[1]}
WorkerStates ==
  [pc : {"claim", "scrape", "filter", "embed", "persist", "succeed", "fail", "read"},
   run : {NightRun}, row : WorkerRows, jobs : Seq(AnyPosting), raw : Seq(AnyPosting)]

Records == Emails \X {TRUE}
EmailStates ==
  [pc : {"load", "pull", "select", "loop", "visit", "write", "hand over", "enqueue", "succeed", "read"},
   opt : EmailOptions, run : EmailRuns, row : Jobs, seen : SUBSET Records,
   todo : Seq(Emails), links : Seq(AllLinks), got : Seq(AnyPosting), jobs : Seq(AnyPosting)]

\* A pipeline's process: at the work of its own, or fanning in.
ProcTyped ==
  /\ proc = [p \in Pipelines |-> proc[p]]
  /\ proc["worker"] \in {Idle} \cup WorkerStates \cup FanStates({NightRun}, WorkerRows)
  /\ proc["email"] \in {Idle} \cup EmailStates \cup FanStates(EmailRuns, Jobs)

\* The files are written once and for all, whoever writes them again.
DataTyped ==
  /\ status \in [Jobs -> Statuses]
  /\ settings \in {[system |-> sc.system, policies |-> sc.policies] : sc \in Scenarios}
  /\ files \in [Jobs -> Seq(AnyPosting) \cup {NoFile}]
  /\ scraped \in [Jobs -> Seq(AnyPosting)]
  /\ enriched \in Seq(AnyPosting) \cup {NoFile}

MailTyped ==
  /\ disk \in Seq(Emails) /\ sent \subseteq Emails
  /\ seen \in [entries : SUBSET Records, torn : BOOLEAN]
  /\ visits \in [AllLinks -> Nat] /\ lost \in Nat

\* A succeeded row has its file, and its pipeline has written it before.
FilesThere ==
  /\ \A j \in RowsIn("succeeded") : files[j] \in Seq(AnyPosting)
  /\ At("worker", "succeed") => files[proc["worker"].row] \in Seq(AnyPosting)
  /\ \A x \in {"enqueue", "succeed"} : At("email", x) => files[Email.row] \in Seq(AnyPosting)

\* The row in a pipeline's hand.
RowsInHand ==
  /\ \A j \in Jobs : status[j] # "absent" /\ j.source # EMAIL_SOURCE => j \in Searchable
  /\ \A x \in {"scrape", "filter", "embed", "persist", "succeed", "fail"} :
       At("worker", x) => /\ proc["worker"].row \in Jobs
                          /\ proc["worker"].row.source # EMAIL_SOURCE =>
                               status[proc["worker"].row] = "running"
  /\ \A x \in {"filter", "embed", "persist", "succeed"} :
       At("worker", x) => proc["worker"].row.source # EMAIL_SOURCE
  /\ ~At("email", "idle") => Email.row = EmailRow(Email.run)

\* What the email pipeline is about to read is there.
Readied ==
  /\ At("email", "load") => enriched # NoFile
  /\ At("email", "visit") => Email.todo # << >>

EmailInv == ProcTyped /\ DataTyped /\ MailTyped /\ FilesThere /\ RowsInHand /\ Readied

-----------------------------------------------------------------------------
(* Induction and recursion up to a number, said of sets and functions.      *)

LEMMA LeastOf ==
  ASSUME NEW T \in SUBSET Nat, T # {}
  PROVE  \E x \in T : \A y \in T : x <= y
<1>1. PICK R : IsWellFoundedOn(R, Nat) /\ \A x, y \in Nat : <<y, x>> \in R <=> y < x
  <2> DEFINE Less == OpToRel(<, Nat)
  <2>1. IsWellFoundedOn(Less, Nat)
    BY NatLessThanWellFounded
  <2>2. \A x, y \in Nat : <<y, x>> \in Less <=> y < x
    BY DEF OpToRel
  <2> HIDE DEF Less
  <2> QED BY <2>1, <2>2
<1>2. PICK x \in T : \A y \in T : ~ (<<y, x>> \in R)
  BY <1>1, WFMin
<1>3. ASSUME NEW y \in T PROVE x <= y
  <2>1. x \in Nat /\ y \in Nat /\ ~(y < x)
    BY <1>1, <1>2
  <2> QED BY <2>1
<1> QED BY <1>3

\* A set that holds 0, and n with n - 1, holds every number up to N.
Inductive(N, T) == 0 \in T /\ \A n \in 1..N : n - 1 \in T => n \in T

LEMMA UpTo ==
  ASSUME NEW N \in Nat, NEW T, Inductive(N, T)
  PROVE  0..N \subseteq T /\ N \in T
<1> USE DEF Inductive
<1> SUFFICES ASSUME NEW k \in 0..N, k \notin T PROVE FALSE
  OBVIOUS
<1>1. PICK x \in (0..N) \ T : \A y \in (0..N) \ T : x <= y
  <2>1. (0..N) \ T \in SUBSET Nat /\ (0..N) \ T # {}
    OBVIOUS
  <2> QED BY <2>1, LeastOf
<1>2. x \in 1..N /\ x - 1 \in 0..N
  BY <1>1
<1>3. x - 1 \in T
  BY <1>1, <1>2
<1> QED BY <1>1, <1>2, <1>3

\* A function on 0..N, defined step by step.
Iterate(A, a, N, step) ==
  CHOOSE f \in [0..N -> A] : f[0] = a /\ \A n \in 1..N : f[n] = step[n][f[n - 1]]

LEMMA Steps ==
  ASSUME NEW A, NEW a \in A, NEW N \in Nat, NEW step \in [1..N -> [A -> A]]
  PROVE  LET f == Iterate(A, a, N, step) IN
         f \in [0..N -> A] /\ f[0] = a /\ \A n \in 1..N : f[n] = step[n][f[n - 1]]
<1> DEFINE T == {m \in 0..N : \E f \in [0..m -> A] : f[0] = a /\ \A n \in 1..m : f[n] = step[n][f[n - 1]]}
<1>1. 0 \in T
  <2> DEFINE f == [n \in 0..0 |-> a]
  <2>1. f \in [0..0 -> A] /\ f[0] = a /\ \A n \in 1..0 : f[n] = step[n][f[n - 1]]
    OBVIOUS
  <2> HIDE DEF f
  <2> QED BY <2>1
<1>2. ASSUME NEW m \in 1..N, m - 1 \in T PROVE m \in T
  <2>1. PICK f \in [0..(m - 1) -> A] : f[0] = a /\ \A n \in 1..(m - 1) : f[n] = step[n][f[n - 1]]
    BY <1>2
  <2> DEFINE g == [n \in 0..m |-> IF n = m THEN step[m][f[m - 1]] ELSE f[n]]
  <2>2. m - 1 \in 0..(m - 1) /\ m \in Nat
    OBVIOUS
  <2>3. f[m - 1] \in A
    BY <2>2
  <2>4. step[m][f[m - 1]] \in A
    BY <2>3
  <2>5. g \in [0..m -> A]
    BY <2>2, <2>4
  <2>6. g[0] = a
    BY <2>1, <2>2
  <2>7. ASSUME NEW n \in 1..m PROVE g[n] = step[n][g[n - 1]]
    <3>1. n - 1 \in 0..m /\ n - 1 # m /\ g[n - 1] = f[n - 1]
      BY <2>2
    <3>2. CASE n = m
      BY <3>1, <3>2
    <3>3. CASE n # m
      BY <2>1, <2>2, <3>1, <3>3
    <3> QED BY <3>2, <3>3
  <2> HIDE DEF g
  <2> QED BY <2>5, <2>6, <2>7
<1> HIDE DEF T
<1>3. Inductive(N, T)
  BY <1>1, <1>2 DEF Inductive
<1>4. N \in T
  BY <1>3, UpTo
<1>5. \E f \in [0..N -> A] : f[0] = a /\ \A n \in 1..N : f[n] = step[n][f[n - 1]]
  BY <1>4 DEF T
<1> QED BY <1>5 DEF Iterate

-----------------------------------------------------------------------------
(* What a consolidation reads, and what it makes of it.                    *)

\* The part of a dedup's promise that concerns the first n postings.
DedupedTo(out, ps, n) ==
  /\ \A m \in 1..n : \E i \in DOMAIN out : Key(out[i]) = Key(ps[m])
  /\ \A i \in DOMAIN out : \E m \in 1..n : Key(out[i]) = Key(ps[m])
  /\ \A i, k \in DOMAIN out : Key(out[i]) = Key(out[k]) => i = k
  /\ \A i \in DOMAIN out, m \in 1..n : Key(out[i]) = Key(ps[m]) => ps[m].desc <= out[i].desc

LEMMA PlaceKeeps ==
  ASSUME NEW P, \A q \in P : q.desc \in Nat, NEW ps \in Seq(P), NEW n \in 1..Len(ps),
         NEW out \in Seq(P), DedupedTo(out, ps, n - 1)
  PROVE  Place(out, ps[n]) \in Seq(P) /\ DedupedTo(Place(out, ps[n]), ps, n)
<1> DEFINE p == ps[n]
           new == Place(out, p)
<1>1. p \in P /\ p.desc \in Nat /\ n \in Nat /\ 1..n = 1..(n - 1) \cup {n} /\ Len(out) \in Nat
  OBVIOUS
<1>2. \A i \in DOMAIN out : out[i] \in P /\ out[i].desc \in Nat
  OBVIOUS
<1>3. CASE Key(p) \notin Keys(out)
  <2>1. new = Append(out, p)
    BY <1>3 DEF Place
  <2>2. /\ new \in Seq(P) /\ DOMAIN new = DOMAIN out \cup {Len(out) + 1} /\ Len(out) + 1 \notin DOMAIN out
        /\ new[Len(out) + 1] = p /\ \A i \in DOMAIN out : new[i] = out[i]
    BY <1>1, <2>1
  <2>3. \A i \in DOMAIN out : Key(out[i]) # Key(p)
    BY <1>3 DEF Keys
  <2> HIDE DEF new, p
  <2>4. \A m \in 1..(n - 1) : Key(ps[m]) # Key(p)
    BY <2>3 DEF DedupedTo
  <2>5. DedupedTo(new, ps, n)
    <3>1. \A m \in 1..n : \E i \in DOMAIN new : Key(new[i]) = Key(ps[m])
      BY <1>1, <2>2 DEF DedupedTo, p
    <3>2. \A i \in DOMAIN new : \E m \in 1..n : Key(new[i]) = Key(ps[m])
      BY <1>1, <2>2 DEF DedupedTo, p
    <3>3. \A i, k \in DOMAIN new : Key(new[i]) = Key(new[k]) => i = k
      BY <2>2, <2>3 DEF DedupedTo
    <3>4. \A i \in DOMAIN new, m \in 1..n : Key(new[i]) = Key(ps[m]) => ps[m].desc <= new[i].desc
      BY <1>1, <2>2, <2>3, <2>4 DEF DedupedTo, p
    <3> QED BY <3>1, <3>2, <3>3, <3>4 DEF DedupedTo
  <2> QED BY <2>2, <2>5 DEF new, p
<1>4. CASE Key(p) \in Keys(out)
  <2>1. new = [i \in DOMAIN out |-> IF Key(out[i]) = Key(p) /\ p.desc > out[i].desc THEN p ELSE out[i]]
    BY <1>4 DEF Place
  <2>2. new \in Seq(P) /\ DOMAIN new = DOMAIN out
    <3>1. DOMAIN out = 1..Len(out)
      OBVIOUS
    <3>2. new \in [1..Len(out) -> P]
      BY <1>1, <1>2, <2>1, <3>1
    <3> HIDE DEF new
    <3>3. new \in Seq(P)
      BY <1>1, <3>2, SeqDef
    <3> QED BY <3>1, <3>2, <3>3
  <2>3. \A i \in DOMAIN out : Key(new[i]) = Key(out[i])
    BY <2>1
  <2>4. \A i \in DOMAIN out : out[i].desc <= new[i].desc /\ (Key(out[i]) = Key(p) => p.desc <= new[i].desc)
    BY <1>1, <1>2, <2>1
  <2>5. PICK i0 \in DOMAIN out : Key(out[i0]) = Key(p)
    BY <1>4 DEF Keys
  <2>6. \A i \in DOMAIN out : new[i].desc \in Nat
    BY <1>1, <1>2, <2>1
  <2> HIDE DEF new, p
  <2>7. DedupedTo(new, ps, n)
    <3>1. \A m \in 1..n : \E i \in DOMAIN new : Key(new[i]) = Key(ps[m])
      BY <1>1, <2>2, <2>3, <2>5 DEF DedupedTo, p
    <3>2. \A i \in DOMAIN new : \E m \in 1..n : Key(new[i]) = Key(ps[m])
      <4>1. \A i \in DOMAIN out : \E m \in 1..(n - 1) : Key(out[i]) = Key(ps[m])
        BY DEF DedupedTo
      <4> QED BY <1>1, <2>2, <2>3, <4>1
    <3>3. \A i, k \in DOMAIN new : Key(new[i]) = Key(new[k]) => i = k
      BY <2>2, <2>3 DEF DedupedTo
    <3>4. ASSUME NEW i \in DOMAIN new, NEW m \in 1..n, Key(new[i]) = Key(ps[m]) PROVE ps[m].desc <= new[i].desc
      <4>1. CASE m = n
        BY <2>2, <2>3, <2>4, <3>4, <4>1 DEF p
      <4>2. CASE m \in 1..(n - 1)
        <5>1. ps[m].desc <= out[i].desc
          BY <2>2, <2>3, <3>4, <4>2 DEF DedupedTo
        <5>2. ps[m].desc \in Nat
          BY <4>2
        <5> QED BY <1>2, <2>2, <2>4, <2>6, <5>1, <5>2
      <4> QED BY <1>1, <4>1, <4>2
    <3> QED BY <3>1, <3>2, <3>3, <3>4 DEF DedupedTo
  <2> QED BY <2>2, <2>7 DEF new, p
<1> QED BY <1>3, <1>4

\* dedup_jobs keeps one posting per key, one with the longest description.
LEMMA DedupIs ==
  ASSUME NEW P, \A q \in P : q.desc \in Nat, NEW ps \in Seq(P)
  PROVE  Dedup(ps) \in Seq(P) /\ DedupedTo(Dedup(ps), ps, Len(ps))
<1> DEFINE N == Len(ps)
           out[n \in 0..N] == IF n = 0 THEN <<>> ELSE Place(out[n - 1], ps[n])
           step == [n \in 1..N |-> [s \in Seq(P) |-> Place(s, ps[n])]]
           good == {n \in 0..N : out[n] \in Seq(P) /\ DedupedTo(out[n], ps, n)}
<1>1. Dedup(ps) = out[N]
  BY DEF Dedup
<1>2. \A s \in Seq(P), n \in 1..N : Place(s, ps[n]) \in Seq(P)
  <2> SUFFICES ASSUME NEW s \in Seq(P), NEW n \in 1..N PROVE Place(s, ps[n]) \in Seq(P)
    OBVIOUS
  <2>1. ps[n] \in P
    OBVIOUS
  <2> QED BY <2>1 DEF Place
<1>3. step \in [1..N -> [Seq(P) -> Seq(P)]]
  BY <1>2
<1>4. \E f : f = [n \in 0..N |-> IF n = 0 THEN <<>> ELSE Place(f[n - 1], ps[n])]
  <2>1. N \in Nat /\ <<>> \in Seq(P)
    OBVIOUS
  <2>2. PICK f \in [0..N -> Seq(P)] : f[0] = <<>> /\ \A n \in 1..N : f[n] = step[n][f[n - 1]]
    <3> HIDE DEF step, N, out
    <3> DEFINE A == Seq(P)
               a == << >>
               f == Iterate(A, a, N, step)
    <3>1. a \in A /\ N \in Nat /\ step \in [1..N -> [A -> A]]
      BY <1>3, <2>1
    <3> HIDE DEF A, a
    <3>2. f \in [0..N -> A] /\ f[0] = a /\ \A n \in 1..N : f[n] = step[n][f[n - 1]]
      BY <3>1, Steps
    <3> HIDE DEF f
    <3> QED BY <3>2 DEF A, a
  <2>3. \A n \in 1..N : f[n] = Place(f[n - 1], ps[n])
    <3> SUFFICES ASSUME NEW n \in 1..N PROVE f[n] = Place(f[n - 1], ps[n])
      OBVIOUS
    <3>1. n - 1 \in 0..N
      OBVIOUS
    <3>2. f[n - 1] \in Seq(P)
      BY <3>1
    <3> QED BY <2>2, <3>2
  <2>4. f = [n \in 0..N |-> IF n = 0 THEN <<>> ELSE Place(f[n - 1], ps[n])]
    BY <2>2, <2>3
  <2> QED BY <2>4
<1>5. out = [n \in 0..N |-> IF n = 0 THEN <<>> ELSE Place(out[n - 1], ps[n])]
  BY <1>4 DEF out
<1> HIDE DEF out
<1>6. 0 \in good
  <2>1. out[0] = <<>> /\ 0 \in 0..N
    BY <1>5
  <2>2. 1..0 = {} /\ DOMAIN << >> = {} /\ << >> \in Seq(P)
    OBVIOUS
  <2>3. DedupedTo(<<>>, ps, 0)
    BY <2>2 DEF DedupedTo
  <2> QED BY <2>1, <2>2, <2>3
<1>7. ASSUME NEW n \in 1..N, n - 1 \in good PROVE n \in good
  <2>1. out[n] = Place(out[n - 1], ps[n])
    BY <1>5
  <2> QED BY <1>7, <2>1, PlaceKeeps
<1>8. N \in good
  <2>1. N \in Nat /\ N \in 0..N
    OBVIOUS
  <2> HIDE DEF good, N
  <2>2. Inductive(N, good)
    BY <1>6, <1>7 DEF Inductive
  <2> QED BY <2>1, <2>2, UpTo
<1> QED BY <1>1, <1>8

\* Postings are records whose contexts can be put in order.
ArePostings(P) ==
  \A q \in P : /\ q.desc \in Nat
               /\ \A X : LET c == [q EXCEPT !.ctxs = X] IN c.key = q.key /\ c.desc = q.desc /\ c.ctxs = X

\* A consolidation's union: one posting per key, with the longest description and
\* the contexts of all.
UnionOf(out, ps) ==
  /\ \A m \in DOMAIN ps : \E i \in DOMAIN out : out[i].key = ps[m].key
  /\ \A i \in DOMAIN out : \E m \in DOMAIN ps : out[i].key = ps[m].key
  /\ \A i, k \in DOMAIN out : out[i].key = out[k].key => i = k
  /\ \A i \in DOMAIN out, m \in DOMAIN ps : out[i].key = ps[m].key => ps[m].desc <= out[i].desc
  /\ \A i \in DOMAIN out : out[i].ctxs = UNION {ps[m].ctxs : m \in {m \in DOMAIN ps : ps[m].key = out[i].key}}

LEMMA CanonicalIs ==
  ASSUME NEW P, ArePostings(P), NEW ps \in Seq(P)
  PROVE  UnionOf(Canonical(ps), ps) /\ \E n \in Nat : DOMAIN Canonical(ps) = 1..n
<1> DEFINE d == Dedup(ps)
           c == Canonical(ps)
<1>1. d \in Seq(P) /\ DedupedTo(d, ps, Len(ps))
  BY DedupIs DEF ArePostings
<1>2. DOMAIN ps = 1..Len(ps) /\ DOMAIN d = 1..Len(d) /\ Len(d) \in Nat
  BY <1>1
<1>3. c = [i \in DOMAIN d |-> [d[i] EXCEPT !.ctxs = UNION {ps[j].ctxs : j \in {j \in DOMAIN ps :
                                                             Key(ps[j]) = Key(d[i])}}]]
  BY DEF Canonical, Attach
<1>4. ASSUME NEW i \in DOMAIN d
      PROVE  /\ c[i].key = d[i].key /\ c[i].desc = d[i].desc
             /\ c[i].ctxs = UNION {ps[j].ctxs : j \in {j \in DOMAIN ps : ps[j].key = d[i].key}}
  <2> DEFINE X == UNION {ps[j].ctxs : j \in {j \in DOMAIN ps : ps[j].key = d[i].key}}
  <2>1. c[i] = [d[i] EXCEPT !.ctxs = X]
    BY <1>3 DEF Key
  <2>2. d[i] \in P
    BY <1>1
  <2> HIDE DEF X, c, d
  <2>3. c[i].key = d[i].key /\ c[i].desc = d[i].desc /\ c[i].ctxs = X
    BY <2>1, <2>2 DEF ArePostings
  <2> QED BY <2>3 DEF X
<1>5. DOMAIN c = DOMAIN d
  BY <1>3
<1> HIDE DEF c, d
<1>6. /\ \A m \in DOMAIN ps : \E i \in DOMAIN d : d[i].key = ps[m].key
      /\ \A i \in DOMAIN d : \E m \in DOMAIN ps : d[i].key = ps[m].key
      /\ \A i, k \in DOMAIN d : d[i].key = d[k].key => i = k
      /\ \A i \in DOMAIN d, m \in DOMAIN ps : d[i].key = ps[m].key => ps[m].desc <= d[i].desc
  BY <1>1, <1>2 DEF DedupedTo, Key
<1>7. UnionOf(c, ps)
  BY <1>4, <1>5, <1>6 DEF UnionOf
<1> QED BY <1>2, <1>5, <1>7 DEF c

\* The rows of a run that succeeded, in the order of their users and sources.
LEMMA RowOrderIs ==
  ASSUME NEW r
  PROVE  /\ Cardinality(Succeeded(r)) \in Nat
         /\ RowOrder(r) \in [1..Cardinality(Succeeded(r)) -> Succeeded(r)]
         /\ \A j \in Succeeded(r) : \E n \in 1..Cardinality(Succeeded(r)) : RowOrder(r)[n] = j
<1> DEFINE S == Succeeded(r)
           R == {p \in Jobs \X Jobs : RowBefore(p[1], p[2])}
<1>1. S \in SUBSET Jobs /\ \A j \in S : j.run = r
  BY DEF Succeeded, RowsIn
<1>2. IsFiniteSet(S)
  BY <1>1, NightOK, FS_Subset
<1>3. \A j, k \in S : <<j, k>> \in R <=> RowBefore(j, k)
  BY <1>1
<1>4. \A j \in S : /\ UserRank[j.user] \in Nat /\ SourceRank[j.source] \in Nat
  BY <1>1, RanksOK DEF Jobs
<1>5. \A j, k \in S : j = k \/ RowBefore(j, k) \/ RowBefore(k, j)
  <2> SUFFICES ASSUME NEW j \in S, NEW k \in S, ~RowBefore(j, k), ~RowBefore(k, j) PROVE j = k
    OBVIOUS
  <2>1. j.user = k.user
    BY <1>1, <1>4, RanksOK DEF RowBefore, Jobs
  <2>2. j.source = k.source
    BY <1>1, <1>4, <2>1, RanksOK DEF RowBefore, Jobs
  <2> QED BY <1>1, <2>1, <2>2 DEF Jobs
<1>6. OrderOn(S, R)
  <2> HIDE DEF S, R
  <2>1. \A x, y \in S : RowBefore(x, y) => ~RowBefore(y, x)
    BY <1>4 DEF RowBefore
  <2>2. \A x, y, z \in S : RowBefore(x, y) /\ RowBefore(y, z) => RowBefore(x, z)
    BY <1>4 DEF RowBefore
  <2> QED BY <1>3, <1>5, <2>1, <2>2 DEF OrderOn
<1>7. RowOrder(r) = InOrder(S, R)
  BY DEF RowOrder
<1> HIDE DEF S, R
<1>8. /\ Cardinality(S) \in Nat /\ InOrder(S, R) \in [1..Cardinality(S) -> S]
      /\ \A j \in S : \E n \in 1..Cardinality(S) : InOrder(S, R)[n] = j
  BY <1>2, <1>6, InOrderIs, FS_CardinalityType
<1> QED BY <1>7, <1>8 DEF S

\* The postings a consolidation reads are those of the succeeded rows' files.
LEMMA PostingsIs ==
  ASSUME NEW r, NEW P, \A j \in Succeeded(r) : files[j] \in Seq(P)
  PROVE  /\ Postings(r) \in Seq(P)
         /\ ToSet(Postings(r)) = UNION {ToSet(files[j]) : j \in Succeeded(r)}
<1> DEFINE rows == RowOrder(r)
           N == Len(rows)
           read[n \in 0..N] == IF n = 0 THEN << >> ELSE read[n - 1] \o files[rows[n]]
           step == [n \in 1..N |-> [s \in Seq(P) |-> s \o files[rows[n]]]]
           good == {n \in 0..N : read[n] \in Seq(P) /\ ToSet(read[n]) = UNION {ToSet(files[rows[m]]) : m \in 1..n}}
<1>1. Postings(r) = read[N]
  BY DEF Postings
<1>2. N \in Nat /\ rows \in [1..N -> Succeeded(r)] /\ \A j \in Succeeded(r) : \E n \in 1..N : rows[n] = j
  <2>1. N = Cardinality(Succeeded(r))
    BY RowOrderIs
  <2> QED BY <2>1, RowOrderIs
<1>3. \A n \in 1..N : files[rows[n]] \in Seq(P)
  BY <1>2
<1>4. step \in [1..N -> [Seq(P) -> Seq(P)]]
  <2> HIDE DEF rows, N
  <2>1. \A n \in 1..N : \A s \in Seq(P) : s \o files[rows[n]] \in Seq(P)
    BY <1>3
  <2> QED BY <2>1
<1> HIDE DEF rows, N, read
<1>5. \E f : f = [n \in 0..N |-> IF n = 0 THEN << >> ELSE f[n - 1] \o files[rows[n]]]
  <2> DEFINE A == Seq(P)
             a == << >>
             f == Iterate(A, a, N, step)
  <2>1. a \in A /\ N \in Nat /\ step \in [1..N -> [A -> A]]
    BY <1>2, <1>4
  <2>2. f \in [0..N -> A] /\ f[0] = a /\ \A n \in 1..N : f[n] = step[n][f[n - 1]]
    <3> HIDE DEF A, a, step
    <3> QED BY <2>1, Steps
  <2> HIDE DEF f
  <2>3. ASSUME NEW n \in 1..N PROVE f[n] = f[n - 1] \o files[rows[n]]
    <3>1. n - 1 \in 0..N
      BY <1>2
    <3>2. f[n - 1] \in Seq(P)
      BY <2>2, <3>1
    <3> QED BY <2>2, <3>2
  <2>4. f = [n \in 0..N |-> IF n = 0 THEN << >> ELSE f[n - 1] \o files[rows[n]]]
    <3>1. f = [n \in 0..N |-> f[n]] /\ f[0] = << >>
      BY <2>2
    <3>2. \A n \in 0..N : f[n] = IF n = 0 THEN << >> ELSE f[n - 1] \o files[rows[n]]
      <4> HIDE DEF step, A
      <4>1. \A n \in 0..N : n = 0 \/ n \in 1..N
        BY <1>2
      <4> QED BY <2>3, <3>1, <4>1
    <3> QED BY <3>1, <3>2
  <2> QED BY <2>4
<1>6. read = [n \in 0..N |-> IF n = 0 THEN << >> ELSE read[n - 1] \o files[rows[n]]]
  BY <1>5 DEF read
<1>7. 0 \in good
  <2>1. read[0] = << >> /\ 0 \in 0..N
    BY <1>2, <1>6
  <2>2. ToSet(<< >>) = {} /\ << >> \in Seq(P) /\ 1..0 = {}
    BY DEF ToSet
  <2> QED BY <2>1, <2>2
<1>8. ASSUME NEW n \in 1..N, n - 1 \in good PROVE n \in good
  <2>1. read[n] = read[n - 1] \o files[rows[n]]
    <3>1. n \in 0..N /\ n # 0
      BY <1>2
    <3> HIDE DEF good, step
    <3> QED BY <1>6, <3>1
  <2>2. read[n - 1] \in Seq(P) /\ files[rows[n]] \in Seq(P)
    BY <1>3, <1>8
  <2>3. \A s, t \in Seq(P) : s \o t \in Seq(P) /\ ToSet(s \o t) = ToSet(s) \cup ToSet(t)
    <3> SUFFICES ASSUME NEW s \in Seq(P), NEW t \in Seq(P)
                 PROVE  s \o t \in Seq(P) /\ ToSet(s \o t) = ToSet(s) \cup ToSet(t)
      OBVIOUS
    <3>1. /\ s \o t \in Seq(P) /\ Len(s \o t) = Len(s) + Len(t) /\ Len(s) \in Nat /\ Len(t) \in Nat
          /\ \A i \in 1..Len(s) : (s \o t)[i] = s[i]
          /\ \A i \in 1..Len(t) : (s \o t)[Len(s) + i] = t[i]
      OBVIOUS
    <3>2. DOMAIN (s \o t) = 1..(Len(s) + Len(t)) /\ DOMAIN s = 1..Len(s) /\ DOMAIN t = 1..Len(t)
      BY <3>1
    <3>3. ASSUME NEW x \in ToSet(s \o t) PROVE x \in ToSet(s) \cup ToSet(t)
      <4>1. PICK i \in 1..(Len(s) + Len(t)) : x = (s \o t)[i]
        BY <3>2 DEF ToSet
      <4>2. CASE i <= Len(s)
        BY <3>1, <3>2, <4>1, <4>2 DEF ToSet
      <4>3. CASE i > Len(s)
        <5>1. i - Len(s) \in 1..Len(t) /\ i = Len(s) + (i - Len(s))
          BY <3>1, <4>3
        <5> QED BY <3>1, <3>2, <4>1, <5>1 DEF ToSet
      <4> QED BY <3>1, <4>2, <4>3
    <3>4. ASSUME NEW x \in ToSet(s) \cup ToSet(t) PROVE x \in ToSet(s \o t)
      <4>1. CASE x \in ToSet(s)
        <5>1. PICK i \in 1..Len(s) : x = s[i]
          BY <3>2, <4>1 DEF ToSet
        <5>2. i \in DOMAIN (s \o t) /\ x = (s \o t)[i]
          BY <3>1, <3>2, <5>1
        <5> QED BY <5>2 DEF ToSet
      <4>2. CASE x \in ToSet(t)
        <5>1. PICK i \in 1..Len(t) : x = t[i]
          BY <3>2, <4>2 DEF ToSet
        <5>2. Len(s) + i \in DOMAIN (s \o t) /\ x = (s \o t)[Len(s) + i]
          BY <3>1, <3>2, <5>1
        <5> QED BY <5>2 DEF ToSet
      <4> QED BY <4>1, <4>2
    <3> QED BY <3>1, <3>3, <3>4
  <2>4. read[n] \in Seq(P) /\ ToSet(read[n]) = ToSet(read[n - 1]) \cup ToSet(files[rows[n]])
    BY <2>1, <2>2, <2>3
  <2>5. 1..n = 1..(n - 1) \cup {n} /\ n \in 0..N
    BY <1>2
  <2> QED BY <1>8, <2>4, <2>5
<1>9. N \in good
  <2> HIDE DEF good
  <2>1. Inductive(N, good)
    BY <1>7, <1>8 DEF Inductive
  <2> QED BY <1>2, <2>1, UpTo
<1> QED BY <1>1, <1>2, <1>9

-----------------------------------------------------------------------------
(* The operators of the actions keep the types.                             *)

\* What a search finds: the postings of the row's offers.
LEMMA FoundAre ==
  ASSUME NEW j \in Searchable, NEW found \in Found(j)
  PROVE  /\ found \in Seq(AnyPosting) /\ DOMAIN found = DOMAIN Offers[j]
         /\ \A i \in DOMAIN found : /\ found[i].title = Offers[j][i].title /\ found[i].key = Offers[j][i].key
<1>1. DOMAIN Offers[j] = 1..Len(Offers[j]) /\ Len(Offers[j]) \in Nat
  BY OffersOK
<1>2. PICK ls \in [DOMAIN Offers[j] -> Lengths[j.source]] :
        found = [i \in DOMAIN Offers[j] |-> [key |-> Offers[j][i].key, title |-> Offers[j][i].title,
                                             desc |-> ls[i], ctxs |-> {<<j.user, j.source>>}]]
  BY DEF Found
<1>3. ToSet(found) \subseteq AnyPosting
  <2>1. ToSet(found) \subseteq OfRow(j)
    BY DEF OfRow
  <2> QED BY <2>1 DEF AnyPosting
<1>4. DOMAIN found = 1..Len(Offers[j]) /\ \A i \in 1..Len(Offers[j]) : found[i] \in AnyPosting
  BY <1>1, <1>2, <1>3 DEF ToSet
<1>5. found \in Seq(AnyPosting)
  <2>1. found = [i \in 1..Len(Offers[j]) |-> found[i]]
    BY <1>1, <1>2
  <2>2. found \in [1..Len(Offers[j]) -> AnyPosting]
    BY <1>4, <2>1
  <2> QED BY <1>1, <2>2, SeqDef
<1> QED BY <1>1, <1>2, <1>5

LEMMA AnyPostingAre == ArePostings(AnyPosting)
<1> SUFFICES ASSUME NEW q \in AnyPosting
             PROVE  /\ q.desc \in Nat
                    /\ \A X : LET c == [q EXCEPT !.ctxs = X] IN c.key = q.key /\ c.desc = q.desc /\ c.ctxs = X
  BY DEF ArePostings
<1>1. CASE \E j \in Searchable : \E found \in Found(j) : q \in ToSet(found)
  <2>1. PICK j \in Searchable : \E found \in Found(j) : q \in ToSet(found)
    BY <1>1
  <2>2. PICK ls \in [DOMAIN Offers[j] -> Lengths[j.source]], i \in DOMAIN Offers[j] :
          q = [key |-> Offers[j][i].key, title |-> Offers[j][i].title,
               desc |-> ls[i], ctxs |-> {<<j.user, j.source>>}]
    BY <2>1 DEF Found, ToSet
  <2>3. ls[i] \in Nat
    BY OffersOK
  <2> QED BY <2>2, <2>3
<1>2. CASE \E l \in AllLinks : q \in Fetched(l) \cup {Unvisited(l, o) : o \in {EXPIRED, EXTERNAL_ATS}}
  <2>1. \E key, title, desc, outcome : /\ desc \in {0, 1}
          /\ q = [key |-> key, title |-> title, desc |-> desc, ctxs |-> {}, outcome |-> outcome]
    BY <1>2 DEF Fetched, Contents, Unvisited, Posting
  <2> QED BY <2>1
<1>3. \/ \E j \in Searchable : \E found \in Found(j) : q \in ToSet(found)
      \/ \E l \in AllLinks : q \in Fetched(l) \cup {Unvisited(l, o) : o \in {EXPIRED, EXTERNAL_ATS}}
  <2>1. (\E j \in Searchable : q \in OfRow(j)) \/ (\E l \in AllLinks : q \in OfLink(l))
    BY DEF AnyPosting
  <2> QED BY <2>1 DEF OfRow, OfLink
<1> QED BY <1>1, <1>2, <1>3

LEMMA LinkPostings ==
  ASSUME NEW l \in AllLinks, NEW b
  PROVE  Fetched(l) \subseteq AnyPosting /\ Routed(l, b) \subseteq AnyPosting
<1>1. Fetched(l) \subseteq OfLink(l) /\ Routed(l, b) \subseteq OfLink(l)
  BY DEF Routed, OfLink
<1>2. OfLink(l) \subseteq AnyPosting
  BY DEF AnyPosting
<1> QED BY <1>1, <1>2

\* A policy keeps some of the batch.
LEMMA KeptTyped ==
  ASSUME NEW T, NEW s \in Seq(T)
  PROVE  /\ \A ex : TitleFilter(s, ex) \in Seq(T)
         /\ \A u, d : Veto(u, s, d) \in Seq(T)
         /\ OnlyEnriched(s) \in Seq(T)
<1>1. \A I \in SUBSET DOMAIN s : Pick(s, I) \in Seq(T)
  BY PickIs
<1>2. ASSUME NEW ex PROVE TitleFilter(s, ex) \in Seq(T)
  BY <1>1 DEF TitleFilter
<1>3. ASSUME NEW u, NEW d PROVE Veto(u, s, d) \in Seq(T)
  BY <1>1 DEF Veto
<1>4. OnlyEnriched(s) \in Seq(T)
  BY <1>1 DEF OnlyEnriched
<1> QED BY <1>2, <1>3, <1>4

LEMMA FirstNTyped ==
  ASSUME NEW T, NEW s \in Seq(T), NEW n, n = Unlimited \/ n \in Nat
  PROVE  FirstN(s, n) \in Seq(T)
<1>1. CASE n = Unlimited \/ n >= Len(s)
  BY <1>1 DEF FirstN
<1>2. CASE ~(n = Unlimited \/ n >= Len(s))
  <2>1. n \in 0..Len(s)
    BY <1>2
  <2>2. SubSeq(s, 1, n) \in Seq(T)
    BY <2>1
  <2> QED BY <1>2, <2>2 DEF FirstN
<1> QED BY <1>1, <1>2

LEMMA PulledTyped ==
  ASSUME NEW d \in Seq(Emails), NEW out \in SUBSET Emails, NEW n, n = Unlimited \/ n \in Nat
  PROVE  Pulled(d, out, n) \in Seq(Emails)
<1> DEFINE R == {p \in out \X out : p[1] > p[2]}
           got == FirstN(NewestFirst(out), n)
<1>1. IsFiniteSet(out) /\ out \subseteq Nat
  BY AlertsOK, FS_Subset
<1>2. OrderOn(out, R)
  <2>1. \A e, f \in out : <<e, f>> \in R <=> e > f
    OBVIOUS
  <2> HIDE DEF R
  <2> QED BY <1>1, <2>1 DEF OrderOn
<1>3. NewestFirst(out) \in Seq(Emails)
  <2> DEFINE s == InOrder(out, R)
  <2>1. Cardinality(out) \in Nat /\ s \in [1..Cardinality(out) -> out]
    <3> HIDE DEF R
    <3> QED BY <1>1, <1>2, InOrderIs, FS_CardinalityType
  <2>2. s = NewestFirst(out)
    BY DEF NewestFirst
  <2> HIDE DEF s
  <2>3. s \in [1..Cardinality(out) -> Emails]
    BY <2>1
  <2>4. s \in Seq(Emails)
    BY <2>1, <2>3, SeqDef
  <2> QED BY <2>2, <2>4
<1>4. got \in Seq(Emails)
  BY <1>3, FirstNTyped
<1> HIDE DEF got
<1>5. Reverse(got) \in Seq(Emails)
  <2>1. Len(got) \in Nat /\ \A i \in 1..Len(got) : got[Len(got) - i + 1] \in Emails
    BY <1>4
  <2>2. Reverse(got) \in [1..Len(got) -> Emails]
    BY <2>1 DEF Reverse
  <2> QED BY <2>1, <2>2, SeqDef
<1>6. Pick(d, {i \in DOMAIN d : d[i] \notin ToSet(got)}) \in Seq(Emails)
  BY PickIs
<1>7. Pulled(d, out, n) = Reverse(got) \o Pick(d, {i \in DOMAIN d : d[i] \notin ToSet(got)})
  BY DEF Pulled, got
<1> QED BY <1>5, <1>6, <1>7

-----------------------------------------------------------------------------
(* EmailInv is an invariant.                                                *)

LEMMA WorkerAt ==
  ASSUME ProcTyped,
         NEW x \in {"claim", "scrape", "filter", "embed", "persist", "succeed", "fail", "read"},
         At("worker", x)
  PROVE  proc["worker"] \in WorkerStates
BY DEF ProcTyped, At, Idle, WorkerStates, FanStates

LEMMA EmailAt ==
  ASSUME ProcTyped,
         NEW x \in {"load", "pull", "select", "loop", "visit", "write", "hand over", "enqueue",
                    "succeed", "read"},
         At("email", x)
  PROVE  Email \in EmailStates
<1>1. x # "idle" /\ x \notin {"upsert", "consolidated"}
  OBVIOUS
<1>2. Email.pc = x /\ Email \in {Idle} \cup EmailStates \cup FanStates(EmailRuns, Jobs)
  BY DEF ProcTyped, At, Email
<1>3. Idle.pc = "idle" /\ \A s \in FanStates(EmailRuns, Jobs) : s.pc \in {"upsert", "consolidated"}
  BY DEF Idle, FanStates
<1> QED BY <1>1, <1>2, <1>3

LEMMA FanAt ==
  ASSUME ProcTyped, NEW p \in Pipelines, At(p, "upsert") \/ At(p, "consolidated")
  PROVE  /\ proc[p] \in FanStates({NightRun} \cup EmailRuns, WorkerRows \cup Jobs)
         /\ p = "worker" => proc[p] \in FanStates({NightRun}, WorkerRows)
         /\ p = "email" => proc[p] \in FanStates(EmailRuns, Jobs)
<1>1. p = "worker" => proc[p] \in FanStates({NightRun}, WorkerRows)
  BY DEF ProcTyped, At, Idle, WorkerStates
<1>2. p = "email" => proc[p] \in FanStates(EmailRuns, Jobs)
  <2>1. \A s \in EmailStates : s.pc \notin {"upsert", "consolidated"}
    BY DEF EmailStates
  <2>2. Idle.pc = "idle"
    BY DEF Idle
  <2> QED BY <2>1, <2>2 DEF ProcTyped, At
<1>3. p = "worker" \/ p = "email"
  BY DEF Pipelines
<1> QED BY <1>1, <1>2, <1>3 DEF FanStates

LEMMA Turn ==
  ASSUME ProcTyped, NEW p \in Pipelines, NEW s, proc' = [proc EXCEPT ![p] = s]
  PROVE  /\ proc'[p] = s /\ \A q \in Pipelines : q # p => proc'[q] = proc[q]
         /\ proc' = [q \in Pipelines |-> proc'[q]]
BY DEF ProcTyped

\* What a step of the email pipeline may do to the rows and their files.
LEMMA EmailMoves ==
  ASSUME EmailInv,
         NEW s \in {Idle} \cup EmailStates \cup FanStates(EmailRuns, Jobs),
         proc' = [proc EXCEPT !["email"] = s],
         \A j \in Jobs : files[j] \in Seq(AnyPosting) => files'[j] \in Seq(AnyPosting),
         \A j \in Jobs : status'[j] = "succeeded" /\ status[j] # "succeeded" => files'[j] \in Seq(AnyPosting),
         \A j \in Jobs : j.source # EMAIL_SOURCE => status'[j] = status[j],
         s.pc \in {"enqueue", "succeed"} => files'[s.row] \in Seq(AnyPosting),
         s.pc # "idle" => s.row = EmailRow(s.run),
         s.pc = "load" => enriched' # NoFile,
         s.pc = "visit" => s.todo # << >>
  PROVE  /\ ProcTyped' /\ FilesThere' /\ RowsInHand' /\ Readied'
         /\ Email' = s /\ proc'["worker"] = proc["worker"]
<1> USE DEF EmailInv
<1>1. Email' = s /\ proc'["worker"] = proc["worker"] /\ proc' = [q \in Pipelines |-> proc'[q]]
  BY Turn DEF Pipelines, Email
<1>2. ProcTyped'
  BY <1>1 DEF ProcTyped, Email
<1>3. RowsInHand'
  <2>1. \A j \in Jobs : status'[j] # "absent" /\ j.source # EMAIL_SOURCE => j \in Searchable
    BY DEF RowsInHand
  <2>2. ASSUME NEW x \in {"scrape", "filter", "embed", "persist", "succeed", "fail"}, At("worker", x)'
        PROVE  /\ proc'["worker"].row \in Jobs
               /\ proc'["worker"].row.source # EMAIL_SOURCE => status'[proc'["worker"].row] = "running"
    BY <1>1, <2>2 DEF RowsInHand, At
  <2>3. ASSUME NEW x \in {"filter", "embed", "persist", "succeed"}, At("worker", x)'
        PROVE  proc'["worker"].row.source # EMAIL_SOURCE
    BY <1>1, <2>3 DEF RowsInHand, At
  <2>4. (~At("email", "idle") => Email.row = EmailRow(Email.run))'
    BY <1>1 DEF At, Email, EmailRow
  <2> QED BY <2>1, <2>2, <2>3, <2>4 DEF RowsInHand
<1>4. FilesThere'
  <2>1. \A j \in RowsIn("succeeded")' : files'[j] \in Seq(AnyPosting)
    BY DEF FilesThere, RowsIn
  <2>2. At("worker", "succeed")' => files'[proc'["worker"].row] \in Seq(AnyPosting)
    BY <1>1 DEF FilesThere, RowsInHand, At
  <2>3. \A x \in {"enqueue", "succeed"} : At("email", x)' => files'[Email'.row] \in Seq(AnyPosting)
    BY <1>1 DEF At, Email
  <2> QED BY <2>1, <2>2, <2>3 DEF FilesThere
<1>5. Readied'
  BY <1>1 DEF Readied, At, Email
<1> QED BY <1>1, <1>2, <1>3, <1>4, <1>5

\* What a step of the worker may do to them.
LEMMA WorkerMoves ==
  ASSUME EmailInv,
         NEW s \in {Idle} \cup WorkerStates \cup FanStates({NightRun}, WorkerRows),
         proc' = [proc EXCEPT !["worker"] = s],
         \A j \in Jobs : files[j] \in Seq(AnyPosting) => files'[j] \in Seq(AnyPosting),
         \A j \in Jobs : status'[j] = "succeeded" /\ status[j] # "succeeded" => files'[j] \in Seq(AnyPosting),
         \A j \in Jobs : status[j] = "absent" => status'[j] = "absent" \/ j.source = EMAIL_SOURCE,
         s.pc \in {"scrape", "filter", "embed", "persist", "succeed", "fail"} =>
           s.row \in Jobs /\ (s.row.source # EMAIL_SOURCE => status'[s.row] = "running"),
         s.pc \in {"filter", "embed", "persist", "succeed"} => s.row.source # EMAIL_SOURCE,
         s.pc = "succeed" => files'[s.row] \in Seq(AnyPosting),
         UNCHANGED enriched
  PROVE  ProcTyped' /\ FilesThere' /\ RowsInHand' /\ Readied' /\ proc'["worker"] = s /\ Email' = Email
<1> USE DEF EmailInv
<1>1. proc'["worker"] = s /\ Email' = Email /\ proc' = [q \in Pipelines |-> proc'[q]]
  BY Turn DEF Pipelines, Email
<1>2. ProcTyped'
  BY <1>1 DEF ProcTyped, Email
<1>3. RowsInHand'
  <2>1. \A j \in Jobs : status'[j] # "absent" /\ j.source # EMAIL_SOURCE => j \in Searchable
    BY DEF RowsInHand
  <2>2. \A x \in {"scrape", "filter", "embed", "persist", "succeed", "fail"} : At("worker", x)' =>
          /\ proc'["worker"].row \in Jobs
          /\ proc'["worker"].row.source # EMAIL_SOURCE => status'[proc'["worker"].row] = "running"
    BY <1>1 DEF At
  <2>3. \A x \in {"filter", "embed", "persist", "succeed"} : At("worker", x)' =>
          proc'["worker"].row.source # EMAIL_SOURCE
    BY <1>1 DEF At
  <2>4. (~At("email", "idle") => Email.row = EmailRow(Email.run))'
    BY <1>1 DEF At, Email, EmailRow, RowsInHand
  <2> QED BY <2>1, <2>2, <2>3, <2>4 DEF RowsInHand
<1>4. FilesThere'
  <2>1. \A j \in RowsIn("succeeded")' : files'[j] \in Seq(AnyPosting)
    BY DEF FilesThere, RowsIn
  <2>2. At("worker", "succeed")' => files'[proc'["worker"].row] \in Seq(AnyPosting)
    BY <1>1 DEF At
  <2>3. ASSUME NEW x \in {"enqueue", "succeed"}, At("email", x)' PROVE files'[Email'.row] \in Seq(AnyPosting)
    <3>1. At("email", x) /\ Email' = Email
      BY <1>1, <2>3 DEF At, Email
    <3>2. Email.row \in Jobs
      BY <3>1, EmailAt DEF EmailStates
    <3> QED BY <3>1, <3>2 DEF FilesThere
  <2> QED BY <2>1, <2>2, <2>3 DEF FilesThere
<1>5. Readied'
  BY <1>1 DEF Readied, At, Email
<1> QED BY <1>1, <1>2, <1>3, <1>4, <1>5

LEMMA DataKept == EmailInv /\ UNCHANGED <<status, settings, files, scraped, enriched>> => DataTyped'
BY DEF EmailInv, DataTyped

LEMMA MailKept == EmailInv /\ UNCHANGED <<disk, sent, seen, visits, lost>> => MailTyped'
BY DEF EmailInv, MailTyped

LEMMA InitEmailInv == EmailInit => EmailInv
<1> SUFFICES ASSUME EmailInit PROVE EmailInv
  OBVIOUS
<1> USE DEF EmailInit
<1>1. ProcTyped
  BY DEF ProcTyped, Pipelines
<1>2. status \in [Jobs -> Statuses] /\ << >> \in Seq(AnyPosting) /\ << >> \in Seq(Emails)
  BY DEF Statuses
<1>3. DataTyped
  BY <1>2 DEF DataTyped
<1>4. MailTyped
  BY <1>2 DEF MailTyped, SeenStore!Empty
<1>5. FilesThere
  BY DEF FilesThere, RowsIn, At, Pipelines, Idle, Email
<1>6. RowsInHand
  BY DEF RowsInHand, Searchable, At, Pipelines, Idle, Email
<1>7. Readied
  BY DEF Readied, At, Pipelines, Idle
<1> QED BY <1>1, <1>3, <1>4, <1>5, <1>6, <1>7 DEF EmailInv

\* Each step of the worker keeps EmailInv.

LEMMA StartWorkerTyped == EmailInv /\ StartWorker => EmailInv'
<1> SUFFICES ASSUME EmailInv, StartWorker PROVE EmailInv'
  OBVIOUS
<1> USE DEF StartWorker, stage, mail, queueVars
<1> DEFINE s == [pc |-> "claim", run |-> NightRun, row |-> Planned[1], jobs |-> << >>, raw |-> << >>]
<1>1. s \in WorkerStates /\ s.pc = "claim"
  <2>1. << >> \in Seq(AnyPosting)
    OBVIOUS
  <2> QED BY <2>1 DEF WorkerStates, WorkerRows
<1>2. proc' = [proc EXCEPT !["worker"] = s]
  OBVIOUS
<1> HIDE DEF s
<1>3. ProcTyped' /\ FilesThere' /\ RowsInHand' /\ Readied'
  BY <1>1, <1>2, WorkerMoves
<1> QED BY <1>3, DataKept, MailKept DEF EmailInv

LEMMA ClaimTyped == ASSUME NEW j \in Jobs PROVE EmailInv /\ Claim(j) => EmailInv'
<1> SUFFICES ASSUME EmailInv, Claim(j) PROVE EmailInv'
  OBVIOUS
<1> USE DEF Claim, stage, mail, count
<1> DEFINE s == [proc["worker"] EXCEPT !.pc = "scrape", !.row = j]
<1>1. proc["worker"] \in WorkerStates
  BY WorkerAt DEF EmailInv
<1>2. s \in WorkerStates /\ s.pc = "scrape" /\ s.row = j
  BY <1>1 DEF WorkerStates, WorkerRows
<1>3. proc' = [proc EXCEPT !["worker"] = s]
  OBVIOUS
<1>4. status[j] = "pending" /\ status' = [status EXCEPT ![j] = "running"] /\ status \in [Jobs -> Statuses]
  BY DEF NextClaim, Claimable, Lease, EmailInv, DataTyped
<1>5. ProcTyped' /\ FilesThere' /\ RowsInHand' /\ Readied'
  <2> HIDE DEF s
  <2> QED BY <1>2, <1>3, <1>4, WorkerMoves
<1>6. DataTyped'
  BY <1>4 DEF EmailInv, DataTyped, Statuses
<1> QED BY <1>5, <1>6, MailKept DEF EmailInv

LEMMA QueueDrainedTyped == EmailInv /\ QueueDrained => EmailInv'
<1> SUFFICES ASSUME EmailInv, QueueDrained PROVE EmailInv'
  OBVIOUS
<1> USE DEF QueueDrained, stage, mail, count, queueVars
<1> DEFINE s == [proc["worker"] EXCEPT !.pc = "read"]
<1>1. proc["worker"] \in WorkerStates
  BY WorkerAt DEF EmailInv
<1>2. s \in WorkerStates /\ s.pc = "read"
  BY <1>1 DEF WorkerStates
<1>3. proc' = [proc EXCEPT !["worker"] = s]
  BY DEF Onward
<1> HIDE DEF s
<1>4. ProcTyped' /\ FilesThere' /\ RowsInHand' /\ Readied'
  BY <1>2, <1>3, WorkerMoves
<1> QED BY <1>4, DataKept, MailKept DEF EmailInv

\* The row whose searches the worker runs.
LEMMA RowInHand ==
  ASSUME EmailInv,
         NEW x \in {"scrape", "filter", "embed", "persist", "succeed", "fail"}, At("worker", x)
  PROVE  /\ proc["worker"] \in WorkerStates /\ proc["worker"].row \in Jobs
         /\ proc["worker"].row.source # EMAIL_SOURCE =>
              proc["worker"].row \in Searchable /\ status[proc["worker"].row] = "running"
         /\ x \in {"filter", "embed", "persist", "succeed"} => proc["worker"].row.source # EMAIL_SOURCE
<1>1. proc["worker"] \in WorkerStates
  BY WorkerAt DEF EmailInv
<1>2. /\ proc["worker"].row \in Jobs
      /\ proc["worker"].row.source # EMAIL_SOURCE => status[proc["worker"].row] = "running"
      /\ x \in {"filter", "embed", "persist", "succeed"} => proc["worker"].row.source # EMAIL_SOURCE
  BY DEF EmailInv, RowsInHand
<1> QED BY <1>1, <1>2 DEF EmailInv, RowsInHand

LEMMA ScrapeTyped == EmailInv /\ Scrape => EmailInv'
<1> SUFFICES ASSUME EmailInv, Scrape PROVE EmailInv'
  OBVIOUS
<1> USE DEF Scrape, stage, mail, count, queueVars
<1>1. PICK found \in Found(proc["worker"].row) :
        proc' = [proc EXCEPT !["worker"] = [@ EXCEPT !.pc = "filter", !.raw = found]]
  OBVIOUS
<1> DEFINE s == [proc["worker"] EXCEPT !.pc = "filter", !.raw = found]
<1>2. /\ proc["worker"] \in WorkerStates /\ proc["worker"].row \in Searchable
      /\ proc["worker"].row \in Jobs /\ status[proc["worker"].row] = "running"
  BY RowInHand
<1>3. found \in Seq(AnyPosting)
  BY <1>2, FoundAre
<1>4. s \in WorkerStates /\ s.pc = "filter" /\ s.row = proc["worker"].row
  BY <1>2, <1>3 DEF WorkerStates
<1>5. proc' = [proc EXCEPT !["worker"] = s]
  BY <1>1
<1> HIDE DEF s
<1>6. ProcTyped' /\ FilesThere' /\ RowsInHand' /\ Readied'
  BY <1>2, <1>4, <1>5, WorkerMoves
<1> QED BY <1>6, DataKept, MailKept DEF EmailInv

LEMMA ScrapeRaisesTyped == EmailInv /\ (ScrapeRaises \/ EmbedRaises) => EmailInv'
<1> SUFFICES ASSUME EmailInv, ScrapeRaises \/ EmbedRaises PROVE EmailInv'
  OBVIOUS
<1> USE DEF ScrapeRaises, EmbedRaises, stage, mail, count, queueVars
<1> DEFINE s == [proc["worker"] EXCEPT !.pc = "fail"]
<1>1. /\ proc["worker"] \in WorkerStates /\ proc["worker"].row \in Jobs
      /\ proc["worker"].row.source # EMAIL_SOURCE => status[proc["worker"].row] = "running"
  BY RowInHand
<1>2. s \in WorkerStates /\ s.pc = "fail" /\ s.row = proc["worker"].row
  BY <1>1 DEF WorkerStates
<1>3. proc' = [proc EXCEPT !["worker"] = s]
  BY DEF Onward
<1> HIDE DEF s
<1>4. ProcTyped' /\ FilesThere' /\ RowsInHand' /\ Readied'
  BY <1>1, <1>2, <1>3, WorkerMoves
<1> QED BY <1>4, DataKept, MailKept DEF EmailInv

LEMMA FilterTyped == EmailInv /\ Filter => EmailInv'
<1> SUFFICES ASSUME EmailInv, Filter PROVE EmailInv'
  OBVIOUS
<1> USE DEF Filter, stage, mail, count, queueVars
<1> DEFINE w == proc["worker"]
           kept == TitleFilter(w.raw, Policies(w.row.user).excluded)
<1>1. PICK x \in {"fail", "embed", "persist"} : proc' = [proc EXCEPT !["worker"] = [@ EXCEPT !.jobs = kept, !.pc = x]]
  OBVIOUS
<1> DEFINE s == [w EXCEPT !.jobs = kept, !.pc = x]
<1>2. w \in WorkerStates /\ w.row \in Jobs /\ status[w.row] = "running" /\ w.row.source # EMAIL_SOURCE
  BY RowInHand
<1>3. kept \in Seq(AnyPosting)
  BY <1>2, KeptTyped DEF WorkerStates
<1>4. s \in WorkerStates /\ s.pc = x /\ s.row = w.row
  BY <1>2, <1>3 DEF WorkerStates
<1>5. proc' = [proc EXCEPT !["worker"] = s]
  BY <1>1
<1> HIDE DEF s
<1>6. ProcTyped' /\ FilesThere' /\ RowsInHand' /\ Readied'
  BY <1>2, <1>4, <1>5, WorkerMoves
<1> QED BY <1>6, DataKept, MailKept DEF EmailInv

LEMMA EmbedTyped == EmailInv /\ Embed => EmailInv'
<1> SUFFICES ASSUME EmailInv, Embed PROVE EmailInv'
  OBVIOUS
<1> USE DEF Embed, mail, count, queueVars
<1> DEFINE w == proc["worker"]
           kept == Veto(w.row.user, w.jobs, Depth(settings.system, Policies(w.row.user)))
           s == [w EXCEPT !.pc = "persist", !.jobs = kept]
<1>2. w \in WorkerStates /\ w.row \in Jobs /\ status[w.row] = "running" /\ w.row.source # EMAIL_SOURCE
  BY RowInHand
<1>3. kept \in Seq(AnyPosting)
  BY <1>2, KeptTyped DEF WorkerStates
<1>4. s \in WorkerStates /\ s.pc = "persist" /\ s.row = w.row
  BY <1>2, <1>3 DEF WorkerStates
<1>5. proc' = [proc EXCEPT !["worker"] = s]
  OBVIOUS
<1> HIDE DEF s
<1>6. ProcTyped' /\ FilesThere' /\ RowsInHand' /\ Readied'
  BY <1>2, <1>4, <1>5, WorkerMoves
<1> QED BY <1>6, DataKept, MailKept DEF EmailInv

LEMMA PersistTyped == EmailInv /\ Persist => EmailInv'
<1> SUFFICES ASSUME EmailInv, Persist PROVE EmailInv'
  OBVIOUS
<1> USE DEF Persist, mail, count, queueVars
<1> DEFINE w == proc["worker"]
           s == [w EXCEPT !.pc = "succeed"]
<1>1. w \in WorkerStates /\ w.row \in Jobs /\ status[w.row] = "running" /\ w.row.source # EMAIL_SOURCE
  BY RowInHand
<1>2. w.jobs \in Seq(AnyPosting) /\ w.raw \in Seq(AnyPosting)
  BY <1>1 DEF WorkerStates
<1>3. s \in WorkerStates /\ s.pc = "succeed" /\ s.row = w.row
  BY <1>1 DEF WorkerStates
<1>4. proc' = [proc EXCEPT !["worker"] = s]
  BY DEF Onward
<1>5. files \in [Jobs -> Seq(AnyPosting) \cup {NoFile}] /\ scraped \in [Jobs -> Seq(AnyPosting)]
  BY DEF EmailInv, DataTyped
<1> HIDE DEF s
<1>6. ProcTyped' /\ FilesThere' /\ RowsInHand' /\ Readied'
  BY <1>1, <1>2, <1>3, <1>4, <1>5, WorkerMoves
<1>7. DataTyped'
  BY <1>1, <1>2, <1>5 DEF EmailInv, DataTyped
<1> QED BY <1>6, <1>7, MailKept DEF EmailInv

LEMMA FinishTyped == EmailInv /\ Finish => EmailInv'
<1> SUFFICES ASSUME EmailInv, Finish PROVE EmailInv'
  OBVIOUS
<1> USE DEF Finish, stage, mail, count
<1> DEFINE w == proc["worker"]
           s == [w EXCEPT !.pc = "claim"]
<1>1. PICK x \in {"succeed", "fail"} : At("worker", x)
  OBVIOUS
<1>2. w \in WorkerStates /\ w.row \in Jobs /\ (w.row.source # EMAIL_SOURCE => status[w.row] = "running")
  BY <1>1, RowInHand
<1>3. s \in WorkerStates /\ s.pc = "claim"
  BY <1>2 DEF WorkerStates
<1>4. proc' = [proc EXCEPT !["worker"] = s]
  BY DEF Onward
<1>5. PICK v \in {"succeeded", "failed"} : /\ status' = [status EXCEPT ![w.row] = v]
                                           /\ v = "succeeded" => At("worker", "succeed")
  BY DEF Mark
<1>6. status \in [Jobs -> Statuses] /\ UNCHANGED files
  BY DEF EmailInv, DataTyped
<1>7. v = "succeeded" => files[w.row] \in Seq(AnyPosting)
  BY <1>5 DEF EmailInv, FilesThere
<1> HIDE DEF s
<1>8. ProcTyped' /\ FilesThere' /\ RowsInHand' /\ Readied'
  BY <1>2, <1>3, <1>4, <1>5, <1>6, <1>7, WorkerMoves
<1>9. DataTyped'
  BY <1>2, <1>5, <1>6 DEF EmailInv, DataTyped, Statuses
<1> QED BY <1>8, <1>9, MailKept DEF EmailInv

LEMMA InterruptWorkerTyped == EmailInv /\ InterruptWorker => EmailInv'
<1> SUFFICES ASSUME EmailInv, InterruptWorker PROVE EmailInv'
  OBVIOUS
<1> USE DEF InterruptWorker, stage, mail
<1>1. proc' = [proc EXCEPT !["worker"] = Idle] /\ Idle.pc = "idle"
  BY DEF Exit, Idle
<1>2. /\ status \in [Jobs -> Statuses]
      /\ status' = [j \in Jobs |-> IF j.run = NightRun /\ status[j] = "running" THEN "pending" ELSE status[j]]
  BY DEF RequeueRunning, EmailInv, DataTyped
<1>3. ProcTyped' /\ FilesThere' /\ RowsInHand' /\ Readied'
  <2> HIDE DEF Idle
  <2> QED BY <1>1, <1>2, WorkerMoves
<1>4. DataTyped'
  BY <1>2 DEF EmailInv, DataTyped, Statuses
<1> QED BY <1>3, <1>4, MailKept DEF EmailInv

LEMMA CrashWorkerTyped == EmailInv /\ CrashWorker => EmailInv'
<1> SUFFICES ASSUME EmailInv, CrashWorker PROVE EmailInv'
  OBVIOUS
<1> USE DEF CrashWorker, queueVars, mail
<1> DEFINE w == proc["worker"]
<1>1. proc' = [proc EXCEPT !["worker"] = Idle] /\ Idle.pc = "idle"
  BY DEF Exit, Idle
<1>2. files \in [Jobs -> Seq(AnyPosting) \cup {NoFile}]
  BY DEF EmailInv, DataTyped
<1>3. /\ files' \in [Jobs -> Seq(AnyPosting) \cup {NoFile}]
      /\ \A j \in Jobs : files[j] \in Seq(AnyPosting) => files'[j] \in Seq(AnyPosting)
  <2>1. CASE files' = files
    BY <1>2, <2>1
  <2>2. CASE At("worker", "persist") /\ files' # files
    <3>1. w \in WorkerStates /\ w.row \in Jobs
      BY <2>2, RowInHand
    <3>2. PICK n \in 0..Len(w.jobs) : files' = [files EXCEPT ![w.row] = SubSeq(w.jobs, 1, n)]
      BY <2>2
    <3>3. SubSeq(w.jobs, 1, n) \in Seq(AnyPosting)
      <4>1. w.jobs \in Seq(AnyPosting)
        BY <3>1 DEF WorkerStates
      <4> QED BY <4>1
    <3> QED BY <1>2, <3>1, <3>2, <3>3
  <2> QED BY <2>1, <2>2
<1>4. ProcTyped' /\ FilesThere' /\ RowsInHand' /\ Readied'
  <2> HIDE DEF Idle
  <2> QED BY <1>1, <1>3, WorkerMoves
<1>5. DataTyped'
  BY <1>3 DEF EmailInv, DataTyped
<1> QED BY <1>4, <1>5, MailKept DEF EmailInv

\* Each step of the email pipeline keeps EmailInv.

\* The steps that leave the rows and their files alone.
LEMMA EmailGoesOn ==
  ASSUME EmailInv, NEW s \in {Idle} \cup EmailStates,
         proc' = [proc EXCEPT !["email"] = s],
         UNCHANGED <<queueVars, files>>,
         s.pc \notin {"enqueue", "succeed"},
         s.pc # "idle" => s.row = EmailRow(s.run),
         s.pc = "load" => enriched' # NoFile,
         s.pc = "visit" => s.todo # << >>
  PROVE  ProcTyped' /\ FilesThere' /\ RowsInHand' /\ Readied' /\ Email' = s
BY EmailMoves DEF queueVars

LEMMA EmailRunIs ==
  ASSUME EmailInv,
         NEW x \in {"load", "pull", "select", "loop", "visit", "write", "hand over", "enqueue",
                    "succeed", "read"},
         At("email", x)
  PROVE  Email \in EmailStates /\ Email.row = EmailRow(Email.run) /\ Email.opt \in EmailOptions
<1>1. Email \in EmailStates
  BY EmailAt DEF EmailInv
<1> QED BY <1>1 DEF EmailInv, RowsInHand, At, EmailStates

LEMMA StartEmailTyped ==
  ASSUME NEW opt \in EmailOptions, NEW r \in EmailRuns
  PROVE  EmailInv /\ StartEmail(opt, r) => EmailInv'
<1> SUFFICES ASSUME EmailInv, StartEmail(opt, r) PROVE EmailInv'
  OBVIOUS
<1> USE DEF StartEmail, stage, mail
<1>1. PICK x \in {"load", "pull", "select"} :
        proc' = [proc EXCEPT !["email"] =
                   [pc |-> x, opt |-> opt, run |-> r, row |-> EmailRow(r), seen |-> SeenStore!Load(seen),
                    todo |-> <<>>, links |-> <<>>, got |-> <<>>, jobs |-> <<>>]] /\ (x = "load" => enriched # NoFile)
  <2>1. CASE opt.mode = "score"
    BY <2>1
  <2>2. CASE opt.mode # "score" /\ opt.pull
    BY <2>2
  <2>3. CASE opt.mode # "score" /\ ~opt.pull
    BY <2>3
  <2> QED BY <2>1, <2>2, <2>3
<1> DEFINE s == [pc |-> x, opt |-> opt, run |-> r, row |-> EmailRow(r), seen |-> SeenStore!Load(seen),
                 todo |-> <<>>, links |-> <<>>, got |-> <<>>, jobs |-> <<>>]
<1> HIDE DEF StartEmail
<1>6. UNCHANGED <<queueVars, stage, mail, lost>>
  BY DEF StartEmail
<1>2. s \in EmailStates /\ s.pc = x /\ s.row = EmailRow(s.run)
  <2>1. SeenStore!Load(seen) \in SUBSET Records
    BY DEF EmailInv, MailTyped, SeenStore!Load
  <2>2. EmailRow(r) \in Jobs
    BY NightOK DEF EmailRow, Jobs
  <2>3. << >> \in Seq(Emails) /\ << >> \in Seq(AllLinks) /\ << >> \in Seq(AnyPosting)
    OBVIOUS
  <2> QED BY <2>1, <2>2, <2>3 DEF EmailStates
<1>3. proc' = [proc EXCEPT !["email"] = s]
  BY <1>1
<1> HIDE DEF s
<1>4. ProcTyped' /\ FilesThere' /\ RowsInHand' /\ Readied'
  BY <1>1, <1>2, <1>3, <1>6, EmailGoesOn
<1> QED BY <1>4, <1>6, DataKept, MailKept DEF EmailInv, queueVars

LEMMA LoadEnrichedTyped == EmailInv /\ LoadEnriched => EmailInv'
<1> SUFFICES ASSUME EmailInv, LoadEnriched PROVE EmailInv'
  OBVIOUS
<1> USE DEF LoadEnriched, EmailGoes, stage, mail, count
<1> DEFINE s == [Email EXCEPT !.jobs = enriched, !.pc = "hand over"]
<1>1. Email \in EmailStates /\ Email.row = EmailRow(Email.run)
  BY EmailRunIs
<1>2. enriched \in Seq(AnyPosting)
  BY DEF EmailInv, DataTyped, Readied
<1>3. s \in EmailStates /\ s.pc = "hand over" /\ s.row = EmailRow(s.run)
  BY <1>1, <1>2 DEF EmailStates
<1>4. proc' = [proc EXCEPT !["email"] = s]
  OBVIOUS
<1> HIDE DEF s
<1>5. ProcTyped' /\ FilesThere' /\ RowsInHand' /\ Readied'
  BY <1>3, <1>4, EmailGoesOn
<1> QED BY <1>5, DataKept, MailKept DEF EmailInv, queueVars

LEMMA PullTyped == EmailInv /\ Pull => EmailInv'
<1> SUFFICES ASSUME EmailInv, Pull PROVE EmailInv'
  OBVIOUS
<1> USE DEF Pull, stage, count
<1> DEFINE s == [Email EXCEPT !.pc = "select"]
<1>1. Email \in EmailStates /\ Email.row = EmailRow(Email.run) /\ Email.opt \in EmailOptions
  BY EmailRunIs
<1>2. s \in EmailStates /\ s.pc = "select" /\ s.row = EmailRow(s.run)
  BY <1>1 DEF EmailStates
<1>3. proc' = [proc EXCEPT !["email"] = s]
  BY DEF Onward, Email
<1> HIDE DEF s
<1>4. ProcTyped' /\ FilesThere' /\ RowsInHand' /\ Readied'
  BY <1>2, <1>3, EmailGoesOn
<1>5. sent' \subseteq Emails /\ disk' = Pulled(disk, sent', Email.opt.maxEmails)
  OBVIOUS
<1>6. disk \in Seq(Emails)
  BY DEF EmailInv, MailTyped
<1>7. Email.opt.maxEmails = Unlimited \/ Email.opt.maxEmails \in Nat
  BY <1>1, OptionsOK
<1>8. disk' \in Seq(Emails)
  BY <1>5, <1>6, <1>7, PulledTyped
<1>9. MailTyped'
  BY <1>5, <1>8 DEF EmailInv, MailTyped
<1> QED BY <1>4, <1>9, DataKept DEF EmailInv, queueVars

LEMMA SelectTyped == EmailInv /\ Select => EmailInv'
<1> SUFFICES ASSUME EmailInv, Select PROVE EmailInv'
  OBVIOUS
<1> USE DEF Select, EmailGoes, stage, mail, count
<1> DEFINE s == [Email EXCEPT !.todo = Selected(disk, Email.opt.maxFiles), !.pc = "loop"]
<1>1. Email \in EmailStates /\ Email.row = EmailRow(Email.run) /\ Email.opt \in EmailOptions
  BY EmailRunIs
<1>2. Selected(disk, Email.opt.maxFiles) \in Seq(Emails)
  <2>1. disk \in Seq(Emails) /\ (Email.opt.maxFiles = Unlimited \/ Email.opt.maxFiles \in Nat)
    BY <1>1, OptionsOK DEF EmailInv, MailTyped
  <2> QED BY <2>1, FirstNTyped DEF Selected
<1>3. s \in EmailStates /\ s.pc = "loop" /\ s.row = EmailRow(s.run)
  BY <1>1, <1>2 DEF EmailStates
<1>4. proc' = [proc EXCEPT !["email"] = s]
  OBVIOUS
<1> HIDE DEF s
<1>5. ProcTyped' /\ FilesThere' /\ RowsInHand' /\ Readied'
  BY <1>3, <1>4, EmailGoesOn
<1> QED BY <1>5, DataKept, MailKept DEF EmailInv, queueVars

\* The e-mail a run reads, and its links.
LEMMA LinksTyped == \A e \in Emails : Links[e] \in Seq(AllLinks)
BY AlertsOK

LEMMA NextEmailTyped == EmailInv /\ NextEmail => EmailInv'
<1> SUFFICES ASSUME EmailInv, NextEmail PROVE EmailInv'
  OBVIOUS
<1> USE DEF NextEmail, EmailGoes, stage, mail, count
<1> DEFINE e == Head(Email.todo)
           s == IF MayRead(e) THEN [Email EXCEPT !.pc = "visit", !.links = Links[e], !.got = <<>>]
                ELSE [Email EXCEPT !.todo = Tail(@)]
<1>1. Email \in EmailStates /\ Email.row = EmailRow(Email.run) /\ Email.pc = "loop"
  BY EmailRunIs DEF At, Email
<1>2. e \in Emails /\ Tail(Email.todo) \in Seq(Emails) /\ Links[e] \in Seq(AllLinks)
  <2>1. Email.todo \in Seq(Emails) /\ Email.todo # << >>
    BY <1>1 DEF EmailStates
  <2> QED BY <2>1, LinksTyped
<1>3. s \in EmailStates /\ s.pc \in {"visit", "loop"} /\ s.row = EmailRow(s.run) /\ (s.pc = "visit" => s.todo # << >>)
  <2>1. << >> \in Seq(AnyPosting)
    OBVIOUS
  <2> HIDE DEF e
  <2>2. CASE MayRead(e)
    BY <1>1, <1>2, <2>1, <2>2 DEF EmailStates
  <2>3. CASE ~MayRead(e)
    BY <1>1, <1>2, <2>3 DEF EmailStates
  <2> QED BY <2>2, <2>3
<1>4. proc' = [proc EXCEPT !["email"] = s]
  OBVIOUS
<1> HIDE DEF s
<1>5. ProcTyped' /\ FilesThere' /\ RowsInHand' /\ Readied'
  BY <1>3, <1>4, EmailGoesOn
<1> QED BY <1>5, DataKept, MailKept DEF EmailInv, queueVars

LEMMA VisitTyped == EmailInv /\ Visit => EmailInv'
<1> SUFFICES ASSUME EmailInv, Visit PROVE EmailInv'
  OBVIOUS
<1> USE DEF Visit, EmailGoes, stage, count
<1> DEFINE l == Head(Email.links)
           routed == Routed(l, Head(Email.todo) \in aged)
<1>1. Email \in EmailStates /\ Email.row = EmailRow(Email.run) /\ Email.pc = "visit"
  BY EmailRunIs DEF At, Email
<1>2. l \in AllLinks /\ Tail(Email.links) \in Seq(AllLinks)
  <2>1. Email.links \in Seq(AllLinks) /\ Email.links # << >>
    BY <1>1 DEF EmailStates
  <2> QED BY <2>1
<1>3. PICK posting \in IF routed # {} THEN routed ELSE Fetched(l) :
        proc' = [proc EXCEPT !["email"] = [Email EXCEPT !.links = Tail(@), !.got = Append(@, posting)]]
  OBVIOUS
<1>4. posting \in AnyPosting
  BY <1>2, LinkPostings
<1> DEFINE s == [Email EXCEPT !.links = Tail(@), !.got = Append(@, posting)]
<1>5. s \in EmailStates /\ s.pc = "visit" /\ s.row = EmailRow(s.run) /\ s.todo = Email.todo
  <2>1. Append(Email.got, posting) \in Seq(AnyPosting)
    <3>1. Email.got \in Seq(AnyPosting)
      BY <1>1 DEF EmailStates
    <3> QED BY <1>4, <3>1
  <2> HIDE DEF l
  <2> QED BY <1>1, <1>2, <2>1 DEF EmailStates
<1>6. proc' = [proc EXCEPT !["email"] = s]
  BY <1>3
<1> HIDE DEF s
<1>7. ProcTyped' /\ FilesThere' /\ RowsInHand' /\ Readied'
  <2>1. Email.todo # << >>
    BY DEF EmailInv, Readied
  <2> QED BY <1>5, <1>6, <2>1, EmailGoesOn
<1>8. MailTyped'
  <2>1. visits \in [AllLinks -> Nat]
    BY DEF EmailInv, MailTyped
  <2>2. visits' \in [AllLinks -> Nat]
    BY <1>2, <2>1
  <2> QED BY <2>2 DEF EmailInv, MailTyped
<1> QED BY <1>7, <1>8, DataKept DEF EmailInv, queueVars

LEMMA CloseTyped == ASSUME NEW add \in BOOLEAN PROVE EmailInv /\ Close(add) => EmailInv'
<1> SUFFICES ASSUME EmailInv, Close(add) PROVE EmailInv'
  OBVIOUS
<1> USE DEF Close, EmailGoes, stage
<1> DEFINE e == Head(Email.todo)
           jobs == Email.jobs \o Email.got
           mem == IF add THEN SeenStore!With(Email.seen, e, TRUE) ELSE Email.seen
           rest == IF Full(jobs) THEN <<>> ELSE Tail(Email.todo)
           s == [Email EXCEPT !.seen = mem, !.jobs = jobs, !.got = <<>>, !.links = <<>>, !.pc = "loop",
                              !.todo = rest]
<1>1. Email \in EmailStates /\ Email.row = EmailRow(Email.run) /\ Email.todo # << >>
  BY EmailRunIs DEF Parsed, EmailInv, Readied
<1>2. e \in Emails /\ rest \in Seq(Emails)
  <2>1. Email.todo \in Seq(Emails)
    BY <1>1 DEF EmailStates
  <2>2. << >> \in Seq(Emails)
    OBVIOUS
  <2> QED BY <1>1, <2>1, <2>2
<1>3. \A es \in SUBSET Records : SeenStore!With(es, e, TRUE) \in SUBSET Records
  <2> SUFFICES ASSUME NEW es \in SUBSET Records PROVE SeenStore!With(es, e, TRUE) \in SUBSET Records
    OBVIOUS
  <2>1. <<e, TRUE>> \in Records
    BY <1>2 DEF Records
  <2> HIDE DEF e
  <2> QED BY <2>1 DEF SeenStore!With
<1>4. s \in EmailStates /\ s.pc = "loop" /\ s.row = EmailRow(s.run)
  <2>1. mem \in SUBSET Records
    BY <1>1, <1>3 DEF EmailStates
  <2>2. jobs \in Seq(AnyPosting) /\ << >> \in Seq(AnyPosting) /\ << >> \in Seq(AllLinks)
    <3>1. Email.jobs \in Seq(AnyPosting) /\ Email.got \in Seq(AnyPosting)
      BY <1>1 DEF EmailStates
    <3> QED BY <3>1
  <2> HIDE DEF mem, jobs, rest, e
  <2> QED BY <1>1, <1>2, <2>1, <2>2 DEF EmailStates
<1>5. proc' = [proc EXCEPT !["email"] = s]
  OBVIOUS
<1> HIDE DEF s
<1>6. ProcTyped' /\ FilesThere' /\ RowsInHand' /\ Readied'
  BY <1>4, <1>5, EmailGoesOn
<1>7. MailTyped'
  <2>1. seen \in [entries : SUBSET Records, torn : BOOLEAN]
    BY DEF EmailInv, MailTyped
  <2>2. SeenStore!AppendLine(seen, e, TRUE) \in [entries : SUBSET Records, torn : BOOLEAN]
    <3> HIDE DEF e
    <3> QED BY <1>3, <2>1 DEF SeenStore!AppendLine
  <2>3. seen' = IF add THEN SeenStore!AppendLine(seen, e, TRUE) ELSE seen
    OBVIOUS
  <2>4. seen' \in [entries : SUBSET Records, torn : BOOLEAN]
    <3> HIDE DEF Close, s, e
    <3> QED BY <2>1, <2>2, <2>3
  <2>5. UNCHANGED <<disk, sent, visits, lost>>
    BY DEF count
  <2> HIDE DEF Close, s, e
  <2> QED BY <2>4, <2>5 DEF EmailInv, MailTyped
<1> QED BY <1>6, <1>7, DataKept DEF EmailInv, queueVars

LEMMA KeepTyped == EmailInv /\ Keep => EmailInv'
<1> SUFFICES ASSUME EmailInv, Keep PROVE EmailInv'
  OBVIOUS
<1> USE DEF Keep, EmailGoes, stage, mail, count
<1>1. PICK x \in {"write", "hand over"} :
        proc' = [proc EXCEPT !["email"] = [Email EXCEPT !.jobs = OnlyEnriched(@), !.pc = x]]
  OBVIOUS
<1> DEFINE s == [Email EXCEPT !.jobs = OnlyEnriched(@), !.pc = x]
<1>2. Email \in EmailStates /\ Email.row = EmailRow(Email.run)
  BY EmailRunIs
<1>3. s \in EmailStates /\ s.pc = x /\ s.row = EmailRow(s.run)
  <2>1. OnlyEnriched(Email.jobs) \in Seq(AnyPosting)
    BY <1>2, KeptTyped DEF EmailStates
  <2> QED BY <1>2, <2>1 DEF EmailStates
<1>4. proc' = [proc EXCEPT !["email"] = s]
  BY <1>1
<1> HIDE DEF s
<1>5. ProcTyped' /\ FilesThere' /\ RowsInHand' /\ Readied'
  BY <1>3, <1>4, EmailGoesOn
<1> QED BY <1>5, DataKept, MailKept DEF EmailInv, queueVars

LEMMA WriteEnrichedTyped == EmailInv /\ (WriteEnriched \/ NothingEnriched) => EmailInv'
<1> SUFFICES ASSUME EmailInv, WriteEnriched \/ NothingEnriched PROVE EmailInv'
  OBVIOUS
<1> USE DEF WriteEnriched, NothingEnriched, stage, mail, count
<1>1. Email \in EmailStates
  BY EmailRunIs
<1>2. proc' = [proc EXCEPT !["email"] = Idle] /\ Idle.pc = "idle"
  BY DEF Exit, Idle
<1>3. ProcTyped' /\ FilesThere' /\ RowsInHand' /\ Readied'
  <2> HIDE DEF Idle
  <2> QED BY <1>2, EmailGoesOn
<1>4. DataTyped'
  BY <1>1 DEF EmailInv, DataTyped, EmailStates, queueVars
<1> QED BY <1>3, <1>4, MailKept DEF EmailInv

LEMMA PersistEmailTyped == EmailInv /\ PersistEmail => EmailInv'
<1> SUFFICES ASSUME EmailInv, PersistEmail PROVE EmailInv'
  OBVIOUS
<1> USE DEF PersistEmail, mail, count, queueVars
<1> DEFINE s == [Email EXCEPT !.pc = "enqueue"]
<1>1. Email \in EmailStates /\ Email.row = EmailRow(Email.run)
  BY EmailRunIs
<1>2. Email.jobs \in Seq(AnyPosting) /\ Email.row \in Jobs
  BY <1>1 DEF EmailStates
<1>3. s \in EmailStates /\ s.pc = "enqueue" /\ s.row = EmailRow(s.run) /\ s.row = Email.row
  BY <1>1 DEF EmailStates
<1>4. proc' = [proc EXCEPT !["email"] = s]
  BY DEF Onward, Email
<1>5. files \in [Jobs -> Seq(AnyPosting) \cup {NoFile}]
  BY DEF EmailInv, DataTyped
<1> HIDE DEF s
<1>6. ProcTyped' /\ FilesThere' /\ RowsInHand' /\ Readied'
  BY <1>2, <1>3, <1>4, <1>5, EmailMoves
<1>7. DataTyped'
  BY <1>2, <1>5 DEF EmailInv, DataTyped
<1> QED BY <1>6, <1>7, MailKept DEF EmailInv

LEMMA EnqueueEmailTyped == EmailInv /\ EnqueueEmail => EmailInv'
<1> SUFFICES ASSUME EmailInv, EnqueueEmail PROVE EmailInv'
  OBVIOUS
<1> USE DEF EnqueueEmail, stage, mail, count
<1>1. /\ Email \in EmailStates /\ Email.row = EmailRow(Email.run) /\ Email.row \in Jobs
      /\ Email.row.source = EMAIL_SOURCE
  <2>1. Email \in EmailStates /\ Email.row = EmailRow(Email.run)
    BY EmailRunIs
  <2>2. Email.row \in Jobs
    BY <2>1 DEF EmailStates
  <2>3. Email.row.source = EMAIL_SOURCE
    BY <2>1 DEF EmailRow
  <2> QED BY <2>1, <2>2, <2>3
<1>2. files[Email.row] \in Seq(AnyPosting) /\ status \in [Jobs -> Statuses]
  BY DEF EmailInv, FilesThere, DataTyped
<1>3. CASE status[Email.row] = "absent"
  <2> DEFINE s == [Email EXCEPT !.pc = "succeed"]
  <2>1. s \in EmailStates /\ s.pc = "succeed" /\ s.row = EmailRow(s.run) /\ s.row = Email.row
    BY <1>1 DEF EmailStates
  <2>2. proc' = [proc EXCEPT !["email"] = s]
    BY <1>3 DEF Onward, Email
  <2>3. status' = [status EXCEPT ![Email.row] = "pending"]
    BY <1>3 DEF Enqueue
  <2> HIDE DEF s
  <2>4. ProcTyped' /\ FilesThere' /\ RowsInHand' /\ Readied'
    BY <1>1, <1>2, <2>1, <2>2, <2>3, EmailMoves
  <2>5. DataTyped'
    BY <1>1, <1>2, <2>3 DEF EmailInv, DataTyped, Statuses
  <2> QED BY <2>4, <2>5, MailKept DEF EmailInv
<1>4. CASE status[Email.row] # "absent"
  <2>1. proc' = [proc EXCEPT !["email"] = Idle] /\ Idle.pc = "idle"
    BY <1>4 DEF Exit, Idle
  <2>2. UNCHANGED queueVars
    BY <1>4 DEF Enqueue
  <2>3. ProcTyped' /\ FilesThere' /\ RowsInHand' /\ Readied'
    <3> HIDE DEF Idle
    <3> QED BY <2>1, <2>2, EmailGoesOn
  <2> QED BY <2>2, <2>3, DataKept, MailKept DEF EmailInv, queueVars
<1> QED BY <1>3, <1>4

LEMMA MarkEmailTyped == EmailInv /\ MarkEmail => EmailInv'
<1> SUFFICES ASSUME EmailInv, MarkEmail PROVE EmailInv'
  OBVIOUS
<1> USE DEF MarkEmail, stage, mail, count
<1> DEFINE s == [Email EXCEPT !.pc = "read"]
<1>1. /\ Email \in EmailStates /\ Email.row = EmailRow(Email.run) /\ Email.row \in Jobs
      /\ Email.row.source = EMAIL_SOURCE
  <2>1. Email \in EmailStates /\ Email.row = EmailRow(Email.run)
    BY EmailRunIs
  <2>2. Email.row \in Jobs
    BY <2>1 DEF EmailStates
  <2>3. Email.row.source = EMAIL_SOURCE
    BY <2>1 DEF EmailRow
  <2> QED BY <2>1, <2>2, <2>3
<1>2. files[Email.row] \in Seq(AnyPosting) /\ status \in [Jobs -> Statuses]
  BY DEF EmailInv, FilesThere, DataTyped
<1>3. s \in EmailStates /\ s.pc = "read" /\ s.row = EmailRow(s.run)
  BY <1>1 DEF EmailStates
<1>4. proc' = [proc EXCEPT !["email"] = s]
  BY DEF Onward, Email
<1>5. status' = [status EXCEPT ![Email.row] = "succeeded"]
  BY DEF Mark
<1> HIDE DEF s
<1>6. ProcTyped' /\ FilesThere' /\ RowsInHand' /\ Readied'
  BY <1>1, <1>2, <1>3, <1>4, <1>5, EmailMoves
<1>7. DataTyped'
  BY <1>1, <1>2, <1>5 DEF EmailInv, DataTyped, Statuses
<1> QED BY <1>6, <1>7, MailKept DEF EmailInv

LEMMA CrashEmailTyped == EmailInv /\ CrashEmail => EmailInv'
<1> SUFFICES ASSUME EmailInv, CrashEmail PROVE EmailInv'
  OBVIOUS
<1> USE DEF CrashEmail, queueVars
<1>1. proc' = [proc EXCEPT !["email"] = Idle] /\ Idle.pc = "idle"
  BY DEF Exit, Idle
<1>2. files \in [Jobs -> Seq(AnyPosting) \cup {NoFile}]
  BY DEF EmailInv, DataTyped
<1>3. /\ files' \in [Jobs -> Seq(AnyPosting) \cup {NoFile}]
      /\ \A j \in Jobs : files[j] \in Seq(AnyPosting) => files'[j] \in Seq(AnyPosting)
  <2>1. CASE files' = files
    BY <1>2, <2>1
  <2>2. CASE At("email", "hand over") /\ files' # files
    <3>1. Email \in EmailStates
      BY <2>2, EmailRunIs
    <3>2. PICK n \in 0..Len(Email.jobs) : files' = [files EXCEPT ![Email.row] = SubSeq(Email.jobs, 1, n)]
      BY <2>2
    <3>3. SubSeq(Email.jobs, 1, n) \in Seq(AnyPosting) /\ Email.row \in Jobs
      <4>1. Email.jobs \in Seq(AnyPosting) /\ Email.row \in Jobs
        BY <3>1 DEF EmailStates
      <4> HIDE DEF CrashEmail
      <4>2. SubSeq(Email.jobs, 1, n) \in Seq(AnyPosting)
        BY <4>1
      <4> QED BY <4>1, <4>2
    <3> QED BY <1>2, <3>2, <3>3
  <2> QED BY <2>1, <2>2
<1>4. ProcTyped' /\ FilesThere' /\ RowsInHand' /\ Readied'
  <2> HIDE DEF Idle
  <2> QED BY <1>1, <1>3, EmailMoves
<1>5. DataTyped'
  BY <1>3 DEF EmailInv, DataTyped
<1>6. MailTyped'
  <2>1. seen \in [entries : SUBSET Records, torn : BOOLEAN] /\ lost \in Nat
    BY DEF EmailInv, MailTyped
  <2>2. SeenStore!Tear(seen) \in [entries : SUBSET Records, torn : BOOLEAN]
    BY <2>1 DEF SeenStore!Tear
  <2>3. lost' \in Nat
    <3>1. lost' = lost + 1 \/ lost' = lost + 2
      OBVIOUS
    <3> HIDE DEF CrashEmail
    <3> QED BY <2>1, <3>1
  <2> QED BY <2>1, <2>2, <2>3 DEF EmailInv, MailTyped
<1> QED BY <1>4, <1>5, <1>6 DEF EmailInv

LEMMA AgeTyped == ASSUME NEW e PROVE EmailInv /\ Age(e) => EmailInv'
<1> SUFFICES ASSUME EmailInv, Age(e) PROVE EmailInv'
  OBVIOUS
<1>1. UNCHANGED <<status, stage, enriched, disk, sent, seen, visits, count, proc>>
  BY DEF Age, queueVars
<1> QED BY <1>1 DEF stage, count, EmailInv, ProcTyped, DataTyped, MailTyped, FilesThere, RowsInHand, Readied,
               At, Email, RowsIn

\* Each step of a consolidation keeps EmailInv.

FanStatesOf(p) == IF p = "worker" THEN FanStates({NightRun}, WorkerRows) ELSE FanStates(EmailRuns, Jobs)

LEMMA FanMoves ==
  ASSUME EmailInv, NEW p \in Pipelines, NEW s \in {Idle} \cup FanStatesOf(p),
         proc' = [proc EXCEPT ![p] = s],
         UNCHANGED <<queueVars, stage, mail, lost>>,
         p = "email" /\ s.pc # "idle" => s.row = EmailRow(s.run)
  PROVE  EmailInv' /\ proc'[p] = s /\ \A q \in Pipelines : q # p => proc'[q] = proc[q]
<1> USE DEF queueVars, stage, mail, FanStatesOf
<1>1. s.pc \in {"idle", "upsert", "consolidated"}
  BY DEF Idle, FanStates
<1>2. CASE p = "worker"
  <2>1. ProcTyped' /\ FilesThere' /\ RowsInHand' /\ Readied'
    BY <1>1, <1>2, WorkerMoves
  <2> QED BY <2>1, DataKept, MailKept, Turn DEF EmailInv
<1>3. CASE p = "email"
  <2>1. ProcTyped' /\ FilesThere' /\ RowsInHand' /\ Readied'
    BY <1>1, <1>3, EmailMoves
  <2> QED BY <2>1, DataKept, MailKept, Turn DEF EmailInv
<1> QED BY <1>2, <1>3 DEF Pipelines

\* What a pipeline that is about to read the files holds.
LEMMA ReadyToRead ==
  ASSUME EmailInv, NEW p \in Pipelines, At(p, "read")
  PROVE  /\ proc[p].jobs \in Seq(AnyPosting)
         /\ p = "worker" => proc[p].run = NightRun /\ proc[p].row \in WorkerRows
         /\ p = "email" => proc[p].run \in EmailRuns /\ proc[p].row \in Jobs /\ proc[p].row = EmailRow(proc[p].run)
<1>1. CASE p = "worker"
  <2>1. proc["worker"] \in WorkerStates
    BY <1>1, WorkerAt DEF EmailInv
  <2> QED BY <1>1, <2>1 DEF WorkerStates
<1>2. CASE p = "email"
  <2>1. Email \in EmailStates /\ Email.row = EmailRow(Email.run)
    BY <1>2, EmailRunIs
  <2> QED BY <1>2, <2>1 DEF EmailStates, Email
<1> QED BY <1>1, <1>2 DEF Pipelines

\* The postings of a run, and the union of them.
LEMMA RunUnion ==
  ASSUME EmailInv, NEW r
  PROVE  /\ Postings(r) \in Seq(AnyPosting)
         /\ ToSet(Postings(r)) = UNION {ToSet(files[j]) : j \in Succeeded(r)}
         /\ UnionOf(Canonical(Postings(r)), Postings(r))
         /\ \E n \in Nat : DOMAIN Canonical(Postings(r)) = 1..n
<1>1. \A j \in Succeeded(r) : files[j] \in Seq(AnyPosting)
  BY DEF Succeeded, EmailInv, FilesThere
<1>2. Postings(r) \in Seq(AnyPosting) /\ ToSet(Postings(r)) = UNION {ToSet(files[j]) : j \in Succeeded(r)}
  BY <1>1, PostingsIs
<1> QED BY <1>2, CanonicalIs, AnyPostingAre

\* The table rows a consolidation is to write.
RowsOf(r) ==
  [i \in DOMAIN Canonical(Postings(r)) |->
     LET k == Key(Canonical(Postings(r))[i]) IN <<k, RequestedBy(r, k)>>]

LEMMA RowsOfTyped ==
  ASSUME EmailInv, NEW r
  PROVE  RowsOf(r) \in Seq(FanRows)
<1> DEFINE c == Canonical(Postings(r))
<1>1. PICK n \in Nat : DOMAIN c = 1..n
  BY RunUnion
<1>2. ASSUME NEW i \in DOMAIN c PROVE <<Key(c[i]), RequestedBy(r, Key(c[i]))>> \in FanRows
  <2>1. PICK m \in DOMAIN Postings(r) : c[i].key = Postings(r)[m].key
    BY RunUnion DEF UnionOf
  <2>2. Postings(r)[m] \in AnyPosting
    BY RunUnion
  <2>3. RequestedBy(r, Key(c[i])) \in SUBSET Users
    BY DEF RequestedBy, Succeeded, RowsIn, Jobs
  <2>4. Key(c[i]) = Key(Postings(r)[m])
    BY <2>1 DEF Key
  <2> QED BY <2>2, <2>3, <2>4 DEF FanRows
<1>3. RowsOf(r) = [i \in 1..n |-> <<Key(c[i]), RequestedBy(r, Key(c[i]))>>]
  BY <1>1 DEF RowsOf
<1> HIDE DEF c
<1>4. RowsOf(r) \in [1..n -> FanRows]
  BY <1>1, <1>2, <1>3
<1> QED BY <1>4, SeqDef

\* A consolidation's state after its read.
AfterRead(p) ==
  LET r == proc[p].run IN
  [pc |-> "upsert", run |-> r, row |-> proc[p].row, jobs |-> proc[p].jobs, rows |-> RowsOf(r)]

LEMMA ReadFilesTyped ==
  ASSUME NEW p \in Pipelines
  PROVE  EmailInv /\ ReadFiles(p) => EmailInv' /\ proc'[p] = AfterRead(p)
<1> SUFFICES ASSUME EmailInv, ReadFiles(p) PROVE EmailInv' /\ proc'[p] = AfterRead(p)
  OBVIOUS
<1> USE DEF ReadFiles
<1> DEFINE s == AfterRead(p)
<1>1. proc' = [proc EXCEPT ![p] = s]
  BY DEF AfterRead, RowsOf
<1>2. s \in FanStatesOf(p) /\ (p = "email" => s.row = EmailRow(s.run))
  BY ReadyToRead, RowsOfTyped DEF FanStatesOf, FanStates, Pipelines, AfterRead
<1> HIDE DEF s
<1>3. UNCHANGED <<queueVars, stage, mail, lost>>
  BY DEF count
<1>4. EmailInv' /\ proc'[p] = s
  BY <1>1, <1>2, <1>3, FanMoves
<1> QED BY <1>4 DEF s

LEMMA WhileFanning ==
  ASSUME EmailInv, NEW p \in Pipelines, At(p, "upsert") \/ At(p, "consolidated")
  PROVE  proc[p] \in FanStatesOf(p) /\ (p = "email" => proc[p].row = EmailRow(proc[p].run))
<1>1. proc[p] \in FanStatesOf(p)
  BY FanAt DEF EmailInv, FanStatesOf, Pipelines
<1>2. p = "email" => proc[p].row = EmailRow(proc[p].run)
  BY DEF EmailInv, RowsInHand, At, Email
<1> QED BY <1>1, <1>2

LEMMA UpsertTyped ==
  ASSUME NEW p \in Pipelines
  PROVE  EmailInv /\ (Upsert(p) \/ Consolidated(p) \/ EndRun(p)) => EmailInv'
<1> SUFFICES ASSUME EmailInv, Upsert(p) \/ Consolidated(p) \/ EndRun(p) PROVE EmailInv'
  OBVIOUS
<1>1. UNCHANGED <<queueVars, stage, mail, lost>>
  BY DEF Upsert, Consolidated, EndRun, count
<1>2. proc[p] \in FanStatesOf(p) /\ (p = "email" => proc[p].row = EmailRow(proc[p].run))
  BY WhileFanning DEF Upsert, Consolidated, EndRun
<1>3. CASE Upsert(p)
  <2> DEFINE s == [proc[p] EXCEPT !.rows = Tail(@)]
  <2>1. proc' = [proc EXCEPT ![p] = s]
    BY <1>3 DEF Upsert
  <2>2. s \in FanStatesOf(p) /\ s.row = proc[p].row /\ s.run = proc[p].run
    <3>1. proc[p].rows \in Seq(FanRows) /\ proc[p].rows # << >>
      BY <1>2, <1>3 DEF Upsert, FanStatesOf, FanStates
    <3>2. Tail(proc[p].rows) \in Seq(FanRows)
      BY <3>1
    <3> QED BY <1>2, <3>2 DEF FanStatesOf, FanStates
  <2> HIDE DEF s
  <2> QED BY <1>1, <1>2, <2>1, <2>2, FanMoves
<1>4. CASE Consolidated(p)
  <2> DEFINE s == [proc[p] EXCEPT !.pc = "consolidated"]
  <2>1. proc' = [proc EXCEPT ![p] = s]
    BY <1>4 DEF Consolidated, Onward
  <2>2. s \in FanStatesOf(p) /\ s.row = proc[p].row /\ s.run = proc[p].run
    BY <1>2 DEF FanStatesOf, FanStates
  <2> HIDE DEF s
  <2> QED BY <1>1, <1>2, <2>1, <2>2, FanMoves
<1>5. CASE EndRun(p)
  <2>1. proc' = [proc EXCEPT ![p] = Idle] /\ Idle.pc = "idle"
    BY <1>5 DEF EndRun, Exit, Idle
  <2> HIDE DEF Idle
  <2> QED BY <1>1, <2>1, FanMoves
<1> QED BY <1>3, <1>4, <1>5

\* EmailInv is an invariant of every behaviour, both pipelines together or not.
LEMMA NextEmailInv == EmailInv /\ [EmailNext]_emailVars => EmailInv'
<1> SUFFICES ASSUME EmailInv, [EmailNext]_emailVars PROVE EmailInv'
  OBVIOUS
<1>1. CASE UNCHANGED emailVars
  BY <1>1 DEF emailVars, queueVars, stage, mail, fanned, count, EmailInv, ProcTyped, DataTyped, MailTyped,
     FilesThere, RowsInHand, Readied, At, Email, RowsIn
<1>2. CASE Worker
  BY <1>2, StartWorkerTyped, QueueDrainedTyped, ClaimTyped, ScrapeTyped, ScrapeRaisesTyped, FilterTyped,
     EmbedTyped, PersistTyped, FinishTyped DEF Worker
<1>3. CASE EmailPipeline
  <2>1. Record => EmailInv'
    <3>1. Record => \E add \in BOOLEAN : Close(add)
      <4> SUFFICES ASSUME Record PROVE \E add \in BOOLEAN : Close(add)
        OBVIOUS
      <4>1. Email.opt.cache \in BOOLEAN
        BY EmailRunIs, OptionsOK DEF Record, Close, Parsed
      <4> QED BY <4>1 DEF Record
    <3> QED BY <3>1, CloseTyped
  <2> QED BY <1>3, <2>1, StartEmailTyped, LoadEnrichedTyped, PullTyped, SelectTyped, NextEmailTyped, VisitTyped,
          KeepTyped, WriteEnrichedTyped, PersistEmailTyped, EnqueueEmailTyped, MarkEmailTyped DEF EmailPipeline
<1>4. CASE \E p \in Pipelines : FanInOf(p)
  BY <1>4, ReadFilesTyped, UpsertTyped DEF FanInOf
<1>5. CASE World
  BY <1>5, AgeTyped, InterruptWorkerTyped, CrashWorkerTyped, CrashEmailTyped DEF World
<1> QED BY <1>1, <1>2, <1>3, <1>4, <1>5 DEF EmailNext

\* Wherever the pipelines are, together or not, what they hold is of their kind:
\* a succeeded row has a file, and the row in a pipeline's hand is its own.
THEOREM EmailInvHolds == EmailSpec => []EmailInv
BY InitEmailInv, NextEmailInv, PTL DEF EmailSpec

-----------------------------------------------------------------------------
(* A recorded link is not visited again.                                    *)

\* A torn line will take the next record with it.
Owed == IF seen.torn THEN 1 ELSE 0

\* The run that reads e under the cache has come past its link i.
Passed(e, i) ==
  /\ At("email", "visit") /\ Email.opt.cache /\ Head(Email.todo) = e
  /\ i + Len(Email.links) <= Len(Links[e])

\* A visit is paid for by the record, by the run that is about to record it,
\* or by a loss.
VisitsPaid ==
  \A e \in Emails : \A i \in DOMAIN Links[e] :
    /\ visits[Links[e][i]] + Owed <= lost + 1
    /\ SeenStore!Hit(seen.entries, e) \/ Passed(e, i) \/ visits[Links[e][i]] + Owed <= lost

\* What a run has left of an e-mail are its last links.
LastOf(left, all) ==
  Len(left) <= Len(all) /\ \A i \in 1..Len(left) : left[i] = all[Len(all) - Len(left) + i]
LinksLeft == At("email", "visit") => LastOf(Email.links, Links[Head(Email.todo)])

\* A run under the cache knows the records, and reads no recorded e-mail.
Reading == {"load", "pull", "select", "loop", "visit"}
RecordsKnown ==
  /\ \A x \in Reading : At("email", x) /\ Email.opt.cache =>
       \A e \in Emails : SeenStore!Hit(seen.entries, e) => SeenStore!Hit(Email.seen, e)
  /\ At("email", "visit") /\ Email.opt.cache => ~SeenStore!Hit(Email.seen, Head(Email.todo))

VisitsInv == VisitsPaid /\ LinksLeft /\ RecordsKnown

LEMMA InitVisits == EmailInit => VisitsInv
<1> SUFFICES ASSUME EmailInit PROVE VisitsInv
  OBVIOUS
<1>1. Email.pc = "idle" /\ seen = [entries |-> {}, torn |-> FALSE] /\ lost = 0
  BY DEF EmailInit, Email, Idle, Pipelines, SeenStore!Empty
<1>2. VisitsPaid
  <2> SUFFICES ASSUME NEW e \in Emails, NEW i \in DOMAIN Links[e]
               PROVE  visits[Links[e][i]] + Owed <= lost + 1 /\ visits[Links[e][i]] + Owed <= lost
    BY DEF VisitsPaid
  <2>1. visits[Links[e][i]] = 0 /\ Owed = 0
    <3>1. Links[e][i] \in AllLinks
      BY LinksTyped
    <3> QED BY <1>1, <3>1 DEF EmailInit, Owed
  <2> QED BY <1>1, <2>1
<1>3. LinksLeft /\ RecordsKnown
  BY <1>1 DEF LinksLeft, RecordsKnown, At, Email, Reading
<1> QED BY <1>2, <1>3 DEF VisitsInv

\* The steps outside an e-mail.
LEMMA VisitsKept ==
  ASSUME VisitsInv, UNCHANGED <<seen, visits, lost>>,
         \/ Email' = Email
         \/ /\ Email.pc # "visit" /\ Email'.pc # "visit"
            /\ Email'.pc \in Reading =>
                 Email.pc \in Reading /\ Email'.seen = Email.seen /\ Email'.opt = Email.opt
  PROVE  VisitsInv'
<1>1. CASE Email' = Email
  <2>1. \A x : At("email", x)' <=> At("email", x)
    BY <1>1 DEF At, Email
  <2>2. \A e, i : Passed(e, i)' <=> Passed(e, i)
    BY <1>1, <2>1 DEF Passed
  <2>3. VisitsPaid'
    BY <2>2 DEF VisitsInv, VisitsPaid, Owed
  <2>4. LinksLeft'
    BY <1>1, <2>1 DEF VisitsInv, LinksLeft
  <2>5. RecordsKnown'
    BY <1>1, <2>1 DEF VisitsInv, RecordsKnown
  <2> QED BY <2>3, <2>4, <2>5 DEF VisitsInv
<1>2. CASE /\ Email.pc # "visit" /\ Email'.pc # "visit"
           /\ Email'.pc \in Reading =>
                 Email.pc \in Reading /\ Email'.seen = Email.seen /\ Email'.opt = Email.opt
  <2>1. ~At("email", "visit")' /\ ~At("email", "visit") /\ \A x : At("email", x) <=> Email.pc = x
    BY <1>2 DEF At, Email
  <2>2. \A x : At("email", x)' <=> Email'.pc = x
    BY DEF At, Email
  <2>3. \A e, i : ~Passed(e, i)' /\ ~Passed(e, i)
    BY <2>1 DEF Passed
  <2>4. VisitsPaid'
    BY <2>3 DEF VisitsInv, VisitsPaid, Owed
  <2>5. LinksLeft'
    BY <2>1 DEF LinksLeft
  <2>6. RecordsKnown'
    BY <1>2, <2>1, <2>2 DEF VisitsInv, RecordsKnown
  <2> QED BY <2>4, <2>5, <2>6 DEF VisitsInv
<1> QED BY <1>1, <1>2

LEMMA StartEmailVisits ==
  ASSUME NEW opt \in EmailOptions, NEW r \in EmailRuns
  PROVE  EmailInv /\ VisitsInv /\ StartEmail(opt, r) => VisitsInv'
<1> SUFFICES ASSUME EmailInv, VisitsInv, StartEmail(opt, r) PROVE VisitsInv'
  OBVIOUS
<1>1. /\ Email.pc = "idle" /\ Email'.pc \in {"load", "pull", "select"} /\ Email'.seen = seen.entries
      /\ UNCHANGED <<seen, visits, lost>>
  BY DEF EmailInv, ProcTyped, StartEmail, mail, MayStart, At, Email, Pipelines, SeenStore!Load
<1>2. \A x : (At("email", x) <=> Email.pc = x) /\ (At("email", x)' <=> Email'.pc = x)
  BY DEF At, Email
<1>3. \A e, i : ~Passed(e, i)' /\ ~Passed(e, i)
  BY <1>1, <1>2 DEF Passed
<1>4. VisitsPaid'
  BY <1>1, <1>3 DEF VisitsInv, VisitsPaid, Owed
<1>5. LinksLeft' /\ RecordsKnown'
  BY <1>1, <1>2 DEF LinksLeft, RecordsKnown
<1> QED BY <1>4, <1>5 DEF VisitsInv

\* The e-mail pipeline's process, as the e-mail steps leave it.
LEMMA EmailTurn ==
  ASSUME EmailInv, NEW s, EmailGoes(s)
  PROVE  Email' = s /\ (\A x : At("email", x)' <=> s.pc = x) /\ (\A x : At("email", x) <=> Email.pc = x)
BY Turn DEF EmailInv, EmailGoes, Email, Pipelines, At

LEMMA NextEmailVisits == EmailInv /\ VisitsInv /\ NextEmail => VisitsInv'
<1> SUFFICES ASSUME EmailInv, VisitsInv, NextEmail PROVE VisitsInv'
  OBVIOUS
<1> DEFINE e == Head(Email.todo)
<1>1. UNCHANGED <<seen, visits, lost>> /\ Email.pc = "loop" /\ Email \in EmailStates
  BY EmailRunIs DEF NextEmail, mail, count, At, Email
<1>2. CASE ~MayRead(e)
  <2> DEFINE s == [Email EXCEPT !.todo = Tail(@)]
  <2>1. EmailGoes(s)
    BY <1>2 DEF NextEmail
  <2>2. s.pc = "loop" /\ s.seen = Email.seen /\ s.opt = Email.opt
    BY <1>1 DEF EmailStates
  <2> HIDE DEF s
  <2> QED BY <1>1, <2>1, <2>2, EmailTurn, VisitsKept DEF Reading
<1>3. CASE MayRead(e)
  <2> DEFINE s == [Email EXCEPT !.pc = "visit", !.links = Links[e], !.got = <<>>]
  <2>1. EmailGoes(s)
    BY <1>3 DEF NextEmail
  <2>2. s.pc = "visit" /\ s.links = Links[e] /\ s.todo = Email.todo /\ s.seen = Email.seen /\ s.opt = Email.opt
    BY <1>1 DEF EmailStates
  <2>3. Email' = s /\ (\A x : At("email", x)' <=> s.pc = x) /\ (\A x : At("email", x) <=> Email.pc = x)
    <3> HIDE DEF s
    <3> QED BY <2>1, EmailTurn
  <2>4. e \in Emails /\ Links[e] \in Seq(AllLinks)
    <3>1. Email.todo \in Seq(Emails) /\ Email.todo # << >>
      BY <1>1 DEF EmailStates, NextEmail
    <3> QED BY <3>1, LinksTyped
  <2> HIDE DEF s
  <2>5. ASSUME NEW f \in Emails, NEW i \in DOMAIN Links[f] PROVE ~Passed(f, i) /\ ~Passed(f, i)'
    <3>1. ~Passed(f, i)
      BY <1>1, <2>3 DEF Passed
    <3>2. ~Passed(f, i)'
      <4>1. i \in 1..Len(Links[f]) /\ Len(Links[f]) \in Nat
        BY LinksTyped
      <4> QED BY <2>2, <2>3, <4>1 DEF Passed
    <3> QED BY <3>1, <3>2
  <2>6. VisitsPaid'
    BY <1>1, <2>5 DEF VisitsInv, VisitsPaid, Owed
  <2>7. LinksLeft'
    <3>1. Len(Links[e]) \in Nat
      BY <2>4
    <3>2. Email'.links = Links[e] /\ Head(Email'.todo) = e
      BY <2>2, <2>3
    <3> DEFINE all == Links[e]
    <3>3. LastOf(all, all)
      <4> HIDE DEF e, all
      <4>1. \A i \in 1..Len(all) : Len(all) - Len(all) + i = i
        BY <3>1 DEF all
      <4> QED BY <3>1, <4>1 DEF LastOf, all
    <3> HIDE DEF e
    <3> QED BY <3>2, <3>3 DEF LinksLeft
  <2>8. RecordsKnown'
    <3>1. Email.opt.cache => ~SeenStore!Hit(Email.seen, e)
      BY <1>3 DEF MayRead
    <3> HIDE DEF e
    <3>2. Email.opt.cache => \A f \in Emails : SeenStore!Hit(seen.entries, f) => SeenStore!Hit(Email.seen, f)
      BY <1>1, <2>3 DEF VisitsInv, RecordsKnown, Reading
    <3> QED BY <1>1, <2>2, <2>3, <3>1, <3>2 DEF RecordsKnown, e
  <2> QED BY <2>6, <2>7, <2>8 DEF VisitsInv
<1> QED BY <1>2, <1>3

LEMMA VisitVisits == EmailInv /\ VisitsInv /\ Visit => VisitsInv'
<1> SUFFICES ASSUME EmailInv, VisitsInv, Visit PROVE VisitsInv'
  OBVIOUS
<1> DEFINE e == Head(Email.todo)
           all == Links[e]
           n == Len(all) - Len(Email.links) + 1
           l == Head(Email.links)
<1>1. Email \in EmailStates /\ Email.pc = "visit" /\ Email.todo # << >>
  BY EmailRunIs DEF Visit, At, Email, EmailInv, Readied
<1>2. PICK posting :
        EmailGoes([Email EXCEPT !.links = Tail(@), !.got = Append(@, posting)])
  BY DEF Visit
<1> DEFINE s == [Email EXCEPT !.links = Tail(@), !.got = Append(@, posting)]
<1>3. /\ s.pc = "visit" /\ s.links = Tail(Email.links) /\ s.todo = Email.todo
      /\ s.seen = Email.seen /\ s.opt = Email.opt
  BY <1>1 DEF EmailStates
<1>4. Email' = s /\ (\A x : At("email", x)' <=> s.pc = x) /\ (\A x : At("email", x) <=> Email.pc = x)
  <2>1. EmailGoes(s)
    BY <1>2
  <2> HIDE DEF s
  <2> QED BY <2>1, EmailTurn
<1> HIDE DEF s
<1>5. UNCHANGED <<seen, lost>> /\ Email.links # << >>
      /\ visits' \in {visits, IF Email.opt.cache THEN [visits EXCEPT ![l] = @ + 1] ELSE visits}
  BY DEF Visit, count
<1>6. e \in Emails /\ all \in Seq(AllLinks) /\ Email.links \in Seq(AllLinks)
  <2>1. Email.todo \in Seq(Emails) /\ Email.links \in Seq(AllLinks)
    BY <1>1 DEF EmailStates
  <2> QED BY <1>1, <2>1, LinksTyped
<1>7. /\ Len(Tail(Email.links)) = Len(Email.links) - 1 /\ Len(Email.links) \in Nat /\ Len(Email.links) >= 1
      /\ \A i \in 1..(Len(Email.links) - 1) : Tail(Email.links)[i] = Email.links[i + 1]
      /\ l = Email.links[1]
  <2> DEFINE t == Email.links
  <2>1. t \in Seq(AllLinks) /\ t # << >>
    BY <1>5, <1>6
  <2> HIDE DEF t
  <2>2. /\ Len(Tail(t)) = Len(t) - 1 /\ Len(t) \in Nat /\ Len(t) >= 1
        /\ \A i \in 1..(Len(t) - 1) : Tail(t)[i] = t[i + 1]
        /\ Head(t) = t[1]
    BY <2>1
  <2> QED BY <2>2 DEF t
<1>8. /\ Len(all) \in Nat /\ Len(Email.links) <= Len(all)
      /\ \A i \in 1..Len(Email.links) : Email.links[i] = all[Len(all) - Len(Email.links) + i]
  <2>1. LastOf(Email.links, all)
    <3> HIDE DEF n, l
    <3> QED BY <1>1, <1>4 DEF VisitsInv, LinksLeft
  <2> HIDE DEF all, n, l
  <2>2. Len(all) \in Nat
    BY <1>6
  <2> QED BY <2>1, <2>2 DEF LastOf
<1>9. n \in 1..Len(all) /\ l = all[n]
  <2> HIDE DEF all, l
  <2>1. 1 \in 1..Len(Email.links) /\ n \in 1..Len(all)
    BY <1>7, <1>8
  <2>2. Email.links[1] = all[n]
    BY <1>8, <2>1
  <2> QED BY <1>7, <2>1, <2>2
<1>10. LinksLeft'
  <2> DEFINE t == Email.links
             m == Len(t)
  <2> HIDE DEF e, all, l
  <2>1. Email'.links = Tail(t) /\ Head(Email'.todo) = e /\ Len(Tail(t)) = m - 1
    BY <1>3, <1>4, <1>7 DEF e
  <2>2. ASSUME NEW i \in 1..(m - 1) PROVE Tail(t)[i] = all[Len(all) - (m - 1) + i]
    <3>1. i + 1 \in 1..m /\ Len(all) - (m - 1) + i = Len(all) - m + (i + 1)
      BY <1>7, <1>8
    <3> QED BY <1>7, <1>8, <3>1
  <2>3. m - 1 <= Len(all)
    BY <1>7, <1>8
  <2> HIDE DEF t, m
  <2>4. LastOf(Tail(t), all)
    BY <2>1, <2>2, <2>3 DEF LastOf
  <2> QED BY <2>1, <2>4 DEF LinksLeft, all
<1>11. RecordsKnown'
  <2> HIDE DEF e
  <2>1. Email.opt.cache => /\ ~SeenStore!Hit(Email.seen, e)
                           /\ \A f \in Emails : SeenStore!Hit(seen.entries, f) => SeenStore!Hit(Email.seen, f)
    BY <1>1, <1>4 DEF VisitsInv, RecordsKnown, Reading, e
  <2> QED BY <1>3, <1>4, <1>5, <2>1 DEF RecordsKnown, e
<1>12. VisitsPaid'
  <2> SUFFICES ASSUME NEW f \in Emails, NEW i \in DOMAIN Links[f]
               PROVE  /\ visits'[Links[f][i]] + Owed' <= lost' + 1
                      /\ \/ SeenStore!Hit(seen'.entries, f) \/ Passed(f, i)'
                         \/ visits'[Links[f][i]] + Owed' <= lost'
    BY DEF VisitsPaid
  <2>1. /\ visits[Links[f][i]] + Owed <= lost + 1
        /\ SeenStore!Hit(seen.entries, f) \/ Passed(f, i) \/ visits[Links[f][i]] + Owed <= lost
        /\ Owed' = Owed /\ lost' = lost /\ seen' = seen /\ Owed \in {0, 1}
    BY <1>5 DEF VisitsInv, VisitsPaid, Owed
  <2>2. Links[f][i] \in AllLinks /\ i \in Nat /\ Len(Links[f]) \in Nat /\ i <= Len(Links[f])
    BY LinksTyped
  <2>3. visits \in [AllLinks -> Nat] /\ lost \in Nat
    BY DEF EmailInv, MailTyped
  <2>4. Passed(f, i) => Passed(f, i)'
    <3> HIDE DEF e, all, l
    <3>1. SUFFICES ASSUME Passed(f, i) PROVE Passed(f, i)'
      OBVIOUS
    <3>2. i + Len(Email.links) <= Len(Links[f])
      BY <3>1 DEF Passed
    <3>3. i + (Len(Email.links) - 1) <= Len(Links[f])
      BY <1>7, <2>2, <3>2
    <3> QED BY <1>3, <1>4, <1>7, <3>1, <3>3 DEF Passed
  <2>5. CASE visits'[Links[f][i]] = visits[Links[f][i]]
    BY <2>1, <2>2, <2>3, <2>4, <2>5
  <2>6. CASE visits'[Links[f][i]] # visits[Links[f][i]]
    <3>1. Links[f][i] = l /\ Email.opt.cache /\ visits'[Links[f][i]] = visits[Links[f][i]] + 1
      BY <1>5, <2>2, <2>3, <2>6
    <3>2. f = e /\ i = n
      <4> HIDE DEF e, n
      <4>1. n \in DOMAIN Links[e]
        BY <1>6, <1>9
      <4>2. Links[f][i].token = Links[e][n].token
        BY <1>9, <3>1
      <4> QED BY <1>6, <4>1, <4>2, AlertsOK
    <3>3. ~SeenStore!Hit(seen.entries, f)
      BY <1>1, <1>4, <1>6, <3>1, <3>2 DEF VisitsInv, RecordsKnown, Reading
    <3>4. ~Passed(f, i)
      <4> HIDE DEF e, all
      <4>1. ~(n + Len(Email.links) <= Len(all))
        BY <1>7, <1>8
      <4> QED BY <3>2, <4>1 DEF Passed, all
    <3>5. Passed(f, i)'
      <4> HIDE DEF e, all
      <4>1. n + (Len(Email.links) - 1) <= Len(all)
        BY <1>7, <1>8
      <4> QED BY <1>1, <1>3, <1>4, <1>7, <3>1, <3>2, <4>1 DEF Passed, all, e
    <3> QED BY <2>1, <2>2, <2>3, <3>1, <3>3, <3>4, <3>5
  <2> QED BY <2>5, <2>6
<1> QED BY <1>10, <1>11, <1>12 DEF VisitsInv

LEMMA CloseVisits ==
  ASSUME NEW add \in BOOLEAN, add = Email.opt.cache
  PROVE  EmailInv /\ VisitsInv /\ Close(add) => VisitsInv'
<1> SUFFICES ASSUME EmailInv, VisitsInv, Close(add) PROVE VisitsInv'
  OBVIOUS
<1> DEFINE e == Head(Email.todo)
           mem == IF add THEN SeenStore!With(Email.seen, e, TRUE) ELSE Email.seen
<1>1. Email \in EmailStates /\ Email.pc = "visit" /\ Email.todo # << >>
  BY EmailRunIs DEF Close, Parsed, At, Email, EmailInv, Readied
<1>2. e \in Emails
  <2>1. Email.todo \in Seq(Emails)
    BY <1>1 DEF EmailStates
  <2> QED BY <1>1, <2>1
<1>3. /\ Email'.pc = "loop" /\ Email'.seen = mem /\ Email'.opt = Email.opt
      /\ \A x : (At("email", x)' <=> Email'.pc = x) /\ (At("email", x) <=> Email.pc = x)
  <2> DEFINE jobs == Email.jobs \o Email.got
             rest == IF Full(jobs) THEN <<>> ELSE Tail(Email.todo)
             s == [Email EXCEPT !.seen = mem, !.jobs = jobs, !.got = <<>>, !.links = <<>>, !.pc = "loop",
                                !.todo = rest]
  <2>1. EmailGoes(s)
    BY DEF Close
  <2>2. s.pc = "loop" /\ s.seen = mem /\ s.opt = Email.opt
    <3> HIDE DEF mem, jobs, rest
    <3> QED BY <1>1 DEF EmailStates
  <2> HIDE DEF s, mem
  <2> QED BY <2>1, <2>2, EmailTurn
<1>4. /\ seen' = IF add THEN SeenStore!AppendLine(seen, e, TRUE) ELSE seen
      /\ UNCHANGED <<visits, lost>>
  BY DEF Close, count
<1>5. seen \in [entries : SUBSET Records, torn : BOOLEAN] /\ visits \in [AllLinks -> Nat] /\ lost \in Nat
  BY DEF EmailInv, MailTyped
<1> HIDE DEF e
<1>6. \A es, f : SeenStore!Hit(SeenStore!With(es, e, TRUE), f) <=> f = e \/ SeenStore!Hit(es, f)
  <2> SUFFICES ASSUME NEW es, NEW f
               PROVE  SeenStore!Hit(SeenStore!With(es, e, TRUE), f) <=> f = e \/ SeenStore!Hit(es, f)
    OBVIOUS
  <2>1. SeenStore!With(es, e, TRUE) = {x \in es : x[1] # e} \cup {<<e, TRUE>>}
    BY DEF SeenStore!With
  <2>2. <<e, TRUE>>[1] = e
    OBVIOUS
  <2> QED BY <2>1, <2>2 DEF SeenStore!Hit
<1>7. LinksLeft'
  BY <1>3 DEF LinksLeft
<1>8. RecordsKnown'
  <2> SUFFICES ASSUME Email.opt.cache, NEW f \in Emails, SeenStore!Hit(seen'.entries, f)
               PROVE  SeenStore!Hit(mem, f)
    BY <1>3 DEF RecordsKnown
  <2>1. SeenStore!Hit(seen.entries, f) => SeenStore!Hit(Email.seen, f)
    BY <1>1, <1>3 DEF VisitsInv, RecordsKnown, Reading
  <2>2. f = e \/ SeenStore!Hit(seen.entries, f)
    BY <1>4, <1>5, <1>6 DEF SeenStore!AppendLine
  <2> QED BY <1>6, <2>1, <2>2
<1>9. VisitsPaid'
  <2> SUFFICES ASSUME NEW f \in Emails, NEW i \in DOMAIN Links[f]
               PROVE  /\ visits'[Links[f][i]] + Owed' <= lost' + 1
                      /\ \/ SeenStore!Hit(seen'.entries, f) \/ Passed(f, i)'
                         \/ visits'[Links[f][i]] + Owed' <= lost'
    BY DEF VisitsPaid
  <2>1. /\ visits[Links[f][i]] + Owed <= lost + 1
        /\ SeenStore!Hit(seen.entries, f) \/ Passed(f, i) \/ visits[Links[f][i]] + Owed <= lost
    BY DEF VisitsInv, VisitsPaid
  <2>2. visits[Links[f][i]] \in Nat
    <3>1. Links[f][i] \in AllLinks
      BY LinksTyped
    <3> QED BY <1>5, <3>1
  <2>3. CASE ~add
    <3>1. ~Passed(f, i) /\ seen' = seen /\ Owed' = Owed
      BY <1>4, <2>3 DEF Passed, Owed
    <3> QED BY <1>4, <2>1, <3>1
  <2>4. CASE add /\ seen.torn
    <3>1. Owed = 1 /\ Owed' = 0 /\ seen'.entries = seen.entries
      BY <1>4, <1>5, <2>4 DEF Owed, SeenStore!AppendLine
    <3>2. visits[Links[f][i]] + 1 <= lost + 1
      BY <2>1, <3>1
    <3>3. visits[Links[f][i]] + 0 <= lost
      BY <1>5, <2>2, <3>2
    <3>4. visits[Links[f][i]] + 0 <= lost + 1
      BY <1>5, <2>2, <3>3
    <3> QED BY <1>4, <3>1, <3>3, <3>4
  <2>5. CASE add /\ ~seen.torn
    <3>1. Owed = 0 /\ Owed' = 0 /\ seen'.entries = SeenStore!With(seen.entries, e, TRUE)
      BY <1>4, <1>5, <2>5 DEF Owed, SeenStore!AppendLine
    <3>2. SeenStore!Hit(seen.entries, f) \/ Passed(f, i) => SeenStore!Hit(seen'.entries, f)
      BY <1>6, <3>1 DEF Passed, e
    <3> QED BY <1>4, <1>5, <2>1, <2>2, <3>1, <3>2
  <2> QED BY <2>3, <2>4, <2>5
<1> QED BY <1>7, <1>8, <1>9 DEF VisitsInv

LEMMA CrashEmailVisits == EmailInv /\ VisitsInv /\ CrashEmail => VisitsInv'
<1> SUFFICES ASSUME EmailInv, VisitsInv, CrashEmail PROVE VisitsInv'
  OBVIOUS
<1>1. Email'.pc = "idle" /\ \A x : At("email", x)' <=> Email'.pc = x
  BY Turn DEF CrashEmail, Exit, EmailInv, Idle, Email, At, Pipelines
<1>2. /\ UNCHANGED visits
      /\ \/ lost' = lost + 1 /\ seen' = seen
         \/ lost' = lost + 2 /\ seen' = SeenStore!Tear(seen)
  BY DEF CrashEmail
<1>3. seen \in [entries : SUBSET Records, torn : BOOLEAN] /\ visits \in [AllLinks -> Nat] /\ lost \in Nat
  BY DEF EmailInv, MailTyped
<1>4. LinksLeft' /\ RecordsKnown'
  BY <1>1 DEF LinksLeft, RecordsKnown, Reading
<1>5. VisitsPaid'
  <2> SUFFICES ASSUME NEW f \in Emails, NEW i \in DOMAIN Links[f]
               PROVE  /\ visits'[Links[f][i]] + Owed' <= lost' + 1
                      /\ \/ SeenStore!Hit(seen'.entries, f) \/ Passed(f, i)'
                         \/ visits'[Links[f][i]] + Owed' <= lost'
    BY DEF VisitsPaid
  <2>1. /\ visits[Links[f][i]] + Owed <= lost + 1
        /\ SeenStore!Hit(seen.entries, f) \/ Passed(f, i) \/ visits[Links[f][i]] + Owed <= lost
    BY DEF VisitsInv, VisitsPaid
  <2>2. visits[Links[f][i]] \in Nat
    <3>1. Links[f][i] \in AllLinks
      BY LinksTyped
    <3> QED BY <1>3, <3>1
  <2>3. seen'.entries = seen.entries /\ Owed \in {0, 1} /\ Owed' \in {0, 1}
    BY <1>2, <1>3 DEF SeenStore!Tear, Owed
  <2>4. CASE lost' = lost + 1 /\ seen' = seen
    <3>1. Owed' = Owed
      BY <2>4 DEF Owed
    <3> QED BY <1>2, <1>3, <2>1, <2>2, <2>3, <2>4, <3>1
  <2>5. CASE lost' = lost + 2
    BY <1>2, <1>3, <2>1, <2>2, <2>3, <2>5
  <2> QED BY <1>2, <2>4, <2>5
<1> QED BY <1>4, <1>5 DEF VisitsInv

LEMMA NextVisits == EmailInv /\ VisitsInv /\ [EmailNext]_emailVars => VisitsInv'
<1> SUFFICES ASSUME EmailInv, VisitsInv, [EmailNext]_emailVars PROVE VisitsInv'
  OBVIOUS
<1>1. CASE UNCHANGED emailVars
  BY <1>1, VisitsKept DEF emailVars, mail, count, Email
<1>2. CASE Worker
  <2>1. UNCHANGED <<seen, visits, lost>>
    BY <1>2 DEF Worker, StartWorker, QueueDrained, Claim, Scrape, ScrapeRaises, Filter, Embed, EmbedRaises,
       Persist, Finish, mail, count
  <2>2. \E s : proc' = [proc EXCEPT !["worker"] = s]
    BY <1>2 DEF Worker, StartWorker, QueueDrained, Claim, Scrape, ScrapeRaises, Filter, Embed, EmbedRaises,
       Persist, Finish, Onward
  <2>3. Email' = Email
    BY <2>2, Turn DEF EmailInv, Pipelines, Email
  <2> QED BY <2>1, <2>3, VisitsKept
<1>3. ASSUME NEW opt \in EmailOptions, NEW r \in EmailRuns, StartEmail(opt, r) PROVE VisitsInv'
  BY <1>3, StartEmailVisits
<1>4. ASSUME NEW s, EmailGoes(s), UNCHANGED <<seen, visits, lost>>, Email.pc # "visit", s.pc # "visit",
             s.pc \in Reading => Email.pc \in Reading /\ s.seen = Email.seen /\ s.opt = Email.opt
      PROVE  VisitsInv'
  BY <1>4, EmailTurn, VisitsKept
<1>5. CASE LoadEnriched \/ Pull \/ Select \/ Keep \/ PersistEmail \/ MarkEmail
  <2>1. Email \in EmailStates /\ Email.pc # "visit" /\ UNCHANGED <<seen, visits, lost>>
    BY <1>5, EmailRunIs DEF LoadEnriched, Pull, Select, Keep, PersistEmail, MarkEmail, mail, count, At, Email
  <2>2. CASE LoadEnriched
    <3> DEFINE s == [Email EXCEPT !.jobs = enriched, !.pc = "hand over"]
    <3>1. EmailGoes(s) /\ s.pc = "hand over"
      BY <2>1, <2>2 DEF LoadEnriched, EmailStates
    <3> HIDE DEF s
    <3> QED BY <1>4, <2>1, <3>1 DEF Reading
  <2>3. CASE Pull
    <3> DEFINE s == [Email EXCEPT !.pc = "select"]
    <3>1. EmailGoes(s) /\ s.pc = "select" /\ s.seen = Email.seen /\ s.opt = Email.opt /\ Email.pc = "pull"
      BY <2>1, <2>3 DEF Pull, EmailStates, Onward, EmailGoes, Email, At
    <3> HIDE DEF s
    <3> QED BY <1>4, <2>1, <3>1 DEF Reading
  <2>4. CASE Select
    <3> DEFINE s == [Email EXCEPT !.todo = Selected(disk, Email.opt.maxFiles), !.pc = "loop"]
    <3>1. EmailGoes(s) /\ s.pc = "loop" /\ s.seen = Email.seen /\ s.opt = Email.opt /\ Email.pc = "select"
      BY <2>1, <2>4 DEF Select, EmailStates, Email, At
    <3> HIDE DEF s
    <3> QED BY <1>4, <2>1, <3>1 DEF Reading
  <2>5. CASE Keep
    <3> DEFINE s == [Email EXCEPT !.jobs = OnlyEnriched(@),
                                  !.pc = IF Email.opt.mode = "enrich" THEN "write" ELSE "hand over"]
    <3>1. EmailGoes(s) /\ s.pc \in {"write", "hand over"}
      BY <2>1, <2>5 DEF Keep, EmailStates
    <3> HIDE DEF s
    <3> QED BY <1>4, <2>1, <3>1 DEF Reading
  <2>6. CASE PersistEmail \/ MarkEmail
    <3>1. PICK x \in {"enqueue", "read"} : proc' = [proc EXCEPT !["email"].pc = x]
      BY <2>6 DEF PersistEmail, MarkEmail, Onward
    <3> DEFINE s == [Email EXCEPT !.pc = x]
    <3>2. EmailGoes(s) /\ s.pc \in {"enqueue", "read"}
      BY <2>1, <3>1 DEF EmailGoes, Email, EmailStates
    <3> HIDE DEF s
    <3> QED BY <1>4, <2>1, <3>2 DEF Reading
  <2> QED BY <1>5, <2>2, <2>3, <2>4, <2>5, <2>6
<1>6. CASE WriteEnriched \/ NothingEnriched \/ EnqueueEmail
  <2>1. Email \in EmailStates /\ Email.pc # "visit" /\ UNCHANGED <<seen, visits, lost>>
    BY <1>6, EmailRunIs DEF WriteEnriched, NothingEnriched, EnqueueEmail, mail, count, At, Email
  <2>2. EmailGoes(Idle) \/ EmailGoes([Email EXCEPT !.pc = "succeed"])
    BY <1>6 DEF WriteEnriched, NothingEnriched, EnqueueEmail, Exit, Onward, EmailGoes, Email
  <2>3. Idle.pc = "idle"
    BY DEF Idle
  <2>4. CASE EmailGoes(Idle)
    <3> HIDE DEF Idle
    <3> QED BY <1>4, <2>1, <2>3, <2>4 DEF Reading
  <2>5. CASE EmailGoes([Email EXCEPT !.pc = "succeed"])
    <3> DEFINE s == [Email EXCEPT !.pc = "succeed"]
    <3>1. EmailGoes(s) /\ s.pc = "succeed"
      BY <2>1, <2>5 DEF EmailStates
    <3> HIDE DEF s
    <3> QED BY <1>4, <2>1, <3>1 DEF Reading
  <2> QED BY <2>2, <2>4, <2>5
<1>7. Record => VisitsInv'
  <2>1. Record => Email.opt.cache \in BOOLEAN
    BY EmailRunIs, OptionsOK DEF Record, Close, Parsed
  <2> QED BY <2>1, CloseVisits DEF Record
<1>8. CASE EmailPipeline
  BY <1>3, <1>5, <1>6, <1>7, <1>8, NextEmailVisits, VisitVisits DEF EmailPipeline
<1>9. ASSUME NEW p \in Pipelines, FanInOf(p) PROVE VisitsInv'
  <2>1. UNCHANGED <<seen, visits, lost>>
    BY <1>9 DEF FanInOf, ReadFiles, Upsert, Consolidated, EndRun, mail, count
  <2>2. CASE p = "worker"
    <3>1. \E s : proc' = [proc EXCEPT !["worker"] = s]
      BY <1>9, <2>2 DEF FanInOf, ReadFiles, Upsert, Consolidated, EndRun, Onward, Exit
    <3>2. Email' = Email
      BY <3>1, Turn DEF EmailInv, Pipelines, Email
    <3> QED BY <2>1, <3>2, VisitsKept
  <2>3. CASE p = "email"
    <3>1. Email.pc \in {"read", "upsert", "consolidated"}
      BY <1>9, <2>3 DEF FanInOf, ReadFiles, Upsert, Consolidated, EndRun, At, Email
    <3>2. Email'.pc \in {"idle", "upsert", "consolidated"}
      <4>1. ReadFiles(p) => Email'.pc = "upsert"
        <5>1. ReadFiles(p) => proc'[p] = AfterRead(p)
          BY ReadFilesTyped
        <5>2. AfterRead(p).pc = "upsert"
          BY DEF AfterRead
        <5> QED BY <2>3, <5>1, <5>2 DEF Email
      <4>2. ASSUME Upsert(p) \/ Consolidated(p) PROVE Email'.pc \in {"upsert", "consolidated"}
        <5>1. proc[p] \in FanStates(EmailRuns, Jobs)
          BY <2>3, <4>2, WhileFanning DEF Upsert, Consolidated, FanStatesOf
        <5> DEFINE s1 == [proc[p] EXCEPT !.rows = Tail(@)]
                   s2 == [proc[p] EXCEPT !.pc = "consolidated"]
        <5>2. s1.pc \in {"upsert", "consolidated"} /\ s2.pc = "consolidated"
          BY <5>1 DEF FanStates
        <5>3. proc' = [proc EXCEPT ![p] = s1] \/ proc' = [proc EXCEPT ![p] = s2]
          BY <4>2 DEF Upsert, Consolidated, Onward
        <5> HIDE DEF s1, s2
        <5> QED BY <2>3, <5>2, <5>3, Turn DEF EmailInv, Email
      <4>3. EndRun(p) => Email'.pc = "idle"
        <5>1. EndRun(p) => proc' = [proc EXCEPT ![p] = Idle]
          BY DEF EndRun, Exit
        <5>2. EndRun(p) => proc'[p] = Idle
          BY <5>1, Turn DEF EmailInv
        <5>3. Idle.pc = "idle"
          BY DEF Idle
        <5> QED BY <2>3, <5>2, <5>3 DEF Email
      <4> QED BY <1>9, <4>1, <4>2, <4>3 DEF FanInOf
    <3> QED BY <2>1, <3>1, <3>2, VisitsKept DEF Reading
  <2> QED BY <2>2, <2>3 DEF Pipelines
<1>10. CASE World
  <2>1. CASE \E e \in Emails : Age(e)
    BY <2>1, VisitsKept DEF Age, count, Email
  <2>2. CASE InterruptWorker \/ CrashWorker
    <3>1. proc' = [proc EXCEPT !["worker"] = Idle] /\ UNCHANGED <<seen, visits, lost>>
      BY <2>2 DEF InterruptWorker, CrashWorker, Exit, mail
    <3>2. Email' = Email
      BY <3>1, Turn DEF EmailInv, Pipelines, Email
    <3> QED BY <3>1, <3>2, VisitsKept
  <2> QED BY <1>10, <2>1, <2>2, CrashEmailVisits DEF World
<1> QED BY <1>1, <1>2, <1>8, <1>9, <1>10 DEF EmailNext

\* process_eml_directory.py:168-172: a link of a recorded e-mail costs no browser
\* again.  Whatever the options, the crashes and the other pipeline do, a link is
\* visited under the cache once, and once more only for each loss.
THEOREM VisitedOnceHolds == EmailSpec => []VisitedOnce
<1>1. EmailInv /\ VisitsInv => VisitedOnce
  <2> SUFFICES ASSUME EmailInv, VisitsInv, NEW l \in AllLinks PROVE visits[l] <= 1 + lost
    BY DEF VisitedOnce
  <2>1. PICK e \in Emails : \E i \in DOMAIN Links[e] : l = Links[e][i]
    BY DEF AllLinks, ToSet
  <2>2. visits[l] + Owed <= lost + 1
    BY <2>1 DEF VisitsInv, VisitsPaid
  <2>3. visits[l] \in Nat /\ lost \in Nat /\ Owed \in {0, 1}
    BY DEF EmailInv, MailTyped, Owed
  <2> QED BY <2>2, <2>3
<1>2. EmailInit => EmailInv /\ VisitsInv
  BY InitEmailInv, InitVisits
<1>3. EmailInv /\ VisitsInv /\ [EmailNext]_emailVars => EmailInv' /\ VisitsInv'
  BY NextEmailInv, NextVisits
<1> QED BY <1>1, <1>2, <1>3, PTL DEF EmailSpec

-----------------------------------------------------------------------------
(* The veto drops what it may.                                              *)

LEMMA TimesUpTo ==
  ASSUME NEW d \in 0..100, NEW m \in Nat, NEW n \in Nat, m <= n
  PROVE  d * n \in Nat /\ d * n <= 100 * n /\ (100 - d) * m <= (100 - d) * n
<1>1. d * n \in Nat /\ d * n <= 100 * n
  BY Z3
<1>2. 100 - d \in Nat
  OBVIOUS
<1>3. \A k \in Nat : k * m <= k * n
  BY Z3
<1> QED BY <1>1, <1>2, <1>3

\* The rank is the place in the order of being ahead.
LEMMA RankIs ==
  ASSUME NEW T, NEW s \in Seq(T), NEW u,
         \A i \in DOMAIN s : Similarity[u][s[i].title] \in Nat /\ HashRank[s[i].key] \in Nat
  PROVE  \E R : /\ OrderOn(DOMAIN s, R)
                /\ \A i, k \in DOMAIN s : <<i, k>> \in R <=> Ahead(u, s, i, k)
                /\ \A i \in DOMAIN s : CountBefore(DOMAIN s, R, i) = Rank(u, s, i)
<1> DEFINE D == DOMAIN s
           R == {p \in D \X D : Ahead(u, s, p[1], p[2])}
<1>1. D \subseteq Nat
  OBVIOUS
<1>2. \A i, k \in D : <<i, k>> \in R <=> Ahead(u, s, i, k)
  OBVIOUS
<1> HIDE DEF R
<1>3. \A i \in D : CountBefore(D, R, i) = Rank(u, s, i)
  <2> SUFFICES ASSUME NEW i \in D PROVE CountBefore(D, R, i) = Rank(u, s, i)
    OBVIOUS
  <2>1. {k \in D : <<k, i>> \in R} = {k \in D : Ahead(u, s, k, i)}
    BY <1>2
  <2> QED BY <2>1 DEF CountBefore, Rank
<1> HIDE DEF D
<1>4. \A i, k \in D : Ahead(u, s, i, k) => ~Ahead(u, s, k, i)
  BY <1>1 DEF Ahead, D
<1>5. \A i, k, m \in D : Ahead(u, s, i, k) /\ Ahead(u, s, k, m) => Ahead(u, s, i, m)
  <2> SUFFICES ASSUME NEW i \in D, NEW k \in D, NEW m \in D, Ahead(u, s, i, k), Ahead(u, s, k, m)
               PROVE  Ahead(u, s, i, m)
    OBVIOUS
  <2> QED BY <1>1 DEF Ahead, D
<1>6. \A i, k \in D : i = k \/ Ahead(u, s, i, k) \/ Ahead(u, s, k, i)
  BY <1>1 DEF Ahead, D
<1>7. OrderOn(D, R)
  BY <1>2, <1>4, <1>5, <1>6 DEF OrderOn
<1> QED BY <1>2, <1>3, <1>7 DEF D

\* The veto keeps the best-ranked entries, and drops the depth's share at most.
Best(u, s, d) == {i \in DOMAIN s : Rank(u, s, i) < Len(s) - DropCount(d, s)}

LEMMA VetoDrops ==
  ASSUME NEW T, NEW s \in Seq(T), NEW u, NEW d \in 0..100,
         \A i \in DOMAIN s : Similarity[u][s[i].title] \in Nat /\ HashRank[s[i].key] \in Nat
  PROVE  LET I == Best(u, s, d)  J == DOMAIN s \ I IN
         /\ ToSet(Veto(u, s, d)) = {s[i] : i \in I} /\ Len(Veto(u, s, d)) \in Nat
         /\ \A i \in J, k \in I : Similarity[u][s[i].title] <= Similarity[u][s[k].title]
         /\ IsFiniteSet(J) /\ Cardinality(J) \in Nat
         /\ Cardinality(J) + Len(Veto(u, s, d)) = Len(s) /\ 100 * Cardinality(J) <= d * Len(s)
<1> DEFINE N == Len(s)
           D == DOMAIN s
           K == N - DropCount(d, s)
           I == Best(u, s, d)
           J == D \ I
<1>1. N \in Nat /\ D = 1..N /\ IsFiniteSet(D) /\ Cardinality(D) = N
  <2>1. N \in Nat /\ D = 1..N
    OBVIOUS
  <2>2. IsFiniteSet(1..N) /\ Cardinality(1..N) = N
    BY <2>1, FS_Interval
  <2> QED BY <2>1, <2>2
<1>2. PICK R : /\ OrderOn(D, R)
               /\ \A i, k \in D : <<i, k>> \in R <=> Ahead(u, s, i, k)
               /\ \A i \in D : CountBefore(D, R, i) = Rank(u, s, i)
  BY RankIs
<1>3. DropCount(d, s) \in Nat /\ 100 * DropCount(d, s) <= d * N /\ DropCount(d, s) <= N
  <2>1. d * N \in Nat /\ d * N <= 100 * N
    BY <1>1, TimesUpTo
  <2> DEFINE X == d * N
  <2>2. DropCount(d, s) = X \div 100
    BY DEF DropCount
  <2> HIDE DEF X, N
  <2>3. X \in Nat /\ X <= 100 * N
    BY <2>1 DEF X
  <2>4. X \div 100 \in Nat /\ 100 * (X \div 100) <= X
    BY <2>3
  <2>5. X \div 100 <= N
    BY <1>1, <2>3, <2>4
  <2> QED BY <2>2, <2>4, <2>5 DEF X
<1>4. I = {i \in D : Rank(u, s, i) < K}
  BY DEF Best
<1> HIDE DEF I
<1>5. /\ \A i \in D : Rank(u, s, i) \in Nat /\ Rank(u, s, i) < N
      /\ \A i, k \in D : Ahead(u, s, i, k) => Rank(u, s, i) < Rank(u, s, k)
  <2> HIDE DEF D, N
  <2>1. /\ \A i \in D : CountBefore(D, R, i) \in Nat /\ CountBefore(D, R, i) < Cardinality(D)
        /\ \A i, k \in D : <<i, k>> \in R => CountBefore(D, R, i) < CountBefore(D, R, k)
    BY <1>1, <1>2, CountsRank
  <2> QED BY <1>1, <1>2, <2>1
<1>6. Veto(u, s, d) = Pick(s, I)
  BY <1>4 DEF Veto
<1>7. /\ Len(Veto(u, s, d)) = Cardinality(I) /\ Cardinality(I) \in Nat
      /\ ToSet(Veto(u, s, d)) = {s[i] : i \in I}
  <2>1. I \in SUBSET DOMAIN s
    BY <1>4
  <2> QED BY <1>6, <2>1, PickIs
<1>8. ASSUME NEW i \in J, NEW k \in I PROVE Similarity[u][s[i].title] <= Similarity[u][s[k].title]
  <2>1. i \in D /\ k \in D /\ ~(Rank(u, s, i) < K) /\ Rank(u, s, k) < K
    BY <1>4
  <2>2. ~(Rank(u, s, i) < Rank(u, s, k)) /\ i # k
    <3>1. K \in Nat
      BY <1>1, <1>3
    <3> HIDE DEF K
    <3> QED BY <1>5, <2>1, <3>1
  <2>3. ~Ahead(u, s, i, k)
    BY <1>5, <2>1, <2>2
  <2> QED BY <2>1, <2>3 DEF Ahead
<1>9. IsFiniteSet(J) /\ Cardinality(J) \in Nat /\ Cardinality(J) + Cardinality(I) = N
  <2>1. D \cap I = I
    BY <1>4
  <2>2. IsFiniteSet(J) /\ Cardinality(J) = Cardinality(D) - Cardinality(D \cap I)
    BY <1>1, FS_Difference
  <2>3. Cardinality(J) \in Nat
    BY <2>2, FS_CardinalityType
  <2>4. Cardinality(J) = N - Cardinality(I)
    BY <1>1, <2>1, <2>2
  <2> HIDE DEF J, N
  <2> QED BY <1>1, <1>7, <2>2, <2>3, <2>4
<1>10. Cardinality(J) <= DropCount(d, s)
  <2> DEFINE f == [i \in J |-> Rank(u, s, i)]
  <2>1. \A i \in J : i \in D /\ Rank(u, s, i) \in K..(N - 1)
    <3>1. \A i \in J : i \in D /\ ~(Rank(u, s, i) < K)
      BY <1>4
    <3>2. K \in Nat
      BY <1>1, <1>3
    <3> HIDE DEF K, J, N
    <3> QED BY <1>1, <1>5, <3>1, <3>2
  <2>2. \A i, k \in J : Rank(u, s, i) = Rank(u, s, k) => i = k
    <3> SUFFICES ASSUME NEW i \in J, NEW k \in J, Rank(u, s, i) = Rank(u, s, k) PROVE i = k
      OBVIOUS
    <3>1. i \in D /\ k \in D /\ ~(Rank(u, s, i) < Rank(u, s, k)) /\ ~(Rank(u, s, k) < Rank(u, s, i))
      BY <1>5
    <3>2. ~Ahead(u, s, i, k) /\ ~Ahead(u, s, k, i)
      BY <1>5, <3>1
    <3> QED BY <1>2, <3>1, <3>2 DEF OrderOn
  <2>3. f \in Injection(J, K..(N - 1))
    <3>1. f \in [J -> K..(N - 1)]
      BY <2>1
    <3>2. \A i, k \in J : f[i] = f[k] => i = k
      BY <2>2
    <3> HIDE DEF f, J
    <3> QED BY <3>1, <3>2 DEF Injection, IsInjective
  <2>4. IsFiniteSet(K..(N - 1)) /\ Cardinality(K..(N - 1)) = N - K
    <3>1. K \in Int /\ N - 1 \in Int /\ (K > N - 1 => N - K = 0) /\ (N - 1) - K + 1 = N - K
      BY <1>1, <1>3
    <3> HIDE DEF K, N
    <3> QED BY <1>1, <3>1, FS_Interval
  <2>5. Cardinality(J) <= N - K
    <3> HIDE DEF f, J, K
    <3> QED BY <2>3, <2>4, FS_Injection
  <2>6. N - K = DropCount(d, s)
    BY <1>1, <1>3
  <2> QED BY <2>5, <2>6
<1>11. 100 * Cardinality(J) <= d * N
  <2>1. d * N \in Nat
    BY <1>1, TimesUpTo
  <2> DEFINE X == d * N
  <2> HIDE DEF X, J, N
  <2> QED BY <1>3, <1>9, <1>10, <2>1 DEF X
<1> QED BY <1>7, <1>8, <1>9, <1>11 DEF I

LEMMA SearchableIs == \A j \in Searchable : j \in Jobs /\ j.user \in Users /\ j.source # EMAIL_SOURCE
<1>1. \A j \in ToSet(Planned) : j \in Jobs
  BY NightOK DEF ToSet
<1> QED BY <1>1 DEF Searchable, Jobs

\* What the title filter leaves of a search.
LEMMA FilteredIs ==
  ASSUME NEW j \in Searchable, NEW raw \in Found(j), NEW ex
  PROVE  LET kept == TitleFilter(raw, ex) IN
         /\ kept \in Seq(AnyPosting) /\ ToSet(kept) = {p \in ToSet(raw) : p.title \notin ex}
         /\ \A i \in DOMAIN kept : /\ Similarity[j.user][kept[i].title] \in Nat
                                   /\ HashRank[kept[i].key] \in Nat
<1> DEFINE I == {i \in DOMAIN raw : raw[i].title \notin ex}
           kept == TitleFilter(raw, ex)
<1>1. /\ raw \in Seq(AnyPosting) /\ DOMAIN raw = DOMAIN Offers[j]
      /\ \A i \in DOMAIN raw : raw[i].title = Offers[j][i].title /\ raw[i].key = Offers[j][i].key
  BY FoundAre
<1>2. kept = Pick(raw, I)
  BY DEF TitleFilter
<1>3. kept \in Seq(AnyPosting) /\ ToSet(kept) = {raw[i] : i \in I}
  <2> HIDE DEF kept
  <2> QED BY <1>1, <1>2, PickIs
<1>4. ToSet(kept) = {p \in ToSet(raw) : p.title \notin ex}
  <2>1. {raw[i] : i \in I} = {p \in ToSet(raw) : p.title \notin ex}
    BY DEF ToSet
  <2> QED BY <1>3, <2>1
<1>5. ASSUME NEW i \in DOMAIN kept
      PROVE  Similarity[j.user][kept[i].title] \in Nat /\ HashRank[kept[i].key] \in Nat
  <2> HIDE DEF kept
  <2>1. kept[i] \in ToSet(kept)
    BY DEF ToSet
  <2>2. PICK k \in DOMAIN raw : kept[i] = raw[k]
    BY <1>3, <2>1
  <2> QED BY <1>1, <2>2, OffersOK
<1> QED BY <1>3, <1>4, <1>5

LEMMA DepthIs ==
  ASSUME EmailInv, NEW u \in Users
  PROVE  /\ Depth(settings.system, Policies(u)) \in 0..100
         /\ Enabled(settings.system, Policies(u)) = TRUE => settings.system.enabled /\ Policies(u).veto # FALSE
<1>1. PICK sc \in Scenarios : settings = [system |-> sc.system, policies |-> sc.policies]
  BY DEF EmailInv, DataTyped
<1>2. settings.system = sc.system /\ Policies(u) = sc.policies[u]
  BY <1>1 DEF Policies
<1>3. Depth(sc.system, sc.policies[u]) \in 0..100
  BY PoliciesOK DEF Depth
<1>4. Enabled(sc.system, sc.policies[u]) = TRUE => sc.system.enabled /\ sc.policies[u].veto # FALSE
  <2>1. /\ sc.system.enabled \in BOOLEAN
        /\ sc.policies[u].veto = Unset \/ sc.policies[u].veto \in BOOLEAN
        /\ Unset \notin BOOLEAN
    BY PoliciesOK
  <2>2. CASE sc.policies[u].veto = Unset
    BY <2>1, <2>2 DEF Enabled
  <2>3. CASE sc.policies[u].veto = TRUE
    BY <2>1, <2>3 DEF Enabled
  <2>4. CASE sc.policies[u].veto = FALSE
    BY <2>1, <2>4 DEF Enabled
  <2> QED BY <2>1, <2>2, <2>3, <2>4
<1> QED BY <1>2, <1>3, <1>4

LEMMA FilterJustified ==
  ASSUME EmailInv, NEW j \in Searchable, NEW raw \in Found(j)
  PROVE  Justified(settings, j, raw, TitleFilter(raw, Policies(j.user).excluded))
<1> DEFINE ex == Policies(j.user).excluded
           kept == TitleFilter(raw, ex)
           d == Depth(settings.system, Policies(j.user))
           dropped == {p \in ToSet(raw) \ ToSet(kept) : ~(p.title \in ex)}
<1>1. kept \in Seq(AnyPosting) /\ ToSet(kept) = {p \in ToSet(raw) : p.title \notin ex}
  BY FilteredIs
<1>2. d \in 0..100
  BY SearchableIs, DepthIs
<1>3. dropped = {} /\ \A p \in ToSet(kept) : ~(p.title \in ex)
  BY <1>1
<1>4. 100 * Cardinality(dropped) <= d * (Cardinality(dropped) + Len(kept))
  <2>1. Cardinality(dropped) = 0 /\ Len(kept) \in Nat
    <3>1. Cardinality(dropped) = 0
      BY <1>3, FS_EmptySet
    <3> HIDE DEF kept
    <3> QED BY <1>1, <3>1
  <2> HIDE DEF kept, d, dropped
  <2>2. d * Len(kept) \in Nat
    BY <1>2, <2>1, TimesUpTo
  <2> QED BY <2>1, <2>2
<1>5. d = IF settings.policies[j.user].depth = Unset THEN settings.system.depth ELSE settings.policies[j.user].depth
  BY DEF Depth, Policies
<1>6. ex = settings.policies[j.user].excluded
  BY DEF Policies
<1> HIDE DEF kept, d, ex
<1>7. Justified(settings, j, raw, kept)
  BY <1>3, <1>4, <1>5, <1>6 DEF Justified
<1> QED BY <1>7 DEF kept, ex

LEMMA VetoJustified ==
  ASSUME EmailInv, NEW j \in Searchable, NEW raw \in Found(j), j.source = "companies",
         Enabled(settings.system, Policies(j.user)) = TRUE
  PROVE  Justified(settings, j, raw, Veto(j.user, TitleFilter(raw, Policies(j.user).excluded),
                                Depth(settings.system, Policies(j.user))))
<1> DEFINE ex == Policies(j.user).excluded
           kept == TitleFilter(raw, ex)
           u == j.user
           d == Depth(settings.system, Policies(u))
           out == Veto(u, kept, d)
           dropped == {p \in ToSet(raw) \ ToSet(out) : ~(p.title \in ex)}
           I == Best(u, kept, d)
           J == DOMAIN kept \ I
<1>1. /\ kept \in Seq(AnyPosting) /\ ToSet(kept) = {p \in ToSet(raw) : p.title \notin ex}
      /\ \A i \in DOMAIN kept : Similarity[u][kept[i].title] \in Nat /\ HashRank[kept[i].key] \in Nat
  BY FilteredIs
<1>2. d \in 0..100 /\ settings.system.enabled /\ Policies(u).veto # FALSE
  BY SearchableIs, DepthIs
<1>3. /\ ToSet(out) = {kept[i] : i \in I} /\ Len(out) \in Nat
      /\ \A i \in J, k \in I : Similarity[u][kept[i].title] <= Similarity[u][kept[k].title]
      /\ IsFiniteSet(J) /\ Cardinality(J) \in Nat
      /\ Cardinality(J) + Len(out) = Len(kept) /\ 100 * Cardinality(J) <= d * Len(kept)
  <2> HIDE DEF kept, d, u
  <2> QED BY <1>1, <1>2, VetoDrops
<1>4. \A p \in ToSet(out) : p \in ToSet(kept)
  <2>1. I \subseteq DOMAIN kept
    BY DEF Best
  <2> HIDE DEF I, kept, out
  <2> QED BY <1>3, <2>1 DEF ToSet
<1>5. \A p \in dropped : \E i \in J : p = kept[i]
  <2> SUFFICES ASSUME NEW p \in dropped PROVE \E i \in J : p = kept[i]
    OBVIOUS
  <2> HIDE DEF I, kept, out, ex
  <2>1. p \in ToSet(kept)
    BY <1>1
  <2>2. PICK i \in DOMAIN kept : p = kept[i]
    BY <2>1 DEF ToSet
  <2>3. i \notin I
    BY <1>3, <2>2
  <2> QED BY <2>2, <2>3
<1>6. \A p \in ToSet(out) : ~(p.title \in ex)
  BY <1>1, <1>4
<1>7. \A p \in dropped, q \in ToSet(out) : Similarity[u][p.title] <= Similarity[u][q.title]
  <2> HIDE DEF I, J, kept, out, dropped
  <2> QED BY <1>3, <1>5
<1>8. Cardinality(dropped) \in Nat /\ Cardinality(dropped) <= Cardinality(J)
  <2> DEFINE f == [p \in dropped |-> CHOOSE i \in J : p = kept[i]]
  <2> HIDE DEF I, J, kept, out, dropped
  <2>1. \A p \in dropped : f[p] \in J /\ p = kept[f[p]]
    BY <1>5
  <2>2. f \in Injection(dropped, J)
    <3>1. f \in [dropped -> J]
      BY <2>1
    <3> HIDE DEF f
    <3>2. \A p, q \in dropped : f[p] = f[q] => p = q
      BY <2>1
    <3> QED BY <3>1, <3>2 DEF Injection, IsInjective
  <2> HIDE DEF f
  <2>3. IsFiniteSet(dropped) /\ Cardinality(dropped) <= Cardinality(J)
    BY <1>3, <2>2, FS_Injection
  <2> QED BY <2>3, FS_CardinalityType
<1>9. 100 * Cardinality(dropped) <= d * (Cardinality(dropped) + Len(out))
  <2> DEFINE c == Cardinality(dropped)  M == Cardinality(J)  L == Len(out)  N == Len(kept)
  <2> HIDE DEF c, M, L, N, d, dropped, J, out, kept
  <2>1. c \in Nat /\ M \in Nat /\ L \in Nat /\ c <= M /\ M + L = N /\ 100 * M <= d * N
    BY <1>3, <1>8 DEF c, M, L, N
  <2>2. (100 - d) * c <= (100 - d) * M
    BY <1>2, <2>1, TimesUpTo
  <2>3. /\ (100 - d) * c = 100 * c - d * c /\ (100 - d) * M = 100 * M - d * M
        /\ d * N = d * M + d * L /\ d * (c + L) = d * c + d * L
    BY <1>2, <2>1, Z3
  <2>4. d * c \in Int /\ d * M \in Int /\ d * L \in Int
    BY <1>2, <2>1, Z3
  <2>5. 100 * c <= d * (c + L)
    BY <2>1, <2>2, <2>3, <2>4
  <2> QED BY <2>5 DEF c, L
<1>10. d = IF settings.policies[u].depth = Unset THEN settings.system.depth ELSE settings.policies[u].depth
  BY DEF Depth, Policies
<1>11. ex = settings.policies[u].excluded /\ settings.policies[u].veto # FALSE
  BY <1>2 DEF Policies
<1> HIDE DEF kept, d, ex, out
<1> QED BY <1>2, <1>6, <1>7, <1>9, <1>10, <1>11 DEF Justified, kept, out, d, ex

\* What the worker has in hand, between the scrape and the row's end.
InVeto ==
  LET w == proc["worker"] IN
  /\ \A x \in {"filter", "embed"} : At("worker", x) => w.raw \in Found(w.row)
  /\ At("worker", "embed") => /\ w.jobs = TitleFilter(w.raw, Policies(w.row.user).excluded)
                              /\ w.row.source = "companies"
                              /\ Enabled(settings.system, Policies(w.row.user)) = TRUE
  /\ At("worker", "persist") => Justified(settings, w.row, w.raw, w.jobs)
  /\ At("worker", "succeed") => Justified(settings, w.row, scraped[w.row], files[w.row])

RowsJustified ==
  \A j \in RowsIn("succeeded") : j.source # EMAIL_SOURCE => Justified(settings, j, scraped[j], files[j])

VetoInv == InVeto /\ RowsJustified

\* The row a step of the worker has in hand, and the rows it leaves alone.
LEMMA VetoMoves ==
  ASSUME EmailInv, VetoInv, UNCHANGED settings,
         \/ proc'["worker"] = proc["worker"]
            /\ \A j \in Jobs : j.source # EMAIL_SOURCE => scraped'[j] = scraped[j] /\ files'[j] = files[j]
         \/ proc'["worker"].pc \notin {"filter", "embed", "persist", "succeed"},
         \A j \in Jobs : j.source # EMAIL_SOURCE /\ status[j] = "succeeded" =>
            scraped'[j] = scraped[j] /\ files'[j] = files[j],
         \A j \in Jobs : j.source # EMAIL_SOURCE /\ status'[j] = "succeeded" =>
            status[j] = "succeeded" \/ Justified(settings, j, scraped'[j], files'[j])
  PROVE  VetoInv'
<1>1. RowsJustified'
  BY DEF VetoInv, RowsJustified, RowsIn
<1>2. CASE /\ proc'["worker"] = proc["worker"]
           /\ \A j \in Jobs : j.source # EMAIL_SOURCE => scraped'[j] = scraped[j] /\ files'[j] = files[j]
  <2>1. \A x : At("worker", x)' <=> At("worker", x)
    BY <1>2 DEF At
  <2>2. At("worker", "succeed") => /\ scraped'[proc["worker"].row] = scraped[proc["worker"].row]
                                   /\ files'[proc["worker"].row] = files[proc["worker"].row]
    BY <1>2, RowInHand
  <2>3. Policies(proc["worker"].row.user)' = Policies(proc["worker"].row.user)
    BY <1>2 DEF Policies
  <2>4. \A j : Found(j)' = Found(j)
    BY DEF Found
  <2> QED BY <1>1, <1>2, <2>1, <2>2, <2>3, <2>4 DEF VetoInv, InVeto
<1>3. CASE proc'["worker"].pc \notin {"filter", "embed", "persist", "succeed"}
  BY <1>1, <1>3 DEF VetoInv, InVeto, At
<1> QED BY <1>2, <1>3

LEMMA InitVeto == EmailInit => VetoInv
BY DEF EmailInit, VetoInv, InVeto, RowsJustified, RowsIn, At, Idle, Pipelines

LEMMA ScrapeVeto == EmailInv /\ VetoInv /\ Scrape => VetoInv'
<1> SUFFICES ASSUME EmailInv, VetoInv, Scrape PROVE VetoInv'
  OBVIOUS
<1> DEFINE w == proc["worker"]
<1>1. PICK found \in Found(w.row) :
        proc' = [proc EXCEPT !["worker"] = [@ EXCEPT !.pc = "filter", !.raw = found]]
  BY DEF Scrape
<1>2. w \in WorkerStates
  BY RowInHand DEF Scrape
<1>3. proc'["worker"].pc = "filter" /\ proc'["worker"].row = w.row /\ proc'["worker"].raw = found
  <2> DEFINE s == [w EXCEPT !.pc = "filter", !.raw = found]
  <2>1. s.pc = "filter" /\ s.row = w.row /\ s.raw = found
    BY <1>2 DEF WorkerStates
  <2>2. proc' = [proc EXCEPT !["worker"] = s]
    BY <1>1
  <2> HIDE DEF s
  <2> QED BY <2>1, <2>2, Turn DEF EmailInv, Pipelines
<1>4. RowsJustified'
  BY DEF Scrape, queueVars, stage, VetoInv, RowsJustified, RowsIn
<1> QED BY <1>3, <1>4 DEF VetoInv, InVeto, At

LEMMA FilterVeto == EmailInv /\ VetoInv /\ Filter => VetoInv'
<1> SUFFICES ASSUME EmailInv, VetoInv, Filter PROVE VetoInv'
  OBVIOUS
<1> DEFINE w == proc["worker"]
           pol == Policies(w.row.user)
           kept == TitleFilter(w.raw, pol.excluded)
           veto == w.row.source = "companies" /\ Enabled(settings.system, pol)
           next == IF veto /\ ~Readable(vectors) THEN "fail"
                   ELSE IF veto /\ Vetoes(settings.system, pol, kept) THEN "embed" ELSE "persist"
           s == [w EXCEPT !.jobs = kept, !.pc = next]
<1>1. w \in WorkerStates /\ w.row \in Searchable
  BY RowInHand DEF Filter
<1>2. /\ proc'["worker"].pc = next /\ proc'["worker"].row = w.row /\ proc'["worker"].raw = w.raw
      /\ proc'["worker"].jobs = kept
  <2>1. s.pc = next /\ s.row = w.row /\ s.raw = w.raw /\ s.jobs = kept
    <3> HIDE DEF kept, next
    <3> QED BY <1>1 DEF WorkerStates
  <2>2. proc' = [proc EXCEPT !["worker"] = s]
    BY DEF Filter
  <2> HIDE DEF s, kept, next
  <2> QED BY <2>1, <2>2, Turn DEF EmailInv, Pipelines
<1>3. w.raw \in Found(w.row) /\ UNCHANGED <<settings, scraped, files, status>>
  BY DEF VetoInv, InVeto, Filter, queueVars, stage
<1>4. Justified(settings, w.row, w.raw, kept)
  BY <1>1, <1>3, FilterJustified
<1>5. RowsJustified'
  BY <1>3 DEF VetoInv, RowsJustified, RowsIn
<1>6. next = "embed" => w.row.source = "companies" /\ Enabled(settings.system, pol) = TRUE
  <2>1. next = "embed" => veto /\ (veto = TRUE)
    OBVIOUS
  <2>2. Enabled(settings.system, pol) \in BOOLEAN
    <3>1. PICK sc \in Scenarios : settings = [system |-> sc.system, policies |-> sc.policies]
      BY DEF EmailInv, DataTyped
    <3>2. settings.system = sc.system /\ pol = sc.policies[w.row.user] /\ w.row.user \in Users
      BY <1>1, <3>1, SearchableIs DEF Policies
    <3> HIDE DEF pol
    <3> QED BY <3>2, PoliciesOK DEF Enabled
  <2> HIDE DEF next, pol
  <2> QED BY <2>1, <2>2
<1>7. next \in {"fail", "embed", "persist"}
  OBVIOUS
<1>8. \A x : At("worker", x)' <=> next = x
  <2> HIDE DEF next
  <2> QED BY <1>2 DEF At
<1>10. InVeto'
  <2> HIDE DEF next, kept
  <2>1. next = "embed" => /\ kept = TitleFilter(w.raw, pol.excluded) /\ w.raw \in Found(w.row)
                          /\ w.row.source = "companies" /\ Enabled(settings.system, pol) = TRUE
    BY <1>3, <1>6 DEF kept
  <2>2. Policies(proc["worker"].row.user)' = pol
    BY <1>2, <1>3 DEF Policies
  <2> HIDE DEF pol
  <2> QED BY <1>2, <1>3, <1>4, <1>7, <1>8, <2>1, <2>2 DEF InVeto
<1> QED BY <1>5, <1>10 DEF VetoInv

LEMMA EmbedVeto == EmailInv /\ VetoInv /\ Embed => VetoInv'
<1> SUFFICES ASSUME EmailInv, VetoInv, Embed PROVE VetoInv'
  OBVIOUS
<1> DEFINE w == proc["worker"]
           pol == Policies(w.row.user)
           out == Veto(w.row.user, w.jobs, Depth(settings.system, pol))
           s == [w EXCEPT !.pc = "persist", !.jobs = out]
<1>1. w \in WorkerStates /\ w.row \in Searchable
  BY RowInHand DEF Embed
<1>2. /\ proc'["worker"].pc = "persist" /\ proc'["worker"].row = w.row /\ proc'["worker"].raw = w.raw
      /\ proc'["worker"].jobs = out
  <2>1. s.pc = "persist" /\ s.row = w.row /\ s.raw = w.raw /\ s.jobs = out
    <3> HIDE DEF out
    <3> QED BY <1>1 DEF WorkerStates
  <2>2. proc' = [proc EXCEPT !["worker"] = s]
    BY DEF Embed
  <2> HIDE DEF s, out
  <2> QED BY <2>1, <2>2, Turn DEF EmailInv, Pipelines
<1>3. /\ w.raw \in Found(w.row) /\ w.jobs = TitleFilter(w.raw, pol.excluded)
      /\ w.row.source = "companies" /\ Enabled(settings.system, pol) = TRUE
      /\ UNCHANGED <<settings, scraped, files, status>>
  BY DEF VetoInv, InVeto, Embed, queueVars
<1>4. Justified(settings, w.row, w.raw, out)
  <2>1. Justified(settings, w.row, w.raw, Veto(w.row.user, TitleFilter(w.raw, pol.excluded),
                                               Depth(settings.system, pol)))
    BY <1>1, <1>3, VetoJustified
  <2> QED BY <1>3, <2>1
<1>5. RowsJustified'
  BY <1>3 DEF VetoInv, RowsJustified, RowsIn
<1> HIDE DEF out
<1> QED BY <1>2, <1>3, <1>4, <1>5 DEF VetoInv, InVeto, At

LEMMA PersistVeto == EmailInv /\ VetoInv /\ Persist => VetoInv'
<1> SUFFICES ASSUME EmailInv, VetoInv, Persist PROVE VetoInv'
  OBVIOUS
<1> DEFINE w == proc["worker"]
           s == [w EXCEPT !.pc = "succeed"]
<1>1. w \in WorkerStates /\ w.row \in Jobs /\ status[w.row] = "running" /\ w.row.source # EMAIL_SOURCE
  BY RowInHand DEF Persist
<1>2. proc'["worker"].pc = "succeed" /\ proc'["worker"].row = w.row
  <2>1. s.pc = "succeed" /\ s.row = w.row
    BY <1>1 DEF WorkerStates
  <2>2. proc' = [proc EXCEPT !["worker"] = s]
    BY DEF Persist, Onward
  <2> HIDE DEF s
  <2> QED BY <2>1, <2>2, Turn DEF EmailInv, Pipelines
<1>3. /\ files' = [files EXCEPT ![w.row] = w.jobs] /\ scraped' = [scraped EXCEPT ![w.row] = w.raw]
      /\ UNCHANGED <<settings, status>> /\ Justified(settings, w.row, w.raw, w.jobs)
  BY DEF Persist, queueVars, VetoInv, InVeto
<1>4. files'[w.row] = w.jobs /\ scraped'[w.row] = w.raw
  BY <1>1, <1>3 DEF EmailInv, DataTyped
<1>5. RowsJustified'
  <2> SUFFICES ASSUME NEW j \in Jobs, status[j] = "succeeded", j.source # EMAIL_SOURCE
               PROVE  Justified(settings, j, scraped'[j], files'[j])
    BY <1>3 DEF RowsJustified, RowsIn
  <2>1. j # w.row
    BY <1>1
  <2>2. scraped'[j] = scraped[j] /\ files'[j] = files[j]
    BY <1>3, <2>1 DEF EmailInv, DataTyped
  <2> QED BY <2>2 DEF VetoInv, RowsJustified, RowsIn
<1> QED BY <1>2, <1>3, <1>4, <1>5 DEF VetoInv, InVeto, At

LEMMA FinishVeto == EmailInv /\ VetoInv /\ Finish => VetoInv'
<1> SUFFICES ASSUME EmailInv, VetoInv, Finish PROVE VetoInv'
  OBVIOUS
<1> DEFINE w == proc["worker"]
           s == [w EXCEPT !.pc = "claim"]
<1>1. PICK x \in {"succeed", "fail"} : At("worker", x)
  BY DEF Finish
<1>2. w \in WorkerStates /\ w.row \in Jobs
  BY <1>1, RowInHand
<1>3. proc'["worker"].pc = "claim"
  <2>1. s.pc = "claim"
    BY <1>2 DEF WorkerStates
  <2>2. proc' = [proc EXCEPT !["worker"] = s]
    BY DEF Finish, Onward
  <2> HIDE DEF s
  <2> QED BY <2>1, <2>2, Turn DEF EmailInv, Pipelines
<1>4. /\ status' = [status EXCEPT ![w.row] = IF At("worker", "succeed") THEN "succeeded" ELSE "failed"]
      /\ UNCHANGED <<settings, scraped, files>>
  BY DEF Finish, Mark, stage
<1>5. \A j \in Jobs : status'[j] = "succeeded" => status[j] = "succeeded" \/ (j = w.row /\ At("worker", "succeed"))
  BY <1>2, <1>4 DEF EmailInv, DataTyped
<1>6. At("worker", "succeed") => Justified(settings, w.row, scraped[w.row], files[w.row])
  BY DEF VetoInv, InVeto
<1> QED BY <1>3, <1>4, <1>5, <1>6, VetoMoves

\* Files are written over running rows only, and over the e-mail's own.
LEMMA CrashWorkerVeto == EmailInv /\ VetoInv /\ CrashWorker => VetoInv'
<1> SUFFICES ASSUME EmailInv, VetoInv, CrashWorker PROVE VetoInv'
  OBVIOUS
<1> DEFINE w == proc["worker"]
<1>1. proc'["worker"].pc = "idle"
  <2>1. proc' = [proc EXCEPT !["worker"] = Idle] /\ Idle.pc = "idle"
    BY DEF CrashWorker, Exit, Idle
  <2> HIDE DEF Idle
  <2> QED BY <2>1, Turn DEF EmailInv, Pipelines
<1>2. UNCHANGED <<settings, scraped, status>>
  BY DEF CrashWorker, queueVars
<1>3. \A j \in Jobs : status[j] = "succeeded" /\ j.source # EMAIL_SOURCE => files'[j] = files[j]
  <2>1. CASE files' = files
    BY <2>1
  <2>2. CASE At("worker", "persist") /\ files' # files
    <3>1. w.row \in Jobs /\ status[w.row] = "running"
      BY <2>2, RowInHand
    <3>2. \E f : files' = [files EXCEPT ![w.row] = f]
      BY <2>2 DEF CrashWorker
    <3> QED BY <3>1, <3>2 DEF EmailInv, DataTyped
  <2> QED BY <2>1, <2>2 DEF CrashWorker
<1> QED BY <1>1, <1>2, <1>3, VetoMoves

\* The e-mail pipeline changes its own row and file only.
LEMMA EmailVeto ==
  ASSUME EmailInv, VetoInv, UNCHANGED <<settings, scraped>>, NEW s, proc' = [proc EXCEPT !["email"] = s],
         \A j \in Jobs : j.source # EMAIL_SOURCE => files'[j] = files[j] /\ status'[j] = status[j]
  PROVE  VetoInv'
<1>1. proc'["worker"] = proc["worker"]
  BY Turn DEF EmailInv, Pipelines
<1> QED BY <1>1, VetoMoves

LEMMA NextVeto == EmailInv /\ VetoInv /\ [EmailNext]_emailVars => VetoInv'
<1> SUFFICES ASSUME EmailInv, VetoInv, [EmailNext]_emailVars PROVE VetoInv'
  OBVIOUS
<1>1. CASE UNCHANGED emailVars
  BY <1>1, VetoMoves DEF emailVars, queueVars, stage
<1>2. CASE Worker
  <2>1. CASE StartWorker \/ QueueDrained \/ (\E j \in Jobs : Claim(j)) \/ ScrapeRaises \/ EmbedRaises
    <3>1. UNCHANGED <<settings, scraped, files>>
      BY <2>1 DEF StartWorker, QueueDrained, Claim, ScrapeRaises, EmbedRaises, stage
    <3>2. \A j \in Jobs : status'[j] = "succeeded" => status[j] = "succeeded"
      <4>1. CASE \E j \in Jobs : Claim(j)
        BY <4>1 DEF Claim, Lease, EmailInv, DataTyped
      <4> QED BY <2>1, <4>1 DEF StartWorker, QueueDrained, ScrapeRaises, EmbedRaises, queueVars
    <3>3. proc'["worker"].pc \in {"claim", "scrape", "read", "fail"}
      <4>1. CASE StartWorker
        BY <4>1, Turn DEF StartWorker, EmailInv, Pipelines
      <4>2. CASE ~StartWorker
        <5>1. proc["worker"] \in WorkerStates
          BY <2>1, <4>2, WorkerAt DEF QueueDrained, Claim, ScrapeRaises, EmbedRaises, EmailInv
        <5>2. PICK x \in {"scrape", "read", "fail"} :
                \/ proc' = [proc EXCEPT !["worker"].pc = x]
                \/ \E j : proc' = [proc EXCEPT !["worker"] = [@ EXCEPT !.pc = x, !.row = j]]
          <6>1. CASE QueueDrained
            BY <6>1 DEF QueueDrained, Onward
          <6>2. CASE ScrapeRaises \/ EmbedRaises
            BY <6>2 DEF ScrapeRaises, EmbedRaises, Onward
          <6>3. CASE \E j \in Jobs : Claim(j)
            BY <6>3 DEF Claim
          <6> QED BY <2>1, <4>2, <6>1, <6>2, <6>3
        <5>3. \E s : proc' = [proc EXCEPT !["worker"] = s] /\ s.pc = x
          <6>1. CASE proc' = [proc EXCEPT !["worker"].pc = x]
            <7> DEFINE s == [proc["worker"] EXCEPT !.pc = x]
            <7>1. proc' = [proc EXCEPT !["worker"] = s] /\ s.pc = x
              BY <5>1, <6>1 DEF WorkerStates
            <7> HIDE DEF s
            <7> QED BY <7>1
          <6>2. ASSUME NEW j, proc' = [proc EXCEPT !["worker"] = [@ EXCEPT !.pc = x, !.row = j]]
                PROVE  \E s : proc' = [proc EXCEPT !["worker"] = s] /\ s.pc = x
            <7> DEFINE s == [proc["worker"] EXCEPT !.pc = x, !.row = j]
            <7>1. proc' = [proc EXCEPT !["worker"] = s] /\ s.pc = x
              BY <5>1, <6>2 DEF WorkerStates
            <7> HIDE DEF s
            <7> QED BY <7>1
          <6> QED BY <5>2, <6>1, <6>2
        <5> QED BY <5>3, Turn DEF EmailInv, Pipelines
      <4> QED BY <4>1, <4>2
    <3> QED BY <3>1, <3>2, <3>3, VetoMoves
  <2> QED BY <1>2, <2>1, ScrapeVeto, FilterVeto, EmbedVeto, PersistVeto, FinishVeto DEF Worker
<1>3. CASE EmailPipeline
  <2>1. UNCHANGED <<settings, scraped>> /\ \E s : proc' = [proc EXCEPT !["email"] = s]
    BY <1>3 DEF EmailPipeline, StartEmail, LoadEnriched, Pull, Select, NextEmail, Visit, Record, Close, Keep,
       WriteEnriched, NothingEnriched, PersistEmail, EnqueueEmail, MarkEmail, EmailGoes, Onward, Exit, stage
  <2>2. \A j \in Jobs : j.source # EMAIL_SOURCE => files'[j] = files[j] /\ status'[j] = status[j]
    <3>1. CASE PersistEmail
      <4>1. Email.row.source = EMAIL_SOURCE
        <5>1. At("email", "hand over")
          BY <3>1 DEF PersistEmail
        <5>2. Email.row = EmailRow(Email.run)
          BY <5>1, EmailRunIs
        <5> QED BY <5>2 DEF EmailRow
      <4>2. files' = [files EXCEPT ![Email.row] = Email.jobs] /\ UNCHANGED status
        BY <3>1 DEF PersistEmail, queueVars
      <4> QED BY <4>1, <4>2 DEF EmailInv, DataTyped
    <3>2. CASE EnqueueEmail
      <4>1. Email.row.source = EMAIL_SOURCE
        <5>1. At("email", "enqueue")
          BY <3>2 DEF EnqueueEmail
        <5>2. Email.row = EmailRow(Email.run)
          BY <5>1, EmailRunIs
        <5> QED BY <5>2 DEF EmailRow
      <4>2. UNCHANGED files /\ (status' = [status EXCEPT ![Email.row] = "pending"] \/ UNCHANGED status)
        BY <3>2 DEF EnqueueEmail, Enqueue, stage, queueVars
      <4> QED BY <4>1, <4>2 DEF EmailInv, DataTyped
    <3>3. CASE MarkEmail
      <4>1. Email.row.source = EMAIL_SOURCE
        <5>1. At("email", "succeed")
          BY <3>3 DEF MarkEmail
        <5>2. Email.row = EmailRow(Email.run)
          BY <5>1, EmailRunIs
        <5> QED BY <5>2 DEF EmailRow
      <4>2. UNCHANGED files /\ status' = [status EXCEPT ![Email.row] = "succeeded"]
        BY <3>3 DEF MarkEmail, Mark, stage
      <4> QED BY <4>1, <4>2 DEF EmailInv, DataTyped
    <3>4. CASE ~(PersistEmail \/ EnqueueEmail \/ MarkEmail)
      BY <1>3, <3>4 DEF EmailPipeline, StartEmail, LoadEnriched, Pull, Select, NextEmail, Visit, Record, Close,
         Keep, WriteEnriched, NothingEnriched, stage, queueVars
    <3> QED BY <3>1, <3>2, <3>3, <3>4
  <2> QED BY <2>1, <2>2, EmailVeto
<1>4. ASSUME NEW p \in Pipelines, FanInOf(p) PROVE VetoInv'
  <2>1. UNCHANGED <<settings, scraped, files, status>>
    BY <1>4 DEF FanInOf, ReadFiles, Upsert, Consolidated, EndRun, stage, queueVars
  <2>2. \E s : proc' = [proc EXCEPT ![p] = s]
    BY <1>4 DEF FanInOf, ReadFiles, Upsert, Consolidated, EndRun, Onward, Exit
  <2>3. CASE p = "email"
    BY <2>1, <2>2, <2>3, EmailVeto
  <2>4. CASE p = "worker"
    <3>1. EmailInv'
      BY <1>4, ReadFilesTyped, UpsertTyped DEF FanInOf
    <3>2. proc'["worker"].pc \in {"upsert", "consolidated", "idle"}
      <4>1. ReadFiles(p) => proc'[p] = AfterRead(p) /\ AfterRead(p).pc = "upsert"
        BY ReadFilesTyped DEF AfterRead
      <4>2. ASSUME Upsert(p) \/ Consolidated(p) PROVE proc'[p].pc \in {"upsert", "consolidated"}
        <5>1. proc[p] \in FanStates({NightRun}, WorkerRows)
          BY <2>4, <4>2, WhileFanning DEF Upsert, Consolidated, FanStatesOf
        <5> DEFINE s1 == [proc[p] EXCEPT !.rows = Tail(@)]
                   s2 == [proc[p] EXCEPT !.pc = "consolidated"]
        <5>2. s1.pc \in {"upsert", "consolidated"} /\ s2.pc = "consolidated"
          BY <5>1 DEF FanStates
        <5>3. proc' = [proc EXCEPT ![p] = s1] \/ proc' = [proc EXCEPT ![p] = s2]
          BY <4>2 DEF Upsert, Consolidated, Onward
        <5> HIDE DEF s1, s2
        <5> QED BY <5>2, <5>3, Turn DEF EmailInv
      <4>3. EndRun(p) => proc'[p].pc = "idle"
        <5>1. EndRun(p) => proc' = [proc EXCEPT ![p] = Idle]
          BY DEF EndRun, Exit
        <5>2. Idle.pc = "idle"
          BY DEF Idle
        <5> QED BY <5>1, <5>2, Turn DEF EmailInv
      <4> QED BY <1>4, <2>4, <4>1, <4>2, <4>3 DEF FanInOf
    <3> QED BY <2>1, <3>2, VetoMoves
  <2> QED BY <2>3, <2>4 DEF Pipelines
<1>5. CASE World
  <2>1. CASE \E e \in Emails : Age(e)
    BY <2>1, VetoMoves DEF Age, stage, queueVars
  <2>2. CASE InterruptWorker
    <3>1. proc'["worker"].pc = "idle"
      <4>1. proc' = [proc EXCEPT !["worker"] = Idle] /\ Idle.pc = "idle"
        BY <2>2 DEF InterruptWorker, Exit, Idle
      <4> HIDE DEF Idle
      <4> QED BY <4>1, Turn DEF EmailInv, Pipelines
    <3>2. /\ UNCHANGED <<settings, scraped, files>>
          /\ \A j \in Jobs : status'[j] = "succeeded" => status[j] = "succeeded"
      BY <2>2 DEF InterruptWorker, RequeueRunning, stage
    <3> QED BY <3>1, <3>2, VetoMoves
  <2>3. CASE CrashEmail
    <3>1. UNCHANGED <<settings, scraped, status>> /\ \E s : proc' = [proc EXCEPT !["email"] = s]
      BY <2>3 DEF CrashEmail, Exit, queueVars
    <3>2. \A j \in Jobs : j.source # EMAIL_SOURCE => files'[j] = files[j]
      <4>1. CASE files' = files
        BY <4>1
      <4>2. CASE At("email", "hand over") /\ files' # files
        <5>1. Email.row = EmailRow(Email.run)
          BY <4>2, EmailRunIs
        <5>2. \E f : files' = [files EXCEPT ![Email.row] = f]
          BY <2>3, <4>2 DEF CrashEmail
        <5> QED BY <5>1, <5>2 DEF EmailRow, EmailInv, DataTyped
      <4> QED BY <2>3, <4>1, <4>2 DEF CrashEmail
    <3> QED BY <3>1, <3>2, EmailVeto
  <2> QED BY <1>5, <2>1, <2>2, <2>3, CrashWorkerVeto DEF World
<1> QED BY <1>1, <1>2, <1>3, <1>4, <1>5 DEF EmailNext

\* worker.py:240-243: whatever retries, crashes and caches a row went through, and
\* whatever the policies say, what is missing from a finished row's file was
\* excluded, or vetoed by a veto that is on, the furthest titles first and no more
\* of them than the depth's share.
THEOREM VetoRatifiedHolds == EmailSpec => []VetoRatified
<1>1. VetoInv => VetoRatified
  BY DEF VetoInv, RowsJustified, VetoRatified
<1>2. EmailInit => EmailInv /\ VetoInv
  BY InitEmailInv, InitVeto
<1>3. EmailInv /\ VetoInv /\ [EmailNext]_emailVars => EmailInv' /\ VetoInv'
  BY NextEmailInv, NextVeto
<1> QED BY <1>1, <1>2, <1>3, PTL DEF EmailSpec

-----------------------------------------------------------------------------
(* What a consolidation leaves behind, when one pipeline lives at a time.   *)

Alone == \E p \in Pipelines : At(p, "idle")

FanningIn(p) == At(p, "upsert") \/ At(p, "consolidated")

\* A key of the union has its table row, or the pipeline is still to write it.
RowWritten(r, k) == k \in DOMAIN table[r] /\ table[r][k] = RequestedBy(r, k)
RowToWrite(p, k) == \E i \in DOMAIN proc[p].rows : proc[p].rows[i][1] = k

UnionRead ==
  \A p \in Pipelines : FanningIn(p) =>
    LET r == proc[p].run  rows == proc[p].rows IN
    /\ union[r] = Canonical(Postings(r))
    /\ \A i \in DOMAIN union[r] : RowWritten(r, Key(union[r][i])) \/ RowToWrite(p, Key(union[r][i]))
    /\ \A i \in DOMAIN rows : rows[i][2] = RequestedBy(r, rows[i][1])
    /\ At(p, "consolidated") => rows = << >>

\* The e-mail pipeline's file holds its postings, and then its row has succeeded.
HandedOver ==
  /\ \A x \in {"enqueue", "succeed", "read", "upsert", "consolidated"} :
       At("email", x) => files[Email.row] = Email.jobs
  /\ \A x \in {"read", "upsert", "consolidated"} :
       At("email", x) => status[Email.row] = "succeeded"

RunsTyped == DOMAIN union = Runs /\ DOMAIN table = Runs

HandoverInv == Alone /\ UnionRead /\ HandedOver /\ RunsTyped

LEMMA InitHandover == EmailInit => HandoverInv
<1> SUFFICES ASSUME EmailInit PROVE HandoverInv
  OBVIOUS
<1>1. \A p \in Pipelines : proc[p].pc = "idle"
  BY DEF EmailInit, Idle
<1>2. Alone
  BY <1>1 DEF Alone, At, Pipelines
<1>3. UnionRead /\ HandedOver
  BY <1>1 DEF UnionRead, HandedOver, FanningIn, At, Pipelines
<1>4. RunsTyped
  <2>1. union = [r \in Runs |-> << >>] /\ table = [r \in Runs |-> << >>]
    BY DEF EmailInit
  <2> QED BY <2>1 DEF RunsTyped
<1> QED BY <1>2, <1>3, <1>4 DEF HandoverInv

\* A step after which neither pipeline fans in, nor has handed its postings over.
LEMMA FanFree ==
  ASSUME RunsTyped, UNCHANGED <<union, table>>, Alone',
         \A p \in Pipelines : ~(At(p, "upsert") \/ At(p, "consolidated"))',
         \A x \in {"enqueue", "succeed", "read"} : ~At("email", x)'
  PROVE  HandoverInv'
BY DEF HandoverInv, UnionRead, HandedOver, RunsTyped, FanningIn, Pipelines

\* The worker's steps before its consolidation.
LEMMA WorkerStep ==
  ASSUME EmailInv, Worker
  PROVE  /\ Email' = Email /\ UNCHANGED <<union, table>>
         /\ ~(At("worker", "upsert") \/ At("worker", "consolidated"))'
         /\ MayStart("worker") \/ ~At("worker", "idle")
<1> DEFINE w == proc["worker"]
<1>1. UNCHANGED <<union, table>>
  BY DEF Worker, StartWorker, QueueDrained, Claim, Scrape, ScrapeRaises, Filter, Embed, EmbedRaises, Persist,
     Finish, fanned
<1>2. CASE StartWorker
  BY <1>1, <1>2, Turn DEF StartWorker, EmailInv, Pipelines, At, Email
<1>3. CASE ~StartWorker
  <2>1. \E x \in {"claim", "scrape", "filter", "embed", "persist", "succeed", "fail"} : At("worker", x)
    BY <1>3 DEF Worker, QueueDrained, Claim, Scrape, ScrapeRaises, Filter, Embed, EmbedRaises, Persist, Finish
  <2>2. w \in WorkerStates /\ ~At("worker", "idle")
    BY <2>1, WorkerAt DEF EmailInv, At
  <2>3. \E s : /\ proc' = [proc EXCEPT !["worker"] = s]
               /\ s.pc \in {"claim", "scrape", "filter", "embed", "persist", "succeed", "fail", "read"}
    <3>1. CASE QueueDrained \/ ScrapeRaises \/ EmbedRaises \/ Persist \/ Finish
      <4>1. PICK x \in {"claim", "succeed", "fail", "read"} : Onward("worker", x)
        BY <3>1 DEF QueueDrained, ScrapeRaises, EmbedRaises, Persist, Finish
      <4> DEFINE s == [w EXCEPT !.pc = x]
      <4>2. proc' = [proc EXCEPT !["worker"] = s] /\ s.pc = x
        BY <2>2, <4>1 DEF Onward, WorkerStates
      <4> HIDE DEF s
      <4> QED BY <4>2
    <3>2. ASSUME NEW j \in Jobs, Claim(j)
          PROVE \E s : proc' = [proc EXCEPT !["worker"] = s] /\ s.pc = "scrape"
      <4> DEFINE s == [w EXCEPT !.pc = "scrape", !.row = j]
      <4>1. proc' = [proc EXCEPT !["worker"] = s] /\ s.pc = "scrape"
        BY <2>2, <3>2 DEF Claim, WorkerStates
      <4> HIDE DEF s
      <4> QED BY <4>1
    <3>3. CASE Scrape
      <4>1. PICK found : proc' = [proc EXCEPT !["worker"] = [@ EXCEPT !.pc = "filter", !.raw = found]]
        BY <3>3 DEF Scrape
      <4> DEFINE s == [w EXCEPT !.pc = "filter", !.raw = found]
      <4>2. proc' = [proc EXCEPT !["worker"] = s] /\ s.pc = "filter"
        BY <2>2, <4>1 DEF WorkerStates
      <4> HIDE DEF s
      <4> QED BY <4>2
    <3>4. CASE Filter
      <4> DEFINE jobs == TitleFilter(w.raw, Policies(w.row.user).excluded)
                 veto == w.row.source = "companies" /\ Enabled(settings.system, Policies(w.row.user))
                 x == IF veto /\ ~Readable(vectors) THEN "fail"
                      ELSE IF veto /\ Vetoes(settings.system, Policies(w.row.user), jobs) THEN "embed"
                      ELSE "persist"
                 s == [w EXCEPT !.jobs = jobs, !.pc = x]
      <4>1. proc' = [proc EXCEPT !["worker"] = s] /\ x \in {"fail", "embed", "persist"}
        BY <3>4 DEF Filter
      <4> HIDE DEF jobs, x
      <4>2. s.pc = x
        BY <2>2 DEF WorkerStates
      <4> HIDE DEF s
      <4> QED BY <4>1, <4>2
    <3>5. CASE Embed
      <4>1. PICK jobs : proc' = [proc EXCEPT !["worker"] = [@ EXCEPT !.pc = "persist", !.jobs = jobs]]
        BY <3>5 DEF Embed
      <4> DEFINE s == [w EXCEPT !.pc = "persist", !.jobs = jobs]
      <4>2. proc' = [proc EXCEPT !["worker"] = s] /\ s.pc = "persist"
        BY <2>2, <4>1 DEF WorkerStates
      <4> HIDE DEF s
      <4> QED BY <4>2
    <3> QED BY <1>3, <3>1, <3>2, <3>3, <3>4, <3>5 DEF Worker
  <2> QED BY <1>1, <2>2, <2>3, Turn DEF EmailInv, Pipelines, At, Email
<1> QED BY <1>2, <1>3

\* The e-mail pipeline's steps before its consolidation: only three go on to hand its postings over.
LEMMA EmailStep ==
  ASSUME EmailInv, EmailPipeline
  PROVE  /\ proc'["worker"] = proc["worker"] /\ UNCHANGED <<union, table>>
         /\ ~(At("email", "upsert") \/ At("email", "consolidated"))'
         /\ (\E x \in {"enqueue", "succeed", "read"} : At("email", x)') =>
              PersistEmail \/ EnqueueEmail \/ MarkEmail
         /\ MayStart("email") \/ ~At("email", "idle")
<1>1. UNCHANGED <<union, table>>
  BY DEF EmailPipeline, StartEmail, LoadEnriched, Pull, Select, NextEmail, Visit, Record, Close, Keep,
     WriteEnriched, NothingEnriched, PersistEmail, EnqueueEmail, MarkEmail, fanned
<1>2. CASE \E opt \in EmailOptions, r \in EmailRuns : StartEmail(opt, r)
  <2>1. \E s : proc' = [proc EXCEPT !["email"] = s] /\ s.pc \in {"load", "pull", "select"}
    <3>1. PICK opt \in EmailOptions, r \in EmailRuns : StartEmail(opt, r)
      BY <1>2
    <3> DEFINE x == IF opt.mode = "score" THEN "load" ELSE IF opt.pull THEN "pull" ELSE "select"
               s == [pc |-> x, opt |-> opt, run |-> r, row |-> EmailRow(r), seen |-> SeenStore!Load(seen),
                     todo |-> << >>, links |-> << >>, got |-> << >>, jobs |-> << >>]
    <3>2. proc' = [proc EXCEPT !["email"] = s] /\ s.pc = x
      BY <3>1 DEF StartEmail
    <3>3. x \in {"load", "pull", "select"}
      OBVIOUS
    <3> HIDE DEF s, x
    <3> QED BY <3>2, <3>3
  <2>2. MayStart("email")
    BY <1>2 DEF StartEmail
  <2> QED BY <1>1, <2>1, <2>2, Turn DEF EmailInv, Pipelines, At
<1>3. CASE ~\E opt \in EmailOptions, r \in EmailRuns : StartEmail(opt, r)
  <2>1. \E x \in {"load", "pull", "select", "loop", "visit", "write", "hand over", "enqueue", "succeed"} :
          At("email", x)
    BY <1>3 DEF EmailPipeline, LoadEnriched, Pull, Select, NextEmail, Visit, Record, Close, Parsed, Keep,
       WriteEnriched, NothingEnriched, PersistEmail, EnqueueEmail, MarkEmail
  <2>2. Email \in EmailStates /\ ~At("email", "idle")
    BY <2>1, EmailAt DEF EmailInv, At
  <2>3. \E s : /\ proc' = [proc EXCEPT !["email"] = s]
               /\ \/ s.pc \in {"load", "pull", "select", "loop", "visit", "write", "hand over", "idle"}
                  \/ s.pc \in {"enqueue", "succeed", "read"} /\ (PersistEmail \/ EnqueueEmail \/ MarkEmail)
    <3>1. CASE Pull \/ PersistEmail \/ MarkEmail \/ (EnqueueEmail /\ status[Email.row] = "absent")
      <4>1. PICK x \in {"select", "enqueue", "succeed", "read"} :
              Onward("email", x) /\ (x = "select" \/ PersistEmail \/ EnqueueEmail \/ MarkEmail)
        BY <3>1 DEF Pull, PersistEmail, MarkEmail, EnqueueEmail
      <4> DEFINE s == [Email EXCEPT !.pc = x]
      <4>2. proc' = [proc EXCEPT !["email"] = s] /\ s.pc = x
        BY <2>2, <4>1 DEF Onward, EmailStates, Email
      <4> HIDE DEF s
      <4> QED BY <4>1, <4>2
    <3>2. CASE WriteEnriched \/ NothingEnriched \/ (EnqueueEmail /\ status[Email.row] # "absent")
      <4>1. proc' = [proc EXCEPT !["email"] = Idle] /\ Idle.pc = "idle"
        BY <3>2 DEF WriteEnriched, NothingEnriched, EnqueueEmail, Exit, Idle
      <4> HIDE DEF Idle
      <4> QED BY <4>1
    <3>3. CASE LoadEnriched
      <4> DEFINE s == [Email EXCEPT !.jobs = enriched, !.pc = "hand over"]
      <4>1. proc' = [proc EXCEPT !["email"] = s] /\ s.pc = "hand over"
        BY <2>2, <3>3 DEF LoadEnriched, EmailGoes, EmailStates
      <4> HIDE DEF s
      <4> QED BY <4>1
    <3>4. CASE Select
      <4> DEFINE s == [Email EXCEPT !.todo = Selected(disk, Email.opt.maxFiles), !.pc = "loop"]
      <4>1. proc' = [proc EXCEPT !["email"] = s] /\ s.pc = "loop"
        BY <2>2, <3>4 DEF Select, EmailGoes, EmailStates
      <4> HIDE DEF s
      <4> QED BY <4>1
    <3>5. CASE NextEmail
      <4> DEFINE s1 == [Email EXCEPT !.pc = "visit", !.links = Links[Head(Email.todo)], !.got = << >>]
                 s2 == [Email EXCEPT !.todo = Tail(@)]
      <4>1. s1.pc = "visit" /\ s2.pc = Email.pc /\ Email.pc = "loop"
        BY <2>2, <3>5 DEF NextEmail, EmailStates, At, Email
      <4>2. proc' = [proc EXCEPT !["email"] = s1] \/ proc' = [proc EXCEPT !["email"] = s2]
        BY <3>5 DEF NextEmail, EmailGoes
      <4> HIDE DEF s1, s2
      <4> QED BY <4>1, <4>2
    <3>6. CASE Visit
      <4>1. PICK posting : EmailGoes([Email EXCEPT !.links = Tail(@), !.got = Append(@, posting)])
        BY <3>6 DEF Visit
      <4> DEFINE s == [Email EXCEPT !.links = Tail(@), !.got = Append(@, posting)]
      <4>2. proc' = [proc EXCEPT !["email"] = s] /\ s.pc = Email.pc /\ Email.pc = "visit"
        BY <2>2, <3>6, <4>1 DEF Visit, EmailGoes, EmailStates, At, Email
      <4> HIDE DEF s
      <4> QED BY <4>2
    <3>7. CASE Record
      <4>1. \E a, b, c : EmailGoes([Email EXCEPT !.seen = a, !.jobs = b, !.got = << >>, !.links = << >>,
                                                 !.pc = "loop", !.todo = c])
        BY <3>7 DEF Record, Close
      <4>2. PICK a, b, c : EmailGoes([Email EXCEPT !.seen = a, !.jobs = b, !.got = << >>, !.links = << >>,
                                                   !.pc = "loop", !.todo = c])
        BY <4>1
      <4> DEFINE s == [Email EXCEPT !.seen = a, !.jobs = b, !.got = << >>, !.links = << >>,
                                    !.pc = "loop", !.todo = c]
      <4>3. proc' = [proc EXCEPT !["email"] = s] /\ s.pc = "loop"
        BY <2>2, <4>2 DEF EmailGoes, EmailStates
      <4> HIDE DEF s
      <4> QED BY <4>3
    <3>8. CASE Keep
      <4> DEFINE x == IF Email.opt.mode = "enrich" THEN "write" ELSE "hand over"
                 s == [Email EXCEPT !.jobs = OnlyEnriched(@), !.pc = x]
      <4>1. proc' = [proc EXCEPT !["email"] = s] /\ s.pc = x /\ x \in {"write", "hand over"}
        BY <2>2, <3>8 DEF Keep, EmailGoes, EmailStates
      <4> HIDE DEF s, x
      <4> QED BY <4>1
    <3> QED BY <1>3, <3>1, <3>2, <3>3, <3>4, <3>5, <3>6, <3>7, <3>8 DEF EmailPipeline
  <2> QED BY <1>1, <2>2, <2>3, Turn DEF EmailInv, Pipelines, At
<1> QED BY <1>2, <1>3

\* The e-mail pipeline writes its file, enqueues its row and marks it.
LEMMA HandOverStep ==
  ASSUME EmailInv, HandoverInv, At("worker", "idle"), PersistEmail \/ EnqueueEmail \/ MarkEmail
  PROVE  HandedOver'
<1>1. Email \in EmailStates /\ Email.row \in Jobs
  <2>1. \E x \in {"hand over", "enqueue", "succeed"} : At("email", x)
    BY DEF PersistEmail, EnqueueEmail, MarkEmail
  <2> QED BY <2>1, EmailAt DEF EmailInv, EmailStates
<1>2. CASE PersistEmail
  <2> DEFINE s == [Email EXCEPT !.pc = "enqueue"]
  <2>1. s.pc = "enqueue" /\ s.row = Email.row /\ s.jobs = Email.jobs
    BY <1>1 DEF EmailStates
  <2>2. proc' = [proc EXCEPT !["email"] = s] /\ files' = [files EXCEPT ![Email.row] = Email.jobs]
    BY <1>2 DEF PersistEmail, Onward, Email
  <2> HIDE DEF s
  <2>3. Email' = s
    BY <2>2, Turn DEF EmailInv, Pipelines, Email
  <2>4. files'[Email.row] = Email.jobs
    BY <1>1, <2>2 DEF EmailInv, DataTyped
  <2> QED BY <2>1, <2>3, <2>4 DEF HandedOver, At, Email
<1>3. CASE EnqueueEmail
  <2>1. UNCHANGED files /\ files[Email.row] = Email.jobs
    BY <1>3 DEF EnqueueEmail, stage, HandoverInv, HandedOver
  <2>2. CASE proc' = [proc EXCEPT !["email"] = Idle]
    <3>1. Email' = Idle /\ Idle.pc = "idle"
      <4>1. Idle.pc = "idle"
        BY DEF Idle
      <4> HIDE DEF Idle
      <4> QED BY <2>2, <4>1, Turn DEF EmailInv, Pipelines, Email
    <3> QED BY <3>1 DEF HandedOver, At, Email
  <2>3. CASE Onward("email", "succeed")
    <3> DEFINE s == [Email EXCEPT !.pc = "succeed"]
    <3>1. s.pc = "succeed" /\ s.row = Email.row /\ s.jobs = Email.jobs
      BY <1>1 DEF EmailStates
    <3>2. proc' = [proc EXCEPT !["email"] = s]
      BY <2>3 DEF Onward, Email
    <3> HIDE DEF s
    <3>3. Email' = s
      BY <3>2, Turn DEF EmailInv, Pipelines, Email
    <3> QED BY <2>1, <3>1, <3>3 DEF HandedOver, At, Email
  <2> QED BY <1>3, <2>2, <2>3 DEF EnqueueEmail, Exit
<1>4. CASE MarkEmail
  <2> DEFINE s == [Email EXCEPT !.pc = "read"]
  <2>1. s.pc = "read" /\ s.row = Email.row /\ s.jobs = Email.jobs
    BY <1>1 DEF EmailStates
  <2>2. proc' = [proc EXCEPT !["email"] = s] /\ UNCHANGED files /\ files[Email.row] = Email.jobs
    BY <1>4 DEF MarkEmail, Onward, Email, stage, HandoverInv, HandedOver
  <2>3. status'[Email.row] = "succeeded"
    BY <1>1, <1>4 DEF MarkEmail, Mark, EmailInv, DataTyped
  <2> HIDE DEF s
  <2>4. Email' = s
    BY <2>2, Turn DEF EmailInv, Pipelines, Email
  <2> QED BY <2>1, <2>2, <2>3, <2>4 DEF HandedOver, At, Email
<1> QED BY <1>2, <1>3, <1>4

\* A consolidation changes neither the rows nor the files it reads.
LEMMA FanKeeps ==
  ASSUME NEW p \in Pipelines, FanInOf(p)
  PROVE  /\ UNCHANGED <<status, files>>
         /\ \A r : Postings(r)' = Postings(r) /\ \A k : RequestedBy(r, k)' = RequestedBy(r, k)
<1>1. UNCHANGED <<status, files>>
  BY DEF FanInOf, ReadFiles, Upsert, Consolidated, EndRun, stage, queueVars
<1>2. \A r : Succeeded(r)' = Succeeded(r)
  BY <1>1 DEF Succeeded, RowsIn
<1>3. \A r : RowOrder(r)' = RowOrder(r)
  BY <1>2 DEF RowOrder
<1>4. \A r : Postings(r)' = Postings(r)
  BY <1>1, <1>3 DEF Postings
<1>5. \A r, k : RequestedBy(r, k)' = RequestedBy(r, k)
  BY <1>1, <1>2 DEF RequestedBy
<1> QED BY <1>1, <1>4, <1>5

\* What a pipeline that fans in must come to, the other one being idle.
LEMMA FanTurn ==
  ASSUME EmailInv, HandoverInv, NEW p \in Pipelines, FanInOf(p), NEW s, proc' = [proc EXCEPT ![p] = s],
         s.pc \in {"upsert", "consolidated"}, s.run = proc[p].run, s.row = proc[p].row, s.jobs = proc[p].jobs,
         RunsTyped', union'[s.run] = Canonical(Postings(s.run)),
         \A i \in DOMAIN union'[s.run] :
           LET k == Key(union'[s.run][i]) IN
           \/ k \in DOMAIN table'[s.run] /\ table'[s.run][k] = RequestedBy(s.run, k)
           \/ \E m \in DOMAIN s.rows : s.rows[m][1] = k,
         \A i \in DOMAIN s.rows : s.rows[i][2] = RequestedBy(s.run, s.rows[i][1]),
         s.pc = "consolidated" => s.rows = << >>
  PROVE  HandoverInv'
<1>1. \E x \in {"read", "upsert", "consolidated"} : At(p, x)
  BY DEF FanInOf, ReadFiles, Upsert, Consolidated, EndRun
<1>2. PICK q \in Pipelines : q # p /\ At(q, "idle")
  BY <1>1 DEF HandoverInv, Alone, At
<1>3. proc'[p] = s /\ proc'[q] = proc[q] /\ \A o \in Pipelines : o = p \/ o = q
  BY <1>2, Turn DEF EmailInv, Pipelines
<1>4. Alone'
  BY <1>2, <1>3 DEF Alone, At
<1>5. UnionRead'
  <2>1. \A o \in Pipelines : FanningIn(o)' => o = p
    BY <1>2, <1>3 DEF FanningIn, At
  <2>2. (LET r == proc[p].run  rows == proc[p].rows IN
         /\ union[r] = Canonical(Postings(r))
         /\ \A i \in DOMAIN union[r] : RowWritten(r, Key(union[r][i])) \/ RowToWrite(p, Key(union[r][i]))
         /\ \A i \in DOMAIN rows : rows[i][2] = RequestedBy(r, rows[i][1])
         /\ At(p, "consolidated") => rows = << >>)'
    BY <1>3, FanKeeps DEF RowWritten, RowToWrite, At
  <2> QED BY <2>1, <2>2 DEF UnionRead
<1>6. HandedOver'
  <2>1. CASE p = "email"
    <3>1. files[s.row] = s.jobs /\ status[s.row] = "succeeded"
      BY <1>1, <2>1 DEF HandoverInv, HandedOver, Email
    <3> QED BY <1>3, <2>1, <3>1, FanKeeps DEF HandedOver, Email
  <2>2. CASE p # "email"
    <3>1. q = "email" /\ Email'.pc = "idle"
      BY <1>2, <1>3, <2>2 DEF Pipelines, At, Email
    <3> QED BY <3>1 DEF HandedOver, At, Email
  <2> QED BY <2>1, <2>2
<1> QED BY <1>4, <1>5, <1>6 DEF HandoverInv

\* The run a pipeline consolidates is a run, and its rows are as UnionRead has them.
LEMMA ReadFilesFan ==
  ASSUME NEW p \in Pipelines, EmailInv, HandoverInv, ReadFiles(p)
  PROVE  HandoverInv'
<1> DEFINE r == proc[p].run
           c == Canonical(Postings(r))
           s == AfterRead(p)
<1>1. r \in Runs
  BY ReadyToRead, NightOK DEF ReadFiles, Pipelines
<1>2. /\ s.pc = "upsert" /\ s.run = r /\ s.row = proc[p].row /\ s.jobs = proc[p].jobs /\ s.rows = RowsOf(r)
  BY DEF AfterRead
<1>3. RunsTyped' /\ union'[r] = c
  BY <1>1 DEF ReadFiles, HandoverInv, RunsTyped
<1>4. RowsOf(r) = [i \in DOMAIN c |-> <<Key(c[i]), RequestedBy(r, Key(c[i]))>>]
  BY DEF RowsOf
<1>5. proc' = [proc EXCEPT ![p] = s] /\ FanInOf(p)
  BY DEF ReadFiles, AfterRead, RowsOf, FanInOf
<1> HIDE DEF s, c, r
<1>6. \A i \in DOMAIN c : \E m \in DOMAIN s.rows : s.rows[m][1] = Key(c[i])
  BY <1>2, <1>4
<1>7. \A i \in DOMAIN s.rows : s.rows[i][2] = RequestedBy(r, s.rows[i][1])
  BY <1>2, <1>4
<1>8. s.run = proc[p].run /\ s.pc \in {"upsert", "consolidated"} /\ (s.pc = "consolidated" => s.rows = << >>)
  BY <1>2 DEF r
<1>9. union'[s.run] = Canonical(Postings(s.run))
  BY <1>2, <1>3 DEF c
<1> QED BY <1>2, <1>3, <1>5, <1>6, <1>7, <1>8, <1>9, FanTurn

LEMMA UpsertFan ==
  ASSUME NEW p \in Pipelines, EmailInv, HandoverInv, Upsert(p)
  PROVE  HandoverInv'
<1> DEFINE r == proc[p].run
           rows == proc[p].rows
           row == Head(rows)
           s == [proc[p] EXCEPT !.rows = Tail(@)]
<1>1. proc[p] \in FanStatesOf(p) /\ rows # << >> /\ FanInOf(p) /\ FanningIn(p) /\ At(p, "upsert")
  BY WhileFanning DEF Upsert, FanInOf, FanningIn
<1>2. r \in Runs /\ rows \in Seq(FanRows)
  BY <1>1, NightOK DEF FanStatesOf, FanStates
<1>3. /\ s.pc = "upsert" /\ s.run = r /\ s.row = proc[p].row /\ s.jobs = proc[p].jobs /\ s.rows = Tail(rows)
  BY <1>1 DEF FanStatesOf, FanStates, At
<1>4. /\ union' = union /\ proc' = [proc EXCEPT ![p] = s]
      /\ table' = [table EXCEPT ![r] = WithRow(@, row[1], row[2])]
  BY DEF Upsert
<1>5. /\ \A k : k \in DOMAIN table'[r] <=> k = row[1] \/ k \in DOMAIN table[r]
      /\ table'[r][row[1]] = row[2]
      /\ \A k \in DOMAIN table[r] : k # row[1] => table'[r][k] = table[r][k]
  <2>1. table'[r] = WithRow(table[r], row[1], row[2])
    BY <1>2, <1>4 DEF HandoverInv, RunsTyped
  <2> HIDE DEF r, row
  <2> QED BY <2>1 DEF WithRow
<1>6. RunsTyped'
  BY <1>4 DEF HandoverInv, RunsTyped
<1>7. row = rows[1] /\ DOMAIN Tail(rows) = 1..(Len(rows) - 1) /\ DOMAIN rows = 1..Len(rows) /\ Len(rows) \in Nat
      /\ \A i \in DOMAIN Tail(rows) : Tail(rows)[i] = rows[i + 1] /\ i + 1 \in DOMAIN rows
  <2> HIDE DEF rows
  <2> QED BY <1>1, <1>2
<1>8. /\ union[r] = Canonical(Postings(r))
      /\ \A i \in DOMAIN union[r] : RowWritten(r, Key(union[r][i])) \/ RowToWrite(p, Key(union[r][i]))
      /\ \A i \in DOMAIN rows : rows[i][2] = RequestedBy(r, rows[i][1])
  BY <1>1 DEF HandoverInv, UnionRead
<1>9. row[2] = RequestedBy(r, row[1])
  <2>1. 1 \in DOMAIN rows
    BY <1>1, <1>2, <1>7
  <2> QED BY <1>7, <1>8, <2>1
<1>10. ASSUME NEW k, RowWritten(r, k) \/ RowToWrite(p, k)
       PROVE  \/ k \in DOMAIN table'[r] /\ table'[r][k] = RequestedBy(r, k)
              \/ \E m \in DOMAIN Tail(rows) : Tail(rows)[m][1] = k
  <2>1. CASE k = row[1]
    BY <1>5, <1>9, <2>1
  <2>2. CASE k # row[1] /\ RowWritten(r, k)
    <3>1. k \in DOMAIN table[r] /\ table[r][k] = RequestedBy(r, k)
      BY <2>2 DEF RowWritten
    <3> HIDE DEF r, row
    <3> QED BY <1>5, <2>2, <3>1
  <2>3. CASE k # row[1] /\ RowToWrite(p, k)
    <3>1. PICK i \in DOMAIN rows : rows[i][1] = k
      BY <2>3 DEF RowToWrite
    <3> HIDE DEF rows, row
    <3>2. i # 1
      BY <1>7, <2>3, <3>1
    <3>3. i - 1 \in DOMAIN Tail(rows) /\ (i - 1) + 1 = i
      BY <1>7, <3>2
    <3>4. Tail(rows)[i - 1] = rows[i]
      BY <1>7, <3>3
    <3> QED BY <3>1, <3>3, <3>4
  <2> QED BY <1>10, <2>1, <2>2, <2>3
<1>11. \A i \in DOMAIN Tail(rows) : Tail(rows)[i][2] = RequestedBy(r, Tail(rows)[i][1])
  <2> HIDE DEF rows, r
  <2> QED BY <1>7, <1>8
<1>12. s.pc \in {"upsert", "consolidated"} /\ s.run = proc[p].run
  BY <1>3
<1> HIDE DEF s, rows, row, r
<1>13. union'[s.run] = Canonical(Postings(s.run))
  BY <1>3, <1>4, <1>8
<1>14. \A i \in DOMAIN union'[s.run] :
         LET k == Key(union'[s.run][i]) IN
         \/ k \in DOMAIN table'[s.run] /\ table'[s.run][k] = RequestedBy(s.run, k)
         \/ \E m \in DOMAIN s.rows : s.rows[m][1] = k
  BY <1>3, <1>4, <1>8, <1>10
<1>15. \A i \in DOMAIN s.rows : s.rows[i][2] = RequestedBy(s.run, s.rows[i][1])
  BY <1>3, <1>11
<1> QED BY <1>1, <1>3, <1>4, <1>6, <1>12, <1>13, <1>14, <1>15, FanTurn

LEMMA ConsolidatedFan ==
  ASSUME NEW p \in Pipelines, EmailInv, HandoverInv, Consolidated(p)
  PROVE  HandoverInv'
<1> DEFINE s == [proc[p] EXCEPT !.pc = "consolidated"]
<1>1. proc[p] \in FanStatesOf(p) /\ FanInOf(p) /\ FanningIn(p) /\ proc[p].rows = << >>
  BY WhileFanning DEF Consolidated, FanInOf, FanningIn
<1>2. /\ s.pc = "consolidated" /\ s.run = proc[p].run /\ s.row = proc[p].row /\ s.jobs = proc[p].jobs
      /\ s.rows = << >>
  BY <1>1 DEF FanStatesOf, FanStates
<1>3. proc' = [proc EXCEPT ![p] = s] /\ UNCHANGED <<union, table>>
  BY DEF Consolidated, Onward, fanned
<1> HIDE DEF s
<1>4. RunsTyped'
  BY <1>3 DEF HandoverInv, RunsTyped
<1>5. /\ union[s.run] = Canonical(Postings(s.run))
      /\ \A i \in DOMAIN union[s.run] : RowWritten(s.run, Key(union[s.run][i])) \/ RowToWrite(p, Key(union[s.run][i]))
  BY <1>1, <1>2 DEF HandoverInv, UnionRead
<1>6. \A i \in DOMAIN union'[s.run] :
        LET k == Key(union'[s.run][i]) IN
        \/ k \in DOMAIN table'[s.run] /\ table'[s.run][k] = RequestedBy(s.run, k)
        \/ \E m \in DOMAIN s.rows : s.rows[m][1] = k
  BY <1>1, <1>2, <1>3, <1>5 DEF RowWritten, RowToWrite
<1>7. \A i \in DOMAIN s.rows : s.rows[i][2] = RequestedBy(s.run, s.rows[i][1])
  BY <1>2
<1>8. s.pc \in {"upsert", "consolidated"} /\ union'[s.run] = Canonical(Postings(s.run))
  BY <1>2, <1>3, <1>5
<1> QED BY <1>1, <1>2, <1>3, <1>4, <1>6, <1>7, <1>8, FanTurn

\* A pipeline whose process is over is idle.
LEMMA Over ==
  ASSUME ProcTyped, NEW p \in Pipelines, Exit(p)
  PROVE  At(p, "idle")' /\ \A q \in Pipelines : q # p => proc'[q] = proc[q]
<1>1. Idle.pc = "idle" /\ proc' = [proc EXCEPT ![p] = Idle]
  BY DEF Idle, Exit
<1> HIDE DEF Idle
<1> QED BY <1>1, Turn DEF At

\* With both pipelines idle there is nothing to say.
LEMMA FanIdle ==
  ASSUME ProcTyped, Alone, RunsTyped, NEW p \in Pipelines, ~At(p, "idle"), Exit(p), UNCHANGED <<union, table>>
  PROVE  HandoverInv'
<1>1. PICK q \in Pipelines : At(q, "idle")
  BY DEF Alone
<1>2. q # p /\ At(p, "idle")' /\ At(q, "idle")'
  BY <1>1, Over DEF At
<1>3. \A o \in Pipelines : At(o, "idle")'
  BY <1>2 DEF Pipelines
<1> QED BY <1>3, FanFree DEF Alone, At, Pipelines

LEMMA HandoverKept ==
  ASSUME HandoverInv, UNCHANGED <<status, files, union, table, proc>>
  PROVE  HandoverInv'
<1>1. \A r : Succeeded(r)' = Succeeded(r)
  BY DEF Succeeded, RowsIn
<1>2. \A r : RowOrder(r)' = RowOrder(r)
  BY <1>1 DEF RowOrder
<1>3. \A r : Postings(r)' = Postings(r)
  BY <1>2 DEF Postings
<1>4. \A r, k : RequestedBy(r, k)' = RequestedBy(r, k)
  BY <1>1 DEF RequestedBy
<1>5. \A p, x : At(p, x)' = At(p, x)
  BY DEF At
<1>6. \A p : FanningIn(p)' = FanningIn(p)
  BY DEF FanningIn, At
<1>7. UnionRead'
  BY <1>3, <1>4, <1>5, <1>6 DEF HandoverInv, UnionRead, RowWritten, RowToWrite
<1>8. HandedOver'
  BY DEF HandoverInv, HandedOver, At, Email
<1> QED BY <1>5, <1>7, <1>8 DEF HandoverInv, Alone, RunsTyped

LEMMA NextHandover ==
  ASSUME ~Together
  PROVE  EmailInv /\ HandoverInv /\ [EmailNext]_emailVars => HandoverInv'
<1> SUFFICES ASSUME EmailInv, HandoverInv, [EmailNext]_emailVars PROVE HandoverInv'
  OBVIOUS
<1>1. ProcTyped /\ Alone /\ RunsTyped
  BY DEF EmailInv, HandoverInv
<1>2. \A p \in Pipelines : MayStart(p) => \A q \in Pipelines : At(q, "idle")
  BY DEF MayStart
<1>3. \A p, q \in Pipelines : p # q /\ ~At(p, "idle") => At(q, "idle")
  BY <1>1 DEF Alone, Pipelines
<1>4. CASE UNCHANGED emailVars
  BY <1>4, HandoverKept DEF emailVars, queueVars, stage, fanned
<1>5. CASE Worker
  <2>1. At("email", "idle")'
    BY <1>2, <1>3, <1>5, WorkerStep DEF Pipelines, At, Email
  <2>2. ~(At("worker", "upsert") \/ At("worker", "consolidated"))' /\ UNCHANGED <<union, table>>
    BY <1>5, WorkerStep
  <2> QED BY <1>1, <2>1, <2>2, FanFree DEF Alone, At, Pipelines
<1>6. CASE EmailPipeline
  <2>1. At("worker", "idle") /\ At("worker", "idle")'
    BY <1>2, <1>3, <1>6, EmailStep DEF Pipelines, At
  <2>2. UNCHANGED <<union, table>> /\ ~(At("email", "upsert") \/ At("email", "consolidated"))'
    BY <1>6, EmailStep
  <2>3. Alone' /\ RunsTyped' /\ UnionRead'
    BY <1>1, <2>1, <2>2 DEF Alone, RunsTyped, UnionRead, FanningIn, At, Pipelines
  <2>4. HandedOver'
    <3>1. CASE PersistEmail \/ EnqueueEmail \/ MarkEmail
      BY <2>1, <3>1, HandOverStep
    <3>2. CASE ~(PersistEmail \/ EnqueueEmail \/ MarkEmail)
      BY <1>6, <2>2, <3>2, EmailStep DEF HandedOver
    <3> QED BY <3>1, <3>2
  <2> QED BY <2>3, <2>4 DEF HandoverInv
<1>7. ASSUME NEW p \in Pipelines, FanInOf(p) PROVE HandoverInv'
  <2>1. CASE EndRun(p)
    BY <1>1, <2>1, FanIdle DEF EndRun, fanned, At
  <2> QED BY <1>7, <2>1, ReadFilesFan, UpsertFan, ConsolidatedFan DEF FanInOf
<1>8. CASE World
  <2>1. CASE \E e \in Emails : Age(e)
    BY <2>1, HandoverKept DEF Age, queueVars, stage, fanned
  <2>2. CASE InterruptWorker \/ CrashWorker
    BY <1>1, <2>2, FanIdle DEF InterruptWorker, CrashWorker, fanned, Pipelines
  <2>3. CASE CrashEmail
    BY <1>1, <2>3, FanIdle DEF CrashEmail, fanned, Pipelines
  <2> QED BY <1>8, <2>1, <2>2, <2>3 DEF World
<1> QED BY <1>4, <1>5, <1>6, <1>7, <1>8 DEF EmailNext

\* What the union and the table owe the files, once they are all written.
LEMMA ConsolidatedIs == EmailInv /\ HandoverInv => FannedIn
<1> SUFFICES ASSUME EmailInv, HandoverInv, NEW p \in Pipelines, At(p, "consolidated")
             PROVE  LET r == proc[p].run
                        copies == UNION {ToSet(files[j]) : j \in Succeeded(r)}
                        same(u) == {c \in copies : c.key = u.key}
                    IN
                    /\ \A c \in copies : \E u \in ToSet(union[r]) : u.key = c.key
                    /\ \A i, k \in DOMAIN union[r] : union[r][i].key = union[r][k].key => i = k
                    /\ \A u \in ToSet(union[r]) :
                         /\ same(u) # {}
                         /\ \A c \in same(u) : c.desc <= u.desc
                         /\ u.ctxs = UNION {c.ctxs : c \in same(u)}
                         /\ table[r][u.key] = {j.user : j \in {j \in Succeeded(r) : same(u) \cap ToSet(files[j]) # {}}}
                    /\ p = "email" => \A i \in DOMAIN proc[p].jobs : EmailUser \in table[r][proc[p].jobs[i].key]
  BY DEF FannedIn
<1> DEFINE r == proc[p].run
           ps == Postings(r)
           c == union[r]
           copies == UNION {ToSet(files[j]) : j \in Succeeded(r)}
           same(u) == {x \in copies : x.key = u.key}
<1>1. UnionOf(c, ps) /\ ToSet(ps) = copies
  BY RunUnion DEF HandoverInv, UnionRead, FanningIn
<1>2. \A i \in DOMAIN c : table[r][c[i].key] = RequestedBy(r, c[i].key)
  BY DEF HandoverInv, UnionRead, FanningIn, RowWritten, RowToWrite, Key
<1>3. \A x : x \in copies <=> \E m \in DOMAIN ps : ps[m] = x
  BY <1>1 DEF ToSet
<1>4. \A x : x \in copies <=> \E j \in Succeeded(r) : x \in ToSet(files[j])
  OBVIOUS
<1>5. \A x : x \in ToSet(c) <=> \E i \in DOMAIN c : c[i] = x
  BY DEF ToSet
<1>6. \A x, k : k \in Keys(x) <=> \E y \in ToSet(x) : y.key = k
  BY DEF Keys, Key, ToSet
<1>7. p = "email" => \A i \in DOMAIN proc[p].jobs : \E j \in Succeeded(r) :
        j.user = EmailUser /\ proc[p].jobs[i] \in ToSet(files[j])
  <2> SUFFICES ASSUME p = "email", NEW i \in DOMAIN proc[p].jobs
               PROVE  \E j \in Succeeded(r) : j.user = EmailUser /\ proc[p].jobs[i] \in ToSet(files[j])
    OBVIOUS
  <2>1. proc[p] \in FanStates(EmailRuns, Jobs) /\ proc[p].row = EmailRow(r)
    BY WhileFanning DEF FanStatesOf
  <2>2. files[proc[p].row] = proc[p].jobs /\ status[proc[p].row] = "succeeded"
    BY DEF HandoverInv, HandedOver, Email
  <2>3. proc[p].row \in Jobs /\ proc[p].row.run = r /\ proc[p].row.user = EmailUser
    BY <2>1 DEF FanStates, EmailRow
  <2>4. proc[p].row \in Succeeded(r)
    BY <2>2, <2>3 DEF Succeeded, RowsIn
  <2>5. proc[p].jobs[i] \in ToSet(files[proc[p].row])
    BY <2>2 DEF ToSet
  <2> QED BY <2>3, <2>4, <2>5
<1> HIDE DEF r, ps, c, copies
<1>8. \A x \in copies : \E i \in DOMAIN c : c[i].key = x.key
  BY <1>1, <1>3 DEF UnionOf
<1>9. ASSUME NEW i \in DOMAIN c
      PROVE  /\ same(c[i]) # {}
             /\ \A x \in same(c[i]) : x.desc <= c[i].desc
             /\ c[i].ctxs = UNION {x.ctxs : x \in same(c[i])}
             /\ table[r][c[i].key] = {j.user : j \in {j \in Succeeded(r) : same(c[i]) \cap ToSet(files[j]) # {}}}
  <2>1. PICK m \in DOMAIN ps : c[i].key = ps[m].key
    BY <1>1 DEF UnionOf
  <2>2. same(c[i]) # {}
    BY <1>3, <2>1
  <2>3. \A x \in same(c[i]) : x.desc <= c[i].desc
    BY <1>1, <1>3 DEF UnionOf
  <2>4. c[i].ctxs = UNION {x.ctxs : x \in same(c[i])}
    <3>1. c[i].ctxs = UNION {ps[n].ctxs : n \in {n \in DOMAIN ps : ps[n].key = c[i].key}}
      BY <1>1 DEF UnionOf
    <3>2. {ps[n].ctxs : n \in {n \in DOMAIN ps : ps[n].key = c[i].key}} = {x.ctxs : x \in same(c[i])}
      BY <1>3
    <3> QED BY <3>1, <3>2
  <2>5. \A j \in Succeeded(r) : c[i].key \in Keys(files[j]) <=> same(c[i]) \cap ToSet(files[j]) # {}
    BY <1>4, <1>6
  <2>6. RequestedBy(r, c[i].key) = {j.user : j \in {j \in Succeeded(r) : same(c[i]) \cap ToSet(files[j]) # {}}}
    BY <2>5 DEF RequestedBy
  <2> QED BY <1>2, <2>2, <2>3, <2>4, <2>6
<1>10. ASSUME p = "email", NEW i \in DOMAIN proc[p].jobs
       PROVE  EmailUser \in table[r][proc[p].jobs[i].key]
  <2>1. PICK j \in Succeeded(r) : j.user = EmailUser /\ proc[p].jobs[i] \in ToSet(files[j])
    BY <1>7, <1>10
  <2>2. proc[p].jobs[i] \in copies
    BY <1>4, <2>1
  <2>3. PICK n \in DOMAIN c : c[n].key = proc[p].jobs[i].key
    BY <1>8, <2>2
  <2>4. proc[p].jobs[i].key \in Keys(files[j])
    BY <1>6, <2>1
  <2>5. EmailUser \in RequestedBy(r, proc[p].jobs[i].key)
    BY <2>1, <2>4 DEF RequestedBy
  <2> QED BY <1>2, <2>3, <2>5
<1>11. \A i, k \in DOMAIN c : c[i].key = c[k].key => i = k
  BY <1>1 DEF UnionOf
<1>12. \A x \in copies : \E u \in ToSet(c) : u.key = x.key
  BY <1>5, <1>8
<1>13. \A u \in ToSet(c) :
         /\ same(u) # {}
         /\ \A x \in same(u) : x.desc <= u.desc
         /\ u.ctxs = UNION {x.ctxs : x \in same(u)}
         /\ table[r][u.key] = {j.user : j \in {j \in Succeeded(r) : same(u) \cap ToSet(files[j]) # {}}}
  BY <1>5, <1>9
<1> QED BY <1>10, <1>11, <1>12, <1>13 DEF r, c, copies

\* consolidation.py:108-113: with one pipeline at a time, whatever files and
\* rows there are, a pipeline past its consolidation has left one posting for
\* every key of the succeeded rows' files, with the longest description and all
\* the search contexts, and a table row with exactly the users who found it.
THEOREM FannedInHolds ==
  ASSUME ~Together
  PROVE  EmailSpec => []FannedIn
<1>1. EmailInit => EmailInv /\ HandoverInv
  BY InitEmailInv, InitHandover
<1>2. EmailInv /\ HandoverInv /\ [EmailNext]_emailVars => (EmailInv /\ HandoverInv)'
  BY NextEmailInv, NextHandover
<1>3. EmailInv /\ HandoverInv => FannedIn
  BY ConsolidatedIs
<1> QED BY <1>1, <1>2, <1>3, PTL DEF EmailSpec
=============================================================================
