----------------------------- MODULE Overnight -----------------------------
(***************************************************************************)
(* Invocations of `job-scraper-9000 overnight` against one scrape queue:   *)
(* plan_run, run_worker's claim-and-process loop, consolidate_run's fan-in *)
(* and the operator-interrupt path of _cmd_overnight, from                 *)
(* src/src/pipeline/{planner,worker,queue,consolidation,overnight}.py.     *)
(*                                                                         *)
(* An invocation is a process p with the run id RunOf[p] its CLI mints     *)
(* (make_run_id has minute resolution, so two invocations may share one).  *)
(* claim_next is not scoped to a run: a process works on any run's rows.   *)
(***************************************************************************)
EXTENDS ScrapeQueue

CONSTANTS Procs,      \* invocations
          RunOf,      \* [Procs -> Runs], the run id each one minted
          PlanRows,   \* the (user, source) pairs the planner enqueues, in order
          Overlap,    \* TRUE: an invocation may start while another is alive
          Faults,     \* which faults may happen, a subset of FaultKinds
          NoJob

FaultKinds == {"crash", "interrupt", "requeue"}

ASSUME ConstantsOK ==
    /\ RunOf \in [Procs -> Runs]
    /\ PlanRows \in Seq([user: Users, source: Sources])
    /\ Overlap \in BOOLEAN
    /\ Faults \subseteq FaultKinds
    /\ NoJob \notin Jobs

VARIABLES pc,        \* where each invocation is
          planned,   \* how many of PlanRows it has enqueued
          cur,       \* the row its claim picked, or NoJob
          batch,     \* rows its consolidate_run has read and not upserted yet
          file,      \* <run>/<slug>/scrape/<source>.jsonl, per row
          merged     \* rows whose postings are in consolidated_postings, per run

fanIn == <<batch, merged>>
vars == <<queueVars, pc, planned, cur, batch, file, merged>>

\* Holding: process_job runs for cur, or its outcome is being recorded.
Holding == {"scrape", "write", "mark", "fail"}
Live == {"plan", "work", "claim", "consolidate", "upsert", "score", "stopping"}
          \cup Holding
Phases == Live \cup {"off", "done", "dead"}

LiveProcs == {p \in Procs : pc[p] \in Live}

TypeOK ==
    /\ QueueTypeOK
    /\ pc \in [Procs -> Phases]
    /\ planned \in [Procs -> 0..Len(PlanRows)]
    /\ cur \in [Procs -> Jobs \cup {NoJob}]
    /\ batch \in [Procs -> SUBSET Jobs]
    /\ file \in [Jobs -> {"none", "partial", "whole"}]
    /\ merged \in [Runs -> SUBSET Jobs]

Init ==
    /\ QueueInit
    /\ pc = [p \in Procs |-> "off"]
    /\ planned = [p \in Procs |-> 0]
    /\ cur = [p \in Procs |-> NoJob]
    /\ batch = [p \in Procs |-> {}]
    /\ file = [j \in Jobs |-> "none"]
    /\ merged = [r \in Runs |-> {}]

Goto(p, phase) == pc' = [pc EXCEPT ![p] = phase]

-----------------------------------------------------------------------------
\* Planning and claiming

\* The workstation starts an invocation (at, cron or the admin's shell).
Start(p) ==
    /\ pc[p] = "off"
    /\ Overlap \/ LiveProcs = {}
    /\ Goto(p, "plan")
    /\ UNCHANGED <<queueVars, planned, cur, file, fanIn>>

PlanJob(p) ==
    LET row == PlanRows[planned[p] + 1]
    IN [run |-> RunOf[p], user |-> row.user, source |-> row.source]

\* An enqueue loop whose counter runs one past the last row.
PlanOvercounts(p) ==
    /\ pc[p] = "plan"
    /\ planned' = [planned EXCEPT ![p] = @ + 1]
    /\ IF planned[p] < Len(PlanRows)
       THEN Enqueue(PlanJob(p)) /\ UNCHANGED pc
       ELSE Goto(p, "work") /\ UNCHANGED queueVars
    /\ UNCHANGED <<cur, file, fanIn>>

\* plan_run's enqueue loop, one statement per row; the worker starts after
\* the last one.
Plan(p) ==
    /\ pc[p] = "plan"
    /\ IF planned[p] < Len(PlanRows)
       THEN /\ Enqueue(PlanJob(p))
            /\ planned' = [planned EXCEPT ![p] = @ + 1]
            /\ UNCHANGED pc
       ELSE /\ Goto(p, "work")
            /\ UNCHANGED <<queueVars, planned>>
    /\ UNCHANGED <<cur, file, fanIn>>

\* Rows locked by claim statements that have not committed yet.
Locked == {cur[p] : p \in {q \in Procs : pc[q] = "claim"}}

\* claim_next's subquery: snapshot, pick and lock.
ClaimBegin(p) ==
    /\ pc[p] = "work"
    /\ \E j \in Jobs :
        /\ NextClaim(j, Locked)
        /\ cur' = [cur EXCEPT ![p] = j]
    /\ Goto(p, "claim")
    /\ UNCHANGED <<queueVars, planned, file, fanIn>>

\* claim_next's UPDATE commits.
ClaimCommit(p) ==
    /\ pc[p] = "claim"
    /\ Lease(cur[p])
    /\ Goto(p, "scrape")
    /\ UNCHANGED <<planned, cur, file, fanIn>>

\* claim_next returns None, and run_worker with it.
ClaimNone(p) ==
    /\ pc[p] = "work"
    /\ NothingClaimable(Locked)
    /\ Goto(p, "consolidate")
    /\ UNCHANGED <<queueVars, planned, cur, file, fanIn>>

-----------------------------------------------------------------------------
\* process_job and its outcome

\* Mark first, persist afterwards: the order process_job does not use.
EarlyPersistBegin(p) ==
    /\ pc[p] = "scrape"
    /\ Goto(p, "mark")
    /\ UNCHANGED <<queueVars, planned, cur, file, fanIn>>

\* scrape_fn, title filter and veto are over; _persist opens the row's file
\* with "w", which empties what an earlier attempt wrote.
PersistBegin(p) ==
    /\ pc[p] = "scrape"
    /\ file' = [file EXCEPT ![cur[p]] = "partial"]
    /\ Goto(p, "write")
    /\ UNCHANGED <<queueVars, planned, cur, fanIn>>

PersistEnd(p) ==
    /\ pc[p] = "write"
    /\ file' = [file EXCEPT ![cur[p]] = "whole"]
    /\ Goto(p, "mark")
    /\ UNCHANGED <<queueVars, planned, cur, fanIn>>

MarkSucceeded(p) ==
    /\ pc[p] = "mark"
    /\ Mark(cur[p], "succeeded")
    /\ cur' = [cur EXCEPT ![p] = NoJob]
    /\ Goto(p, "work")
    /\ UNCHANGED <<planned, file, fanIn>>

\* A handler that logs the exception and claims on, without mark_failed.
JobRaisesUnmarked(p) ==
    /\ pc[p] \in {"scrape", "write", "mark"}
    /\ cur' = [cur EXCEPT ![p] = NoJob]
    /\ Goto(p, "work")
    /\ UNCHANGED <<queueVars, planned, file, fanIn>>

\* An Exception out of process_job or mark_succeeded.
JobRaises(p) ==
    /\ pc[p] \in {"scrape", "write", "mark"}
    /\ Goto(p, "fail")
    /\ UNCHANGED <<queueVars, planned, cur, file, fanIn>>

MarkFailed(p) ==
    /\ pc[p] = "fail"
    /\ Mark(cur[p], "failed")
    /\ cur' = [cur EXCEPT ![p] = NoJob]
    /\ Goto(p, "work")
    /\ UNCHANGED <<planned, file, fanIn>>

\* A fan-in that reads every row of the run the worker has finished.
FinishedRowsOf(r) == {j \in Jobs : j.run = r /\ status[j] \in Finished}

\* The rows consolidate_run reads.
SucceededRowsOf(r) == {j \in Jobs : j.run = r /\ status[j] = "succeeded"}

\* A SELECT that also waits until every row of the run has succeeded.
SelectWhenAllSucceeded(p) ==
    /\ pc[p] = "consolidate"
    /\ \A j \in Jobs : j.run = RunOf[p] => status[j] \in {"absent", "succeeded"}
    /\ batch' = [batch EXCEPT ![p] = SucceededRowsOf(RunOf[p])]
    /\ Goto(p, "upsert")
    /\ UNCHANGED <<queueVars, planned, cur, file, merged>>

\* consolidate_run up to its union file: SELECT the succeeded rows and read
\* their files.  A missing file raises, and no requeue follows.
ConsolidateSelect(p) ==
    /\ pc[p] = "consolidate"
    /\ LET rows == SucceededRowsOf(RunOf[p])
       IN IF \E j \in rows : file[j] = "none"
          THEN Goto(p, "dead") /\ UNCHANGED batch
          ELSE Goto(p, "upsert") /\ batch' = [batch EXCEPT ![p] = rows]
    /\ UNCHANGED <<queueVars, planned, cur, file, merged>>

\* The upserts into consolidated_postings, autocommitted one by one; those of
\* one row's postings are one step, and the rows' postings come in any order.
ConsolidateUpsert(p) ==
    /\ pc[p] = "upsert"
    /\ IF batch[p] # {}
       THEN \E j \in batch[p] :
                /\ merged' = [merged EXCEPT ![RunOf[p]] = @ \cup {j}]
                /\ batch' = [batch EXCEPT ![p] = @ \ {j}]
                /\ UNCHANGED pc
       ELSE Goto(p, "score") /\ UNCHANGED <<merged, batch>>
    /\ UNCHANGED <<queueVars, planned, cur, file>>

\* classify_consolidated and score_run, or the return before them on a quiet
\* night: they leave the queue alone, but may still be interrupted.
Score(p) ==
    /\ pc[p] = "score"
    /\ Goto(p, "done")
    /\ UNCHANGED <<queueVars, planned, cur, file, fanIn>>

-----------------------------------------------------------------------------
\* Faults

\* The claim statement in flight when its process stops: it may have
\* committed on the server or been rolled back.
ClaimOutcome(p) ==
    \/ UNCHANGED queueVars
    \/ pc[p] = "claim" /\ Lease(cur[p])

\* SIGINT, SIGTERM or SIGTSTP: _OperatorInterrupt, a BaseException, passes
\* run_worker's `except Exception`.
Interrupt(p) ==
    /\ "interrupt" \in Faults
    /\ pc[p] \in Live \ {"stopping"}
    /\ ClaimOutcome(p)
    /\ cur' = [cur EXCEPT ![p] = NoJob]
    /\ Goto(p, "stopping")
    /\ batch' = [batch EXCEPT ![p] = {}]
    /\ UNCHANGED <<planned, file, merged>>

\* _requeue_interrupted_run, then sys.exit.
Requeue(p) ==
    /\ pc[p] = "stopping"
    /\ RequeueRunning(RunOf[p])
    /\ Goto(p, "dead")
    /\ UNCHANGED <<planned, cur, file, fanIn>>

\* ... which logs and returns when the database cannot be reached.
RequeueFails(p) ==
    /\ "requeue" \in Faults
    /\ pc[p] = "stopping"
    /\ Goto(p, "dead")
    /\ UNCHANGED <<queueVars, planned, cur, file, fanIn>>

\* SIGKILL, power loss, or an exception no handler expects (a mark_failed
\* that raises): nothing is requeued.
Crash(p) ==
    /\ "crash" \in Faults
    /\ pc[p] \in Live
    /\ ClaimOutcome(p)
    /\ cur' = [cur EXCEPT ![p] = NoJob]
    /\ Goto(p, "dead")
    /\ batch' = [batch EXCEPT ![p] = {}]
    /\ UNCHANGED <<planned, file, merged>>

-----------------------------------------------------------------------------
\* What an invocation does by itself once started.
Work(p) ==
    \/ Plan(p)
    \/ ClaimBegin(p) \/ ClaimCommit(p) \/ ClaimNone(p)
    \/ PersistBegin(p) \/ PersistEnd(p) \/ MarkSucceeded(p)
    \/ JobRaises(p) \/ MarkFailed(p)
    \/ ConsolidateSelect(p) \/ ConsolidateUpsert(p) \/ Score(p)
    \/ Requeue(p) \/ RequeueFails(p)

Next == \E p \in Procs : Start(p) \/ Work(p) \/ Interrupt(p) \/ Crash(p)

Spec == Init /\ [][Next]_vars

\* A started invocation keeps running: the loop is plain sequential code, and
\* scrape_fn's HTTP calls return or raise.  Nothing obliges anyone to start one.
FairSpec == Spec /\ \A p \in Procs : WF_vars(Work(p))

-----------------------------------------------------------------------------
\* Properties (SourceSerialized is ScrapeQueue's)

\* A succeeded row's scrape file is complete, whatever crashed, was
\* interrupted and was retried before: consolidate_run reads files of rows it
\* only knows to be succeeded.
SucceededFileWhole ==
    \A j \in RowsIn("succeeded") : file[j] = "whole"

\* What was fanned in stays backed by a row that succeeded, in the run it was
\* fanned into; no later invocation takes it back or fails it.
MergedRowsSucceeded ==
    \A r \in Runs : \A j \in merged[r] : j.run = r /\ status[j] = "succeeded"

\* A row is running exactly while one invocation holds it, and no two
\* invocations hold the same row: the lease of claim_next is exclusive.
LeaseExclusive ==
    /\ \A j \in RowsIn("running") : \E p \in Procs : cur[p] = j
    /\ \A p \in Procs : pc[p] \in Holding => status[cur[p]] = "running"
    /\ \A p, q \in Procs : cur[p] = cur[q] /\ cur[p] # NoJob => p = q

\* enqueue is idempotent and claim_next exclusive, so without interrupts no
\* row is scraped twice, even by overlapping invocations of one run id.
ScrapedOnce == \A j \in Jobs : attempts[j] <= 1

\* Without faults every enqueued row is worked off: per-source exclusion
\* delays a row, never strands it.
RowsSettle ==
    \A j \in Jobs : status[j] = "pending" ~> status[j] \in Finished

\* ... and every started invocation gets to its end.
InvocationsEnd ==
    \A p \in Procs : pc[p] = "plan" ~> pc[p] = "done"

\* The table implements the abstract ledger of leases: a row leaves pending only
\* for running, is leased beside no running row of its source, and a finished
\* row is never taken back (claim_next, mark_*, requeue_running together).
SourceOfJob(j) == j.source
Ledger == INSTANCE JobLedger WITH SourceOf <- SourceOfJob
LedgerSpec == Ledger!Spec

-----------------------------------------------------------------------------
\* Promises the code does not keep, with the README's account of how.
\* No run checks them.

\* "Operator aborts ... should not leave permanent source blockers behind"
\* (queue.py:134-135): a running row is held by a live invocation, or by one
\* that is about to requeue.
AbortLeavesNoBlocker ==
    LiveProcs = {} => RowsIn("running") = {}

\* "rerunning the same date can resume" (README.md:139): once the rerun has
\* finished, a row that an interrupt gave back and the rerun scraped has its
\* postings in consolidated_postings.
ResumedRowFannedIn ==
    (LiveProcs = {} /\ \E p \in Procs : pc[p] = "done") =>
        \A j \in RowsIn("succeeded") : attempts[j] > 1 => j \in merged[j.run]
=============================================================================
