---------------------------- MODULE ScrapeQueue ----------------------------
(***************************************************************************)
(* The table pipe.scrape_jobs and the SQL statements of                    *)
(* src/src/pipeline/queue.py, one operator per helper.  Every helper runs  *)
(* on an autocommit connection, so a statement is one step, except         *)
(* claim_next: its subquery takes a snapshot and locks the row it picks    *)
(* before the UPDATE commits, and another session's claim fits in between. *)
(* ClaimBegin/ClaimCommit of Overnight are those two instants.             *)
(*                                                                         *)
(* The module has no processes of its own: Overnight drives the table.     *)
(***************************************************************************)
EXTENDS Naturals, Sequences

CONSTANTS Runs,      \* run ids
          Users,     \* app.users rows
          Sources    \* queue sources: linkedin, jobspy, companies, ...

\* UNIQUE (run_id, user_id, source): the triple identifies a row.
Jobs == [run: Runs, user: Users, source: Sources]

VARIABLES status,    \* [Jobs -> Statuses]; "absent" is no row at all
          inserted,  \* rows in created_at order
          attempts   \* [Jobs -> Nat], the attempts column

queueVars == <<status, inserted, attempts>>

Statuses == {"absent", "pending", "running", "succeeded", "failed"}
Finished == {"succeeded", "failed"}

QueueTypeOK ==
    /\ status \in [Jobs -> Statuses]
    /\ inserted \in Seq(Jobs)
    /\ attempts \in [Jobs -> Nat]

QueueInit ==
    /\ status = [j \in Jobs |-> "absent"]
    /\ inserted = <<>>
    /\ attempts = [j \in Jobs |-> 0]

\* The rows a statement sees in one status.
RowsIn(s) == {j \in Jobs : status[j] = s}

-----------------------------------------------------------------------------
\* INSERT ... ON CONFLICT (run_id, user_id, source) DO UPDATE SET status =
\* 'pending': the usual upsert, in place of DO NOTHING.
EnqueueUpsert(j) ==
    /\ status' = [status EXCEPT ![j] = "pending"]
    /\ inserted' = IF status[j] = "absent" THEN Append(inserted, j) ELSE inserted
    /\ UNCHANGED attempts

\* enqueue: insert the row pending, or do nothing when the triple exists.
Enqueue(j) ==
    IF status[j] = "absent"
    THEN /\ status' = [status EXCEPT ![j] = "pending"]
         /\ inserted' = Append(inserted, j)
         /\ UNCHANGED attempts
    ELSE UNCHANGED queueVars

\* A claim that forgets the NOT IN subquery: per-source serialization is gone.
ClaimableAnySource(j, locked) == status[j] = "pending" /\ j \notin locked

\* A claim without FOR UPDATE SKIP LOCKED: it also picks a row another
\* session's claim has already picked.
ClaimableLockedToo(j, locked) ==
    /\ status[j] = "pending"
    /\ \A k \in RowsIn("running") : k.source # j.source

\* The WHERE of claim_next's subquery, evaluated on the committed rows: a
\* pending row, not locked by a concurrent claim (SKIP LOCKED), whose source
\* has no running sibling in ANY run.
Claimable(j, locked) ==
    /\ status[j] = "pending"
    /\ j \notin locked
    /\ \A k \in RowsIn("running") : k.source # j.source

\* ORDER BY created_at LIMIT 1: j is the oldest claimable row.
NextClaim(j, locked) ==
    \E i \in 1..Len(inserted) :
        /\ inserted[i] = j
        /\ Claimable(j, locked)
        /\ \A h \in 1..(i - 1) : ~Claimable(inserted[h], locked)

\* claim_next returns None.
NothingClaimable(locked) == \A j \in Jobs : ~Claimable(j, locked)

\* The UPDATE of claim_next.
Lease(j) ==
    /\ status' = [status EXCEPT ![j] = "running"]
    /\ attempts' = [attempts EXCEPT ![j] = @ + 1]
    /\ UNCHANGED inserted

\* mark_succeeded / mark_failed: UPDATE ... WHERE id = %s, whatever the
\* status is ("Caller's responsibility to only call on rows it claimed").
Mark(j, s) ==
    /\ status' = [status EXCEPT ![j] = s]
    /\ UNCHANGED <<inserted, attempts>>

\* A requeue that forgets AND status = 'running'.
RequeueEverything(r) ==
    /\ status' = [j \in Jobs |-> IF j.run = r /\ status[j] # "absent"
                                 THEN "pending" ELSE status[j]]
    /\ UNCHANGED <<inserted, attempts>>

\* requeue_running: this run's running rows go back to pending, attempts kept.
RequeueRunning(r) ==
    /\ status' = [j \in Jobs |-> IF j.run = r /\ status[j] = "running"
                                 THEN "pending" ELSE status[j]]
    /\ UNCHANGED <<inserted, attempts>>

-----------------------------------------------------------------------------
\* spec section 6, queue.py:8-9: at most one row in flight per source, over
\* all runs and users.  Rows orphaned by a crash count: the job board may
\* still be hit by nobody, but nobody else may start on it.
SourceSerialized ==
    \A j, k \in RowsIn("running") : j.source = k.source => j = k
=============================================================================
