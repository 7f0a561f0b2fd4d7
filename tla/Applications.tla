---------------------------- MODULE Applications ----------------------------
(***************************************************************************)
(* One user's application for one posting and its timeline, under           *)
(* concurrent API requests (src/src/api/routes/applications.py, jobs.py).    *)
(* Every statement is keyed by (user_id, dedup_hash): applications of other  *)
(* users and postings are other instances.                                  *)
(*                                                                         *)
(* Transactions are READ COMMITTED: a statement sees what was committed      *)
(* before it.  A create or a patch is four of them (the SELECT, the write of *)
(* the application, its event, COMMIT), and what it wrote is its own until   *)
(* it commits; its write locks the row, or the key of the row it inserts.    *)
(* A request begins its own transaction; UpcomingSteps has the one case in   *)
(* which it runs in a transaction that was left open.                        *)
(***************************************************************************)
EXTENDS Naturals, FiniteSets

CONSTANTS Requests,     \* the requests that may arrive
          Statuses,     \* the statuses they may ask for
          None          \* no row, no status

ASSUME ConstantsOK == IsFiniteSet(Requests) /\ None \notin Statuses

VARIABLES
    app,        \* status in app.user_applications, None without a row
    scored,     \* raw.job_scores holds a row of this user and posting
    events,     \* app.application_events of the application
    now,        \* transactions begun so far: the clock of occurred_at
    pc,         \* per request: its next statement, "ok" once it has committed
    req,        \* what a create or a patch asks for
    began,      \* when its transaction began
    old,        \* the status it read
    found,      \* its write wrote the row: not so a patch of a row that is gone
    pending,    \* its event is inserted and not yet committed
    since,      \* history: begin of the request that made the status what it is
    author,     \* history: the request that wrote the row last
    spoiled     \* history: see Spoils

requests == <<pc, req, began, old, found, pending>>
vars == <<app, scored, events, now, requests, since, author, spoiled>>

Statements == {"read", "write", "emit", "commit"}

MaybeStatus == Statuses \cup {None}

Bodies == [kind: {"create", "patch"}, status: Statuses]
NoRequest == [kind |-> "none", status |-> None]

\* A status_change has a to; a note has neither from nor to.
Events ==
    [by: Requests, kind: {"status_change"}, from: MaybeStatus, to: Statuses,
     at: 0..Cardinality(Requests)]
    \cup
    [by: Requests, kind: {"event"}, from: {None}, to: {None},
     at: 0..Cardinality(Requests)]

TypeOK ==
    /\ app \in MaybeStatus
    /\ scored \in BOOLEAN
    /\ events \subseteq Events
    /\ now \in 0..Cardinality(Requests)
    /\ pc \in [Requests -> Statements \cup {"idle", "ok", "error"}]
    /\ req \in [Requests -> Bodies \cup {NoRequest}]
    /\ began \in [Requests -> 0..Cardinality(Requests)]
    /\ old \in [Requests -> MaybeStatus]
    /\ found \in [Requests -> BOOLEAN] /\ pending \in [Requests -> BOOLEAN]
    /\ author \in Requests \cup {None}
    /\ since \in 0..Cardinality(Requests)
    /\ spoiled \in BOOLEAN

\* The posting may be in the user's feed already.
Init ==
    /\ app = None /\ scored \in BOOLEAN /\ events = {} /\ now = 0
    /\ pc = [r \in Requests |-> "idle"]
    /\ req = [r \in Requests |-> NoRequest]
    /\ began = [r \in Requests |-> 0]
    /\ old = [r \in Requests |-> None]
    /\ found = [r \in Requests |-> TRUE] /\ pending = [r \in Requests |-> FALSE]
    /\ since = 0 /\ author = None /\ spoiled = FALSE

Active(r) == pc[r] \in Statements

\* The lock of the row that r wrote or inserted, and the share of the row that
\* the foreign key of its event takes.
Holds(r) == pc[r] \in {"emit", "commit"} /\ found[r]
Shares(r) == pending[r]

\* What puts the timeline out of step with the status: a status that no event or
\* the wrong one tells, and a status_change event written, changed or deleted by
\* hand.
Spoils(reason) == spoiled' = (spoiled \/ reason)

\* The end of the transaction, after which the handler's locals are gone.
End(r, how) ==
    /\ pc' = [pc EXCEPT ![r] = how]
    /\ req' = [req EXCEPT ![r] = NoRequest]
    /\ began' = [began EXCEPT ![r] = 0]
    /\ old' = [old EXCEPT ![r] = None]
    /\ pending' = [pending EXCEPT ![r] = FALSE]

\* A request served in one transaction of one step.
Serve(r, how) ==
    /\ pc[r] = "idle"
    /\ now' = now + 1
    /\ End(r, how)
    /\ UNCHANGED found

-----------------------------------------------------------------------------
\* create_application and update_application

\* BEGIN: now() of the whole transaction.
Begin(r) ==
    /\ pc[r] = "idle"
    /\ now' = now + 1
    /\ began' = [began EXCEPT ![r] = now']
    /\ pc' = [pc EXCEPT ![r] = "read"]
    /\ \E body \in Bodies : req' = [req EXCEPT ![r] = body]
    /\ UNCHANGED <<app, scored, events, old, found, pending, since, author, spoiled>>

\* SELECT status ...
Read(r) ==
    /\ pc[r] = "read"
    /\ req[r].kind = "create" \/ app # None
    /\ old' = [old EXCEPT ![r] = app]
    /\ pc' = [pc EXCEPT ![r] = "write"]
    /\ UNCHANGED <<app, scored, events, now, req, began, found, pending, since, author, spoiled>>

\* Every status change told as an entry into the funnel.
EmittedAsNew(r) ==
    {[by |-> r, kind |-> "status_change", at |-> began[r],
      from |-> None, to |-> req[r].status]}

\* _emit_status_change.
Emitted(r) ==
    {[by |-> r, kind |-> "status_change", at |-> began[r],
      from |-> old[r], to |-> req[r].status]}

\* Tells new rows only.
ChangedWhenNew(r) == old[r] = None

\* The read status is not the one asked for.
Changed(r) == old[r] # req[r].status

\* A write that commits on its own: a connection in autocommit mode.
WriteCommits(r) ==
    /\ pc[r] = "write"
    /\ LET gone == req[r].kind = "patch" /\ app = None IN
        /\ found' = [found EXCEPT ![r] = ~gone]
        /\ app' = IF gone THEN app ELSE req[r].status
        /\ author' = IF gone THEN author ELSE r
    /\ since' = IF app = app' THEN since ELSE began[r]
    /\ pc' = [pc EXCEPT ![r] = "emit"]
    /\ UNCHANGED <<scored, events, now, req, began, old, pending, spoiled>>

\* The upsert of a create or the update of a patch: waits for who holds the row.
\* An update whose row is not there, or not committed, finds nothing and goes on.
Write(r) ==
    /\ pc[r] = "write"
    /\ LET gone == req[r].kind = "patch" /\ app = None IN
        /\ gone \/ \A q \in Requests : ~Holds(q)
        /\ found' = [found EXCEPT ![r] = ~gone]
    /\ pc' = [pc EXCEPT ![r] = "emit"]
    /\ UNCHANGED <<app, scored, events, now, req, began, old, pending, since, author, spoiled>>

\* The event of a change; its foreign key wants the row, which is r's own or was
\* committed by another request since r's update found nothing.
Emit(r) ==
    /\ pc[r] = "emit"
    /\ Changed(r) => Holds(r) \/ app # None
    /\ pending' = [pending EXCEPT ![r] = Changed(r)]
    /\ pc' = [pc EXCEPT ![r] = "commit"]
    /\ UNCHANGED <<app, scored, events, now, req, began, old, found, since, author, spoiled>>

\* COMMIT, and 404 for a patch that found no row.  Overlapping requests spoil the
\* timeline only here: by an event of a patch without its write, by a write whose
\* status is not the one that was read, and by a change that is dated before the
\* one it follows.
Commit(r) ==
    /\ pc[r] = "commit"
    /\ app' = IF found[r] THEN req[r].status ELSE app
    /\ events' = events \cup IF pending[r] THEN Emitted(r) ELSE {}
    /\ since' = IF app = app' THEN since ELSE began[r]
    /\ author' = IF found[r] THEN r ELSE author
    /\ Spoils(IF found[r] THEN old[r] # app \/ (app \notin {None, app'} /\ since >= began[r])
                          ELSE pending[r])
    /\ End(r, IF found[r] THEN "ok" ELSE "error")
    /\ UNCHANGED <<scored, now, found>>

\* A patch that reads no row is a 404, and an event without its row violates the
\* foreign key: ROLLBACK.
Missing(r) ==
    /\ app = None
    /\ \/ pc[r] = "read" /\ req[r].kind = "patch"
       \/ pc[r] = "emit" /\ ~found[r] /\ Changed(r)
    /\ End(r, "error")
    /\ UNCHANGED <<app, scored, events, now, found, since, author, spoiled>>

\* The server, the client or the connection goes away before any statement or
\* before the COMMIT: ROLLBACK.
Fail(r) ==
    /\ Active(r)
    /\ End(r, "error")
    /\ UNCHANGED <<app, scored, events, now, found, since, author, spoiled>>

-----------------------------------------------------------------------------
\* The other handlers: one transaction whose decisions its own statements make

\* A delete without ON DELETE CASCADE.
DeleteKeepsEvents(r) ==
    /\ app # None
    /\ app' = None
    /\ Serve(r, "ok")
    /\ spoiled' = FALSE
    /\ UNCHANGED <<scored, events, since, author>>

\* delete_application, with the cascade of the foreign key: waits for who writes
\* or shares the row.  The next application starts an unspoiled timeline.
Delete(r) ==
    /\ app # None
    /\ \A q \in Requests : ~Holds(q) /\ ~Shares(q)
    /\ app' = None /\ events' = {}
    /\ Serve(r, "ok")
    /\ spoiled' = FALSE
    /\ UNCHANGED <<scored, since, author>>

\* create_manual_job: a new score row, and a status that no event tells.
ManualJob(r) ==
    /\ ~scored /\ scored' = TRUE
    /\ \A q \in Requests : ~Holds(q)
    /\ app' \in Statuses /\ author' = r
    /\ since' = IF app = app' THEN since ELSE now + 1
    /\ Serve(r, "ok")
    /\ Spoils(app # app')
    /\ UNCHANGED events

\* occurred_at in a payload: now, or before everything else.
Dates == {0, now + 1}

\* create_event of a note, today's or backdated.
Note(r) ==
    /\ app # None
    /\ \E t \in Dates :
        events' = events \cup
            {[by |-> r, kind |-> "event", at |-> t, from |-> None, to |-> None]}
    /\ Serve(r, "ok")
    /\ UNCHANGED <<app, scored, since, author, spoiled>>

\* create_event of a status_change, which leaves the application's status alone.
Declare(r) ==
    /\ app # None
    /\ \E t \in Dates, s \in MaybeStatus, u \in Statuses :
        events' = events \cup
            {[by |-> r, kind |-> "status_change", at |-> t, from |-> s, to |-> u]}
    /\ Serve(r, "ok")
    /\ Spoils(TRUE)
    /\ UNCHANGED <<app, scored, since, author>>

\* update_event: any event, status_change or not.
Redate(r) ==
    /\ \E e \in events, t \in Dates :
        /\ events' = (events \ {e}) \cup {[e EXCEPT !.at = t]}
        /\ Spoils(e.kind = "status_change")
    /\ Serve(r, "ok")
    /\ UNCHANGED <<app, scored, since, author>>

\* delete_event: any event, status_change or not.
Erase(r) ==
    /\ \E e \in events :
        /\ events' = events \ {e}
        /\ Spoils(e.kind = "status_change")
    /\ Serve(r, "ok")
    /\ UNCHANGED <<app, scored, since, author>>

\* A delete, an event or an edit without its row, or a manual job the user has:
\* 404, a foreign key violation, 409.
Refuse(r) ==
    /\ app = None \/ scored \/ events = {}
    /\ Serve(r, "error")
    /\ UNCHANGED <<app, scored, events, since, author, spoiled>>

-----------------------------------------------------------------------------
Handle(r) == Read(r) \/ Write(r) \/ Emit(r) \/ Commit(r) \/ Missing(r) \/ Fail(r)

Arrive(r) ==
    \/ Begin(r) \/ Delete(r) \/ ManualJob(r)
    \/ Note(r) \/ Declare(r) \/ Redate(r) \/ Erase(r) \/ Refuse(r)

Next == \E r \in Requests : Arrive(r) \/ Handle(r)

Spec == Init /\ [][Next]_vars

-----------------------------------------------------------------------------
\* Properties

Transitions == {e \in events : e.kind = "status_change"}

\* The alerts' reading of the timeline (upcoming_steps.py): the last transition.
Last(e) == \A f \in Transitions : f.at <= e.at

\* "Current status = to_status of the last event" (upcoming_steps.py:139): as long
\* as nothing spoils the timeline its last transition names the status and the
\* moment the application entered it, whatever requests wait for each other, fail
\* between two statements, change nothing, or delete and start over.
TimelineTellsStatus ==
    ~spoiled /\ app # None =>
        \E e \in Transitions : Last(e) /\ e.to = app /\ e.at = since

\* ... and its transitions form a chain from nothing to the status, each starting
\* where the one before it ended.
TimelineChains ==
    ~spoiled => \A e \in Transitions :
        LET before == {f \in Transitions : f.at < e.at} IN
        /\ e.from # e.to
        /\ IF before = {} THEN e.from = None
           ELSE \E f \in before : f.to = e.from /\ \A g \in before : g.at <= f.at

\* No event without its application, whatever overlaps: the foreign key is checked
\* and the cascade runs in the statement's own transaction.
NoOrphans == app = None => events = {}

\* "so the two commit atomically" (applications.py:40): wherever a request fails, of
\* the status and the event it wrote neither is there before it has committed.  One
\* case is left: a patch whose update found the row gone and whose event found an
\* application made anew; it is answered with 404 and its event stays.
FailedLeavesNothing ==
    /\ app # None => pc[author] = "ok"
    /\ \A e \in events : pc[e.by] = IF found[e.by] THEN "ok" ELSE "error"

-----------------------------------------------------------------------------
\* Promises the code does not keep, with the README's account of how.  No run
\* checks them.

\* "Every status change auto-emits a status_change event"
\* (specs/application_activity_tracking.md:85), without any proviso.
EveryChangeTold ==
    [][app' # app /\ app' # None => \E e \in events' \ events : e.to = app']_vars

\* An event and its status "commit atomically" (applications.py:40), without the
\* case of FailedLeavesNothing.
NoEventWithoutWrite == \A e \in events : pc[e.by] = "ok"
=============================================================================
