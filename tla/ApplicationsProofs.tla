------------------------- MODULE ApplicationsProofs -------------------------
(***************************************************************************)
(* What Applications guarantees for every set of requests and statuses, and *)
(* then what the nudges of UpcomingSteps tell the user of such timelines,   *)
(* for all postings, thresholds and connections.                            *)
(***************************************************************************)
EXTENDS Applications, UpcomingSteps, WellFoundedInduction, TLAPS

\* An entry of the timeline: who wrote it, what it says, and its date.
EventRecords ==
    [by: Requests, kind: {"status_change", "event"}, from: MaybeStatus,
     to: MaybeStatus, at: Nat]

\* The types the proofs need; requests are not counted here.
Typed ==
    /\ app \in MaybeStatus
    /\ now \in Nat /\ since \in 0..now
    /\ events \subseteq EventRecords
    /\ app # None => author \in Requests
    /\ pc \in [Requests -> Statements \cup {"idle", "ok", "error"}]
    /\ req \in [Requests -> Bodies \cup {NoRequest}]
    /\ \A r \in Requests : Active(r) => req[r] \in Bodies
    /\ began \in [Requests -> 0..now]
    /\ old \in [Requests -> MaybeStatus]
    /\ found \in [Requests -> BOOLEAN] /\ pending \in [Requests -> BOOLEAN]

\* Where a request is in its transaction.  One that has not written counts as
\* having found the row; an event waits for the COMMIT exactly when the request
\* tells a change; and where its own row does not hold it, the row it shares is
\* there.
Stepwise ==
    \A r \in Requests :
        /\ pc[r] \in {"idle", "read", "write", "ok"} => found[r]
        /\ pc[r] = "commit" => (pending[r] <=> Changed(r))
        /\ pending[r] => pc[r] = "commit"
        /\ pending[r] /\ ~found[r] => app # None

\* The inductive invariant: what Applications promises, with what the requests
\* at work have done.
TimelineInv ==
    /\ Typed /\ Stepwise
    /\ NoOrphans /\ FailedLeavesNothing /\ TimelineTellsStatus /\ TimelineChains

\* No row, no events, and nobody at work.
LEMMA InitInv == Init => TimelineInv
<1> SUFFICES ASSUME Init PROVE TimelineInv
  OBVIOUS
<1>1. \A r \in Requests : ~Active(r)
  BY DEF Init, Active, Statements
<1>2. Typed
  BY <1>1 DEF Init, Typed, MaybeStatus, EventRecords, Statements
<1>3. Stepwise
  BY DEF Init, Stepwise
<1> QED
  BY <1>2, <1>3 DEF Init, TimelineInv, NoOrphans, FailedLeavesNothing,
     TimelineTellsStatus, TimelineChains, Transitions

-----------------------------------------------------------------------------
(* Types *)

\* The end of a transaction keeps the types of the handlers' locals.
LEMMA EndType ==
    ASSUME Typed, NEW r \in Requests, NEW how \in {"ok", "error"}, End(r, how)
    PROVE  /\ pc' \in [Requests -> Statements \cup {"idle", "ok", "error"}]
           /\ req' \in [Requests -> Bodies \cup {NoRequest}]
           /\ \A q \in Requests : Active(q)' => Active(q) /\ q # r
           /\ \A q \in Requests : Active(q)' => req'[q] \in Bodies
           /\ began' \in [Requests -> 0..now]
           /\ old' \in [Requests -> MaybeStatus]
           /\ pending' \in [Requests -> BOOLEAN]
           /\ pc'[r] = how /\ ~pending'[r]
           /\ \A q \in Requests \ {r} :
                /\ pc'[q] = pc[q] /\ req'[q] = req[q] /\ old'[q] = old[q]
                /\ began'[q] = began[q] /\ pending'[q] = pending[q]
BY DEF Typed, End, Active, MaybeStatus, Statements

\* Every action keeps the types.
LEMMA NextTyped == Typed /\ [Next]_vars => Typed'
<1> SUFFICES ASSUME Typed, [Next]_vars PROVE Typed'
  OBVIOUS
<1> USE DEF Serve, Dates
<1>0. now \in Nat /\ 0..now \subseteq 0..(now + 1)
  BY DEF Typed
<1>1. ASSUME NEW r \in Requests, Begin(r) PROVE Typed'
  <2>1. began' \in [Requests -> 0..(now + 1)] /\ since \in 0..(now + 1)
    BY <1>0, <1>1 DEF Begin, Typed
  <2> QED
    BY <1>0, <1>1, <2>1 DEF Begin, Typed, Active, Statements
<1>2. ASSUME NEW r \in Requests, Read(r) PROVE Typed'
  BY <1>2 DEF Read, Typed, Active, Statements
<1>3. ASSUME NEW r \in Requests, Write(r) PROVE Typed'
  BY <1>3 DEF Write, Typed, Active, Statements
<1>14. ASSUME NEW r \in Requests, Emit(r) PROVE Typed'
  <2>1. Changed(r) \in BOOLEAN
    BY DEF Changed
  <2> QED
    BY <1>14, <2>1 DEF Emit, Typed, Active, Statements
<1>15. ASSUME NEW r \in Requests, Commit(r) PROVE Typed'
  <2>1. req[r] \in Bodies /\ began[r] \in 0..now
    BY <1>15 DEF Commit, Typed, Active, Statements
  <2>2. Emitted(r) \subseteq EventRecords
    BY <2>1 DEF Emitted, EventRecords, Typed, Bodies, MaybeStatus
  <2>3. /\ app' \in MaybeStatus /\ since' \in 0..now /\ events' \subseteq EventRecords
        /\ app' # None => author' \in Requests
    BY <1>15, <2>1, <2>2 DEF Commit, Typed, Bodies, MaybeStatus
  <2> QED
    BY <1>15, <2>3, EndType DEF Commit, Typed
<1>4. ASSUME NEW r \in Requests, Missing(r) PROVE Typed'
  BY <1>4, EndType DEF Missing, Typed
<1>5. ASSUME NEW r \in Requests, Fail(r) PROVE Typed'
  BY <1>5, EndType DEF Fail, Typed
<1>16. ASSUME NEW r \in Requests, NEW how \in {"ok", "error"}, Serve(r, how)
       PROVE  began' \in [Requests -> 0..now'] /\ now' \in Nat /\ since \in 0..now'
  <2>1. began' \in [Requests -> 0..now]
    BY <1>16, EndType
  <2> QED
    BY <1>0, <1>16, <2>1 DEF Typed
<1>6. ASSUME NEW r \in Requests, Delete(r) PROVE Typed'
  BY <1>6, <1>16, EndType DEF Delete, Typed, MaybeStatus
<1>7. ASSUME NEW r \in Requests, ManualJob(r) PROVE Typed'
  <2>1. since' \in 0..(now + 1)
    BY <1>7 DEF ManualJob, Typed
  <2> QED
    BY <1>7, <1>16, <2>1, EndType DEF ManualJob, Typed, MaybeStatus
<1>8. ASSUME NEW r \in Requests, Note(r) PROVE Typed'
  BY <1>0, <1>8, <1>16, EndType DEF Note, Typed, EventRecords, MaybeStatus
<1>9. ASSUME NEW r \in Requests, Declare(r) PROVE Typed'
  BY <1>0, <1>9, <1>16, EndType DEF Declare, Typed, EventRecords, MaybeStatus
<1>10. ASSUME NEW r \in Requests, Redate(r) PROVE Typed'
  BY <1>0, <1>10, <1>16, EndType DEF Redate, Typed, EventRecords
<1>11. ASSUME NEW r \in Requests, Erase(r) PROVE Typed'
  BY <1>11, <1>16, EndType DEF Erase, Typed
<1>12. ASSUME NEW r \in Requests, Refuse(r) PROVE Typed'
  BY <1>12, <1>16, EndType DEF Refuse, Typed
<1>13. CASE UNCHANGED vars
  BY <1>13 DEF vars, requests, Typed, Active
<1> QED
  BY <1>1, <1>2, <1>3, <1>4, <1>5, <1>6, <1>7, <1>8, <1>9, <1>10, <1>11, <1>12,
     <1>13, <1>14, <1>15 DEF Next, Arrive, Handle

-----------------------------------------------------------------------------
(* The requests at work *)

\* A transaction that ends, while the application stays or no other request
\* shares it, leaves the others where they are.
LEMMA EndStepwise ==
    ASSUME Typed, Stepwise, NEW r \in Requests, NEW how \in {"ok", "error"}, End(r, how),
           found' = found, how = "ok" => found[r],
           app' = None => app = None \/ \A q \in Requests : ~Shares(q)
    PROVE  Stepwise'
<1> SUFFICES ASSUME NEW q \in Requests
             PROVE  /\ pc'[q] \in {"idle", "read", "write", "ok"} => found'[q]
                    /\ pc'[q] = "commit" => (pending'[q] <=> Changed(q)')
                    /\ pending'[q] => pc'[q] = "commit"
                    /\ pending'[q] /\ ~found'[q] => app' # None
  BY DEF Stepwise
<1>1. CASE q = r
  BY <1>1, EndType
<1>2. CASE q # r
  BY <1>2, EndType DEF Stepwise, Changed, Shares
<1> QED
  BY <1>1, <1>2

\* Every action leaves the requests where they should be.
LEMMA NextStepwise == Typed /\ Stepwise /\ [Next]_vars => Stepwise'
<1> SUFFICES ASSUME Typed, Stepwise, [Next]_vars PROVE Stepwise'
  OBVIOUS
<1> USE DEF Serve
<1>1. ASSUME NEW r \in Requests, Begin(r) PROVE Stepwise'
  BY <1>1 DEF Begin, Stepwise, Typed, Changed
<1>2. ASSUME NEW r \in Requests, Read(r) PROVE Stepwise'
  BY <1>2 DEF Read, Stepwise, Typed, Changed
<1>3. ASSUME NEW r \in Requests, Write(r) PROVE Stepwise'
  BY <1>3 DEF Write, Stepwise, Typed, Changed
<1>4. ASSUME NEW r \in Requests, Emit(r) PROVE Stepwise'
  <2>1. pending' = [pending EXCEPT ![r] = Changed(r)] /\ UNCHANGED <<old, req, found, app>>
    BY <1>4 DEF Emit
  <2>2. Changed(r) /\ ~found[r] => app # None
    BY <1>4 DEF Emit, Holds
  <2>3. \A q \in Requests : Changed(q)' <=> Changed(q)
    BY <2>1 DEF Changed
  <2> HIDE DEF Changed
  <2>4. pc'[r] = "commit" /\ (pending'[r] <=> Changed(r)) 
    BY <1>4 DEF Emit, Typed
  <2>5. \A q \in Requests \ {r} : pc'[q] = pc[q] /\ pending'[q] = pending[q]
    BY <1>4 DEF Emit, Typed
  <2> QED
    BY <2>1, <2>2, <2>3, <2>4, <2>5 DEF Stepwise
<1>5. ASSUME NEW r \in Requests, Commit(r) PROVE Stepwise'
  <2>1. app' = None => app = None
    BY <1>5, ConstantsOK DEF Commit, Typed, Active, Statements, Bodies
  <2> QED
    BY <1>5, <2>1, EndStepwise DEF Commit
<1>6. ASSUME NEW r \in Requests, Missing(r) PROVE Stepwise'
  BY <1>6, EndStepwise DEF Missing
<1>7. ASSUME NEW r \in Requests, Fail(r) PROVE Stepwise'
  BY <1>7, EndStepwise DEF Fail
<1>8. ASSUME NEW r \in Requests, Arrive(r), ~Begin(r) PROVE Stepwise'
  <2>1. found[r] /\ found' = found
    BY <1>8 DEF Arrive, Delete, ManualJob, Note, Declare, Redate, Erase, Refuse, Stepwise
  <2>2. End(r, "ok") \/ End(r, "error")
    BY <1>8 DEF Arrive, Delete, ManualJob, Note, Declare, Redate, Erase, Refuse
  <2>3. app' = None => app = None \/ \A q \in Requests : ~Shares(q)
    BY <1>8, ConstantsOK DEF Arrive, Delete, ManualJob, Note, Declare, Redate, Erase, Refuse
  <2> QED
    BY <2>1, <2>2, <2>3, EndStepwise
<1>9. CASE UNCHANGED vars
  BY <1>9 DEF vars, requests, Stepwise, Changed
<1> QED
  BY <1>1, <1>2, <1>3, <1>4, <1>5, <1>6, <1>7, <1>8, <1>9 DEF Next, Arrive, Handle

-----------------------------------------------------------------------------
(* The invariant *)

\* What was committed stays so: a request whose transaction is over takes no step.
Settled ==
    \A q \in Requests : pc[q] \in {"ok", "error"} => pc'[q] = pc[q] /\ found'[q] = found[q]

LEMMA NextSettled == Typed /\ [Next]_vars => Settled
<1> SUFFICES ASSUME Typed, [Next]_vars PROVE Settled
  OBVIOUS
<1>1. ASSUME NEW r \in Requests, Begin(r) \/ Read(r) \/ Write(r) \/ Emit(r) PROVE Settled
  BY <1>1 DEF Begin, Read, Write, Emit, Settled, Typed
<1>2. ASSUME NEW r \in Requests, NEW how \in {"ok", "error"}, End(r, how), found' = found,
             pc[r] \notin {"ok", "error"}
      PROVE  Settled
  BY <1>2, EndType DEF Settled
<1>3. ASSUME NEW r \in Requests, Commit(r) \/ Missing(r) \/ Fail(r) PROVE Settled
  BY <1>2, <1>3 DEF Commit, Missing, Fail, Active, Statements
<1>4. ASSUME NEW r \in Requests, Arrive(r), ~Begin(r) PROVE Settled
  <2>1. found' = found /\ pc[r] = "idle" /\ (End(r, "ok") \/ End(r, "error"))
    BY <1>4 DEF Arrive, Delete, ManualJob, Note, Declare, Redate, Erase, Refuse, Serve
  <2> QED
    BY <1>2, <2>1
<1>5. CASE UNCHANGED vars
  BY <1>5 DEF vars, requests, Settled
<1> QED
  BY <1>1, <1>3, <1>4, <1>5 DEF Next, Arrive, Handle

\* A step that leaves the application and its timeline alone.
LEMMA QuietInv ==
    ASSUME TimelineInv, Typed', Stepwise', Settled,
           UNCHANGED <<app, since, author, events, spoiled>>
    PROVE  TimelineInv'
<1> USE DEF TimelineInv
<1>1. FailedLeavesNothing'
  <2>1. \A e \in events : pc'[e.by] = pc[e.by] /\ found'[e.by] = found[e.by]
    BY DEF Settled, FailedLeavesNothing, Typed, EventRecords
  <2>2. app # None => pc'[author] = "ok"
    BY DEF Settled, FailedLeavesNothing, Typed
  <2> QED
    BY <2>1, <2>2 DEF FailedLeavesNothing
<1>2. TimelineTellsStatus' /\ TimelineChains'
  BY DEF TimelineTellsStatus, TimelineChains, Transitions, Last
<1> QED
  BY <1>1, <1>2 DEF NoOrphans

\* A COMMIT keeps the promise about failures: what it adds is by a request that is
\* over, and it is answered with an error only where its write found nothing.
LEMMA CommitSettles ==
    ASSUME TimelineInv, Typed', Settled, NEW r \in Requests, Commit(r)
    PROVE  FailedLeavesNothing' /\ NoOrphans'
<1> USE DEF TimelineInv
<1>1. /\ pc[r] = "commit" /\ found' = found /\ app' = IF found[r] THEN req[r].status ELSE app
      /\ events' = events \cup IF pending[r] THEN Emitted(r) ELSE {}
      /\ author' = IF found[r] THEN r ELSE author
      /\ pc'[r] = IF found[r] THEN "ok" ELSE "error"
  BY EndType DEF Commit
<1>2. found[r] => app' # None
  BY <1>1, ConstantsOK DEF Typed, Active, Statements, Bodies
<1>3. ~found[r] /\ pending[r] => app # None
  BY DEF Stepwise
<1>4. NoOrphans'
  BY <1>1, <1>2, <1>3 DEF NoOrphans
<1>5. \A e \in events : pc'[e.by] = IF found'[e.by] THEN "ok" ELSE "error"
  BY DEF Settled, FailedLeavesNothing, Typed, EventRecords
<1>6. \A e \in Emitted(r) : e.by = r
  BY DEF Emitted
<1>7. app' # None => pc'[author'] = "ok"
  <2>1. CASE found[r]
    BY <1>1, <2>1
  <2>2. CASE ~found[r]
    BY <1>1, <2>2 DEF Settled, FailedLeavesNothing, Typed
  <2> QED
    BY <2>1, <2>2
<1> QED
  BY <1>1, <1>4, <1>5, <1>6, <1>7 DEF FailedLeavesNothing

\* A status is written: where the write rested on a true reading and begins after
\* the change before it, a change is told by a transition from the status it was,
\* dated after every other.
LEMMA CommitInv ==
    ASSUME TimelineInv, Typed', Stepwise', Settled, NEW r \in Requests, Commit(r)
    PROVE  TimelineInv'
<1> USE DEF TimelineInv
<1>1. /\ pc[r] = "commit" /\ app' = IF found[r] THEN req[r].status ELSE app
      /\ events' = events \cup IF pending[r] THEN Emitted(r) ELSE {}
      /\ since' = IF app = app' THEN since ELSE began[r]
      /\ spoiled' = (spoiled \/ IF found[r] THEN old[r] # app \/ (app \notin {None, app'} /\ since >= began[r])
                                            ELSE pending[r])
  BY DEF Commit, Spoils
<1>2. NoOrphans' /\ FailedLeavesNothing'
  BY CommitSettles
<1>3. pending[r] <=> old[r] # req[r].status
  BY <1>1 DEF Stepwise, Changed
<1>4. CASE spoiled'
  BY <1>2, <1>4 DEF TimelineTellsStatus, TimelineChains
<1>5. CASE ~spoiled' /\ app' = app
  <2>1. ~pending[r] /\ ~spoiled
    BY <1>1, <1>3, <1>5
  <2>2. events' = events /\ since' = since
    BY <1>1, <1>5, <2>1
  <2> QED
    BY <1>2, <1>5, <2>1, <2>2 DEF TimelineTellsStatus, TimelineChains, Transitions, Last
<1>6. CASE ~spoiled' /\ app' # app
  <2>1. /\ found[r] /\ ~spoiled /\ old[r] = app /\ pending[r]
        /\ app' = req[r].status /\ since' = began[r]
    BY <1>1, <1>3, <1>6
  <2>2. began[r] \in Nat /\ since \in Nat /\ \A e \in Transitions : e.at \in Nat
    BY DEF Typed, Transitions, EventRecords
  <2>3. app # None => since < began[r]
    <3>1. app # None => ~(since >= began[r])
      BY <1>1, <1>6, <2>1
    <3> QED
      BY <2>2, <3>1
  <2>4. \A e \in Transitions : e.at < began[r]
    <3>1. CASE app = None
      BY <3>1 DEF NoOrphans, Transitions
    <3>2. CASE app # None
      <4>1. PICK f \in Transitions : Last(f) /\ f.at = since
        BY <2>1, <3>2 DEF TimelineTellsStatus
      <4> QED
        BY <2>2, <2>3, <3>2, <4>1 DEF Last
    <3> QED
      BY <3>1, <3>2
  <2> DEFINE new == [by |-> r, kind |-> "status_change", at |-> began[r],
                     from |-> app, to |-> app']
  <2>5. events' = events \cup {new}
    BY <1>1, <2>1 DEF Emitted
  <2>6. new.kind = "status_change" /\ new.at = began[r] /\ new.from = app /\ new.to = app'
    OBVIOUS
  <2> HIDE DEF new
  <2>7. Transitions' = Transitions \cup {new}
    BY <2>5, <2>6 DEF Transitions
  <2>8. TimelineTellsStatus'
    <3>1. \A f \in Transitions' : f.at <= new.at
      BY <2>2, <2>4, <2>6, <2>7
    <3> QED
      BY <2>1, <2>6, <2>7, <3>1 DEF TimelineTellsStatus, Last
  <2>9. TimelineChains'
    <3> SUFFICES ASSUME NEW e \in Transitions'
                 PROVE  LET before == {f \in Transitions' : f.at < e.at} IN
                        /\ e.from # e.to
                        /\ IF before = {} THEN e.from = None
                           ELSE \E f \in before : f.to = e.from /\ \A g \in before : g.at <= f.at
      BY DEF TimelineChains
    <3>1. CASE e = new
      <4>1. {f \in Transitions' : f.at < e.at} = Transitions
        BY <2>2, <2>4, <2>6, <2>7, <3>1
      <4>2. CASE Transitions = {}
        <5>1. app = None
          BY <2>1, <4>2 DEF TimelineTellsStatus
        <5> QED
          BY <1>6, <2>6, <3>1, <4>1, <4>2, <5>1
      <4>3. CASE Transitions # {}
        <5>1. app # None
          BY <4>3 DEF NoOrphans, Transitions
        <5>2. PICK f \in Transitions : Last(f) /\ f.to = app
          BY <2>1, <5>1 DEF TimelineTellsStatus
        <5> QED
          BY <1>6, <2>6, <3>1, <4>1, <4>3, <5>2 DEF Last
      <4> QED
        BY <4>2, <4>3
    <3>2. CASE e \in Transitions
      <4>1. {f \in Transitions' : f.at < e.at} = {f \in Transitions : f.at < e.at}
        BY <2>2, <2>4, <2>6, <2>7, <3>2
      <4> QED
        BY <2>1, <3>2, <4>1 DEF TimelineChains
    <3> QED
      BY <2>7, <3>1, <3>2
  <2> QED
    BY <1>2, <2>8, <2>9
<1> QED
  BY <1>4, <1>5, <1>6

\* A spoiled timeline has less to promise.
LEMMA SpoiledInv ==
    ASSUME Typed', Stepwise', spoiled', NoOrphans', FailedLeavesNothing'
    PROVE  TimelineInv'
BY DEF TimelineInv, TimelineTellsStatus, TimelineChains

\* An event that is added or edited by hand, of a request that is served by it or
\* was over before.
LEMMA ByHandInv ==
    ASSUME TimelineInv, Typed', Stepwise', Settled, UNCHANGED <<app, since, author>>,
           app # None,
           ~spoiled' => ~spoiled /\ Transitions' = Transitions,
           \A e \in events' :
                \/ \E f \in events : e.by = f.by
                \/ pc'[e.by] = "ok" /\ found'[e.by]
    PROVE  TimelineInv'
<1> USE DEF TimelineInv
<1>1. \A f \in events : pc'[f.by] = IF found'[f.by] THEN "ok" ELSE "error"
  BY DEF Settled, FailedLeavesNothing, Typed, EventRecords
<1>2. pc'[author] = "ok"
  BY DEF Settled, FailedLeavesNothing, Typed
<1>3. NoOrphans' /\ FailedLeavesNothing'
  BY <1>1, <1>2 DEF NoOrphans, FailedLeavesNothing
<1>4. CASE spoiled'
  BY <1>3, <1>4, SpoiledInv
<1>5. CASE ~spoiled'
  BY <1>3, <1>5 DEF TimelineTellsStatus, TimelineChains, Last
<1> QED
  BY <1>4, <1>5

\* Every step keeps the invariant.
LEMMA NextInv == TimelineInv /\ [Next]_vars => TimelineInv'
<1> SUFFICES ASSUME TimelineInv, [Next]_vars PROVE TimelineInv'
  OBVIOUS
<1>0. Typed /\ Typed' /\ Stepwise /\ Stepwise' /\ Settled
  BY NextTyped, NextStepwise, NextSettled DEF TimelineInv
<1> USE DEF Serve, Spoils
<1>1. ASSUME UNCHANGED <<app, since, author, events, spoiled>> PROVE TimelineInv'
  BY <1>0, <1>1, QuietInv
<1>2. ASSUME NEW r \in Requests,
             Begin(r) \/ Read(r) \/ Write(r) \/ Emit(r) \/ Missing(r) \/ Fail(r) \/ Refuse(r)
      PROVE  TimelineInv'
  BY <1>1, <1>2 DEF Begin, Read, Write, Emit, Missing, Fail, Refuse
<1>3. ASSUME NEW r \in Requests, Commit(r) PROVE TimelineInv'
  BY <1>0, <1>3, CommitInv
<1>4. ASSUME NEW r \in Requests, Delete(r) PROVE TimelineInv'
  <2>1. app' = None /\ events' = {}
    BY <1>4 DEF Delete
  <2> QED
    BY <1>0, <2>1 DEF TimelineInv, NoOrphans, FailedLeavesNothing, TimelineTellsStatus,
       TimelineChains, Transitions
<1>5. ASSUME NEW r \in Requests, pc[r] = "idle", End(r, "ok"), found' = found
      PROVE  pc'[r] = "ok" /\ found'[r]
  BY <1>0, <1>5, EndType DEF Stepwise
<1>6. ASSUME NEW r \in Requests, ManualJob(r) PROVE TimelineInv'
  <2>1. /\ app' # None /\ events' = events /\ author' = r /\ pc'[r] = "ok"
        /\ app' = app => since' = since /\ (~spoiled' => ~spoiled)
        /\ app' # app => spoiled'
    BY <1>5, <1>6, ConstantsOK DEF ManualJob
  <2>2. NoOrphans' /\ FailedLeavesNothing'
    <3>1. \A e \in events : pc'[e.by] = pc[e.by] /\ found'[e.by] = found[e.by]
      BY <1>0 DEF Settled, TimelineInv, FailedLeavesNothing, Typed, EventRecords
    <3> QED
      BY <2>1, <3>1 DEF NoOrphans, FailedLeavesNothing, TimelineInv
  <2>3. CASE app' = app
    BY <1>0, <2>1, <2>2, <2>3 DEF TimelineInv, TimelineTellsStatus, TimelineChains, Transitions, Last
  <2>4. CASE app' # app
    BY <1>0, <2>1, <2>2, <2>4, SpoiledInv
  <2> QED
    BY <2>3, <2>4
<1>7. ASSUME NEW r \in Requests, Note(r) PROVE TimelineInv'
  <2>1. Transitions' = Transitions
    BY <1>7 DEF Note, Transitions
  <2>2. \A e \in events' : e \in events \/ e.by = r
    BY <1>7 DEF Note
  <2> QED
    BY <1>0, <1>5, <1>7, <2>1, <2>2, ByHandInv DEF Note
<1>8. ASSUME NEW r \in Requests, Declare(r) PROVE TimelineInv'
  <2>1. \A e \in events' : e \in events \/ e.by = r
    BY <1>8 DEF Declare
  <2> QED
    BY <1>0, <1>5, <1>8, <2>1, ByHandInv DEF Declare
<1>9. ASSUME NEW r \in Requests, Redate(r) PROVE TimelineInv'
  <2>1. PICK e \in events, t \in Dates :
            /\ events' = (events \ {e}) \cup {[e EXCEPT !.at = t]}
            /\ spoiled' = (spoiled \/ e.kind = "status_change")
    BY <1>9 DEF Redate
  <2>2. [e EXCEPT !.at = t].by = e.by /\ [e EXCEPT !.at = t].kind = e.kind
    BY <1>0 DEF Typed, EventRecords
  <2>3. app # None
    BY <2>1 DEF TimelineInv, NoOrphans
  <2>4. ~spoiled' => ~spoiled /\ Transitions' = Transitions
    BY <2>1, <2>2 DEF Transitions
  <2>5. \A f \in events' : \E g \in events : f.by = g.by
    BY <2>1, <2>2
  <2>6. UNCHANGED <<app, since, author>>
    BY <1>9 DEF Redate
  <2> QED
    BY <1>0, <2>3, <2>4, <2>5, <2>6, ByHandInv
<1>10. ASSUME NEW r \in Requests, Erase(r) PROVE TimelineInv'
  <2>1. PICK e \in events :
            events' = events \ {e} /\ spoiled' = (spoiled \/ e.kind = "status_change")
    BY <1>10 DEF Erase
  <2>2. app # None
    BY <2>1 DEF TimelineInv, NoOrphans
  <2>3. ~spoiled' => ~spoiled /\ Transitions' = Transitions
    <3>1. CASE e.kind = "status_change"
      BY <2>1, <3>1
    <3>2. CASE e.kind # "status_change"
      <4>1. Transitions' = Transitions
        BY <2>1, <3>2 DEF Transitions
      <4> QED
        BY <2>1, <4>1
    <3> QED
      BY <3>1, <3>2
  <2>4. \A f \in events' : \E g \in events : f.by = g.by
    BY <2>1
  <2>5. UNCHANGED <<app, since, author>>
    BY <1>10 DEF Erase
  <2> QED
    BY <1>0, <2>2, <2>3, <2>4, <2>5, ByHandInv
<1>11. CASE UNCHANGED vars
  BY <1>1, <1>11 DEF vars
<1> QED
  BY <1>2, <1>3, <1>4, <1>6, <1>7, <1>8, <1>9, <1>10, <1>11 DEF Next, Arrive, Handle

-----------------------------------------------------------------------------
(* Theorems *)

\* The invariant of every behaviour.
LEMMA Tracking == Spec => []TimelineInv
<1>1. TimelineInv /\ [Next]_vars => TimelineInv'
  BY NextInv
<1> QED
  BY <1>1, InitInv, PTL DEF Spec

\* For any number of requests, however they overlap, wait and fail: as long as no
\* commit rests on a stale reading or is dated before the change it follows, no
\* manual job sets the status, and no transition is made, moved or removed by hand,
\* the last transition of the timeline names the application's status and dates it.
THEOREM TimelineTrue == Spec => []TimelineTellsStatus
<1>1. TimelineInv => TimelineTellsStatus
  BY DEF TimelineInv
<1> QED
  BY <1>1, Tracking, PTL

\* ... and the transitions are a chain.
THEOREM TimelineChained == Spec => []TimelineChains
<1>1. TimelineInv => TimelineChains
  BY DEF TimelineInv
<1> QED
  BY <1>1, Tracking, PTL

\* For any number of requests, however they overlap and fail: no event without its
\* application.
THEOREM EventsBacked == Spec => []NoOrphans
<1>1. TimelineInv => NoOrphans
  BY DEF TimelineInv
<1> QED
  BY <1>1, Tracking, PTL

\* ... and of a request that failed before or after any of its statements neither
\* the status nor the event is there, but for the event of a patch that found its
\* row gone and an application made anew.
THEOREM FailuresLeaveNothing == Spec => []FailedLeavesNothing
<1>1. TimelineInv => FailedLeavesNothing
  BY DEF TimelineInv
<1> QED
  BY <1>1, Tracking, PTL

-----------------------------------------------------------------------------
(* The nudges: the inductive invariant.                                    *)

\* While no transition is misdated, a timeline tells the status, since when, and
\* when the user last applied.
Tells(j) ==
  LET told == Of(j, transitions)
      last == [job |-> j, to |-> status[j], at |-> entered[j]] IN
  /\ entered[j] <= clock
  /\ \A e \in told : e.to # Nothing
  /\ IF status[j] = Nothing THEN told = {}
     ELSE last \in told /\ \A e \in told : e.at <= entered[j] /\ (e.at = entered[j] => e = last)
  /\ IF submitted[j] = Nothing THEN \A e \in told : e.to # "applied"
     ELSE /\ \E e \in told : e.to = "applied" /\ e.at = submitted[j]
          /\ \A e \in told : e.to = "applied" => e.at <= submitted[j]

UpcomingInv ==
  /\ UpcomingTypeOK
  /\ ~misdated => \A j \in Jobs : Tells(j)

-----------------------------------------------------------------------------
(* The operators of the rules.                                             *)

LEMMA LeastTick ==
  ASSUME NEW T \in SUBSET Nat, T # {}
  PROVE  \E x \in T : \A y \in T : x <= y
<1>1. PICK R : IsWellFoundedOn(R, Nat) /\ \A x, y \in Nat : <<y, x>> \in R <=> y < x
  <2> DEFINE Less == OpToRel(<, Nat)
  <2>1. IsWellFoundedOn(Less, Nat)
    BY NatLessThanWellFounded
  <2>2. \A x, y \in Nat : <<y, x>> \in Less <=> y < x
    BY DEF OpToRel
  <2> HIDE DEF Less
  <2> QED BY <2>1, <2>2
<1>2. PICK x \in T : \A y \in T : ~ (<<y, x>> \in R)
  BY <1>1, WFMin
<1>3. ASSUME NEW y \in T PROVE x <= y
  <2>1. x \in Nat /\ y \in Nat
    OBVIOUS
  <2>2. ~(y < x)
    BY <1>1, <1>2, <2>1
  <2> QED BY <2>1, <2>2
<1> QED BY <1>3

\* A set of ticks that is not empty has a last one.
LEMMA LastTick ==
  ASSUME NEW T \in SUBSET Ticks, T # {}
  PROVE  Max(T) \in T /\ \A t \in T : t <= Max(T)
<1> DEFINE Up == {n \in Nat : Horizon - n \in T}
<1>1. PICK t \in T : TRUE
  OBVIOUS
<1>2. Horizon - t \in Up
  BY <1>1, DefaultsOK DEF Ticks
<1>3. PICK n \in Up : \A m \in Up : n <= m
  <2> HIDE DEF Up
  <2>1. Up \in SUBSET Nat
    BY DEF Up
  <2> QED BY <1>2, <2>1, LeastTick
<1>4. ASSUME NEW x \in T PROVE Horizon - n >= x
  <2>1. Horizon - x \in Up
    BY DefaultsOK DEF Ticks
  <2>2. n <= Horizon - x
    BY <1>3, <2>1
  <2> QED BY <1>3, <2>2, DefaultsOK DEF Ticks
<1>5. Horizon - n \in T
  BY <1>3
<1>6. \E x \in T : \A y \in T : x >= y
  BY <1>4, <1>5
<1>7. Max(T) \in T /\ \A y \in T : Max(T) >= y
  BY <1>6 DEF Max
<1> QED BY <1>7, DefaultsOK DEF Ticks

\* It is the only one that no other exceeds.
LEMMA LastIs ==
  ASSUME NEW T \in SUBSET Ticks, NEW t \in T, \A u \in T : u <= t
  PROVE  Max(T) = t
<1>1. Max(T) \in T /\ t <= Max(T) /\ Max(T) <= t
  BY LastTick
<1>2. Max(T) \in Ticks /\ t \in Ticks
  BY <1>1
<1>3. Max(T) \in Nat /\ t \in Nat
  BY <1>2, DefaultsOK DEF Ticks
<1> QED BY <1>1, <1>3

\* Under the invariant the last transition of a job says its status and since when.
LEMMA LastTold ==
  ASSUME UpcomingTypeOK, NEW j \in Jobs, Tells(j), status[j] # Nothing
  PROVE  Current(j) = status[j] /\ StageEntry(j) = entered[j]
<1> DEFINE rows == Of(j, transitions)
           last == [job |-> j, to |-> status[j], at |-> entered[j]]
<1>1. last \in rows /\ \A e \in rows : e.at <= entered[j] /\ (e.at = entered[j] => e = last)
  BY DEF Tells
<1>2. \A r \in rows : r.at \in Nat
  BY DefaultsOK DEF UpcomingTypeOK, Ticks, Of
<1>3. Newest(rows) \in rows /\ \A q \in rows : q.at <= Newest(rows).at
  <2>1. \E r \in rows : \A q \in rows : q.at <= r.at
    BY <1>1
  <2> QED BY <2>1 DEF Newest
<1>4. Newest(rows).at = entered[j]
  <2>1. Newest(rows).at <= entered[j] /\ entered[j] <= Newest(rows).at
    BY <1>1, <1>3
  <2> QED BY <1>1, <1>2, <1>3, <2>1
<1>5. Newest(rows) = last
  BY <1>1, <1>3, <1>4
<1> QED BY <1>5 DEF Current, StageEntry

LEMMA ToldAre ==
  ASSUME \A j \in Jobs : Tells(j), UpcomingTypeOK
  PROVE  Told(transitions) = {j \in Jobs : status[j] # Nothing}
<1>1. ASSUME NEW j \in Jobs PROVE j \in Told(transitions) <=> Of(j, transitions) # {}
  BY DEF Told, Of
<1>2. ASSUME NEW j \in Jobs PROVE Of(j, transitions) # {} <=> status[j] # Nothing
  BY DEF Tells
<1>3. Told(transitions) \subseteq Jobs
  BY DEF Told, UpcomingTypeOK
<1> QED BY <1>1, <1>2, <1>3

-----------------------------------------------------------------------------
(* Types.                                                                  *)

\* The batch of a rule, over times that are ticks.
LEMMA BatchTyped ==
  ASSUME UpcomingTypeOK, NEW kind \in Kinds, NEW stages, NEW time \in Ticks, NEW threshold \in Nat \ {0},
         NEW dates, \A j \in Told(transitions) : dates[j] \in Ticks
  PROVE  Batch(kind, stages, dates, time, threshold) \subseteq Alerts
<1> DEFINE late == {j \in Told(transitions) : Current(j) \in stages /\ dates[j] + threshold < time}
           days == {time - dates[j] : j \in late}
<1>1. CASE late = {}
  BY <1>1 DEF Batch
<1>2. CASE late # {}
  <2>1. late \subseteq Jobs
    BY DEF Told, UpcomingTypeOK
  <2>2. days \in SUBSET Ticks
    BY DefaultsOK DEF Ticks
  <2>3. days # {}
    BY <1>2
  <2>4. Max(days) \in Ticks
    <3> HIDE DEF days
    <3> QED BY <2>2, <2>3, LastTick
  <2>5. [kind |-> kind, jobs |-> late, days |-> Max(days)] \in Alerts
    BY <2>1, <2>4 DEF Alerts
  <2>6. Batch(kind, stages, dates, time, threshold) = {[kind |-> kind, jobs |-> late, days |-> Max(days)]}
    BY <1>2 DEF Batch
  <2> QED BY <2>5, <2>6
<1> QED BY <1>1, <1>2

LEMMA DatesTyped ==
  ASSUME UpcomingTypeOK, NEW j \in Told(transitions)
  PROVE  StageEntry(j) \in Ticks /\ LastTouchpoint(j) \in Ticks
<1> DEFINE rows == Of(j, transitions)
           times == {e.at : e \in rows}
<1>1. rows # {} /\ \A r \in rows : r.at \in Ticks
  BY DEF Told, Of, UpcomingTypeOK
<1>2. times \in SUBSET Ticks /\ times # {}
  BY <1>1
<1>3. Max(times) \in times /\ \A t \in times : t <= Max(times)
  <2> HIDE DEF times
  <2> QED BY <1>2, LastTick
<1>4. \E r \in rows : \A q \in rows : q.at <= r.at
  BY <1>3
<1>5. Newest(rows) \in rows
  BY <1>4 DEF Newest
<1>6. StageEntry(j) \in Ticks
  BY <1>1, <1>5 DEF StageEntry
<1> DEFINE touched == {StageEntry(j)} \cup {e.at : e \in Of(j, followups)}
<1>7. touched \in SUBSET Ticks /\ touched # {}
  BY <1>6 DEF Of, UpcomingTypeOK
<1>8. Max(touched) \in Ticks
  <2> HIDE DEF touched
  <2> QED BY <1>7, LastTick
<1> QED BY <1>6, <1>8 DEF LastTouchpoint

LEMMA AlertedTyped ==
  ASSUME UpcomingTypeOK, NEW time \in Ticks
  PROVE  Alerted(time) \subseteq Alerts
<1>1. \A j \in Told(transitions) : Entries[j] \in Ticks
  BY DatesTyped DEF Entries
<1>2. StaleToApply(time) \subseteq Alerts /\ PostInterview(time) \subseteq Alerts
  BY <1>1, BatchTyped, DefaultsOK DEF StaleToApply, PostInterview, Kinds
<1>3. PostApplication(time) \subseteq Alerts
  <2> DEFINE touched == [j \in Told(transitions) |-> LastTouchpoint(j)]
  <2>1. \A j \in Told(transitions) : touched[j] \in Ticks
    BY DatesTyped
  <2> HIDE DEF touched
  <2>2. Batch("post_application", {"applied", "screening"}, touched, time, Default.application) \subseteq Alerts
    BY <2>1, BatchTyped, DefaultsOK DEF Kinds
  <2> QED BY <2>2 DEF PostApplication, touched
<1>4. Inactivity(time) \subseteq Alerts
  <2>1. SUFFICES ASSUME AppliedEver # {}, Max(AppliedEver) + Default.inactivity < time
                 PROVE  [kind |-> "inactivity", jobs |-> {}, days |-> time - Max(AppliedEver)] \in Alerts
    BY DEF Inactivity
  <2>2. AppliedEver \in SUBSET Ticks
    BY DEF AppliedEver, UpcomingTypeOK
  <2>3. Max(AppliedEver) \in Ticks
    BY <2>1, <2>2, LastTick
  <2>4. time - Max(AppliedEver) \in Ticks
    BY <2>1, <2>3, DefaultsOK DEF Ticks
  <2> QED BY <2>4 DEF Alerts, Kinds
<1> QED BY <1>2, <1>3, <1>4 DEF Alerted

LEMMA UpcomingInitHolds == UpcomingInit => UpcomingInv
<1> SUFFICES ASSUME UpcomingInit PROVE UpcomingInv
  OBVIOUS
<1>1. 0 \in Ticks
  BY DefaultsOK DEF Ticks
<1>2. UpcomingTypeOK
  BY <1>1 DEF UpcomingInit, UpcomingTypeOK, Unasked
<1>3. \A j \in Jobs : Tells(j)
  BY DEF UpcomingInit, Tells, Of
<1> QED BY <1>2, <1>3 DEF UpcomingInv

\* The times a request may give: of its own transaction, or of one left open.
LEMMA TickTyped ==
  ASSUME UpcomingTypeOK, Tick
  PROVE  /\ clock' = clock + 1 /\ clock' \in Ticks /\ clock \in Nat
         /\ \A c \in Conns : Dated(c) \in Ticks
         /\ \A c \in Conns : Committed(c) => open' \in [Conns -> Ticks \cup {Nothing}]
<1>1. clock \in Nat /\ clock' = clock + 1 /\ clock' \in Ticks
  BY DefaultsOK DEF Tick, Ticks, UpcomingTypeOK
<1>2. \A c \in Conns : Dated(c) \in Ticks
  BY <1>1 DEF Dated, UpcomingTypeOK
<1>3. \A c \in Conns : Committed(c) => open' \in [Conns -> Ticks \cup {Nothing}]
  BY DEF Committed, UpcomingTypeOK
<1> QED BY <1>1, <1>2, <1>3

LEMMA UpcomingTypeStep == ASSUME UpcomingTypeOK, [UpcomingNext]_upcomingVars PROVE UpcomingTypeOK'
<1>1. ASSUME Unanswered PROVE answer' \in [how : {"unasked", "ok", "error"}, alerts : SUBSET Alerts]
  BY <1>1 DEF Unanswered, Unasked
<1>2. CASE Wait
  BY <1>1, <1>2, TickTyped DEF Wait, UpcomingTypeOK, data, history
<1>3. ASSUME NEW c \in Conns, Edit(c) PROVE UpcomingTypeOK'
  BY <1>1, <1>3, TickTyped DEF Edit, UpcomingTypeOK
<1>4. ASSUME NEW c \in Conns, Configure(c) PROVE UpcomingTypeOK'
  BY <1>1, <1>4, TickTyped DEF Configure, UpcomingTypeOK, history
<1>5. ASSUME NEW c \in Conns, GetUpcomingSteps(c) PROVE UpcomingTypeOK'
  <2>1. clock' \in Ticks
    BY <1>5, TickTyped DEF GetUpcomingSteps
  <2>2. open' \in [Conns -> Ticks \cup {Nothing}]
    BY <1>5, <2>1, TickTyped DEF GetUpcomingSteps, UpcomingTypeOK
  <2>3. answer' \in [how : {"unasked", "ok", "error"}, alerts : SUBSET Alerts]
    BY <1>5, <2>1, AlertedTyped DEF GetUpcomingSteps
  <2> QED BY <1>5, <2>1, <2>2, <2>3 DEF GetUpcomingSteps, UpcomingTypeOK, data, history
<1>6. ASSUME NEW c \in Conns, NEW j \in Jobs, FollowUp(j, c) PROVE UpcomingTypeOK'
  <2>1. PICK at \in {Dated(c)} \cup 0..clock : followups' = followups \cup {[job |-> j, at |-> at]}
    BY <1>6 DEF FollowUp
  <2>2. at \in Ticks
    BY <1>6, TickTyped, DefaultsOK DEF FollowUp, Ticks, UpcomingTypeOK
  <2>3. followups' \subseteq [job : Jobs, at : Ticks]
    BY <2>1, <2>2 DEF UpcomingTypeOK
  <2> QED BY <1>1, <1>6, <2>3, TickTyped DEF FollowUp, UpcomingTypeOK, history
<1>7. ASSUME NEW c \in Conns, NEW j \in Jobs, DeleteApplication(j, c) PROVE UpcomingTypeOK'
  BY <1>1, <1>7, TickTyped DEF DeleteApplication, UpcomingTypeOK
<1>8. ASSUME NEW c \in Conns, NEW j \in Jobs, NEW s \in Stages, Move(j, s, c) PROVE UpcomingTypeOK'
  <2>1. clock' \in Ticks /\ Dated(c) \in Ticks /\ open' \in [Conns -> Ticks \cup {Nothing}]
    BY <1>8, TickTyped DEF Move
  <2>2. /\ status' \in [Jobs -> Stages \cup {Nothing}]
        /\ transitions' \subseteq [job : Jobs, to : Stages \cup {Nothing}, at : Ticks]
        /\ entered' \in [Jobs -> Ticks] /\ submitted' \in [Jobs -> Ticks \cup {Nothing}]
        /\ misdated' \in BOOLEAN
    BY <1>8, <2>1 DEF Move, UpcomingTypeOK
  <2> QED BY <1>1, <1>8, <2>1, <2>2 DEF Move, UpcomingTypeOK
<1>9. CASE UNCHANGED upcomingVars
  BY <1>9 DEF upcomingVars, data, history, UpcomingTypeOK
<1> QED BY <1>2, <1>3, <1>4, <1>5, <1>6, <1>7, <1>8, <1>9 DEF UpcomingNext

-----------------------------------------------------------------------------
(* Timelines.                                                              *)

LEMMA TellsStays ==
  ASSUME NEW j \in Jobs, Tells(j), clock \in Nat, clock' \in Nat, clock <= clock', entered[j] \in Nat,
         status'[j] = status[j], Of(j, transitions)' = Of(j, transitions),
         entered'[j] = entered[j], submitted'[j] = submitted[j]
  PROVE  Tells(j)'
  BY DEF Tells

LEMMA UpcomingStep == ASSUME UpcomingInv, [UpcomingNext]_upcomingVars PROVE UpcomingInv'
<1>1. UpcomingTypeOK /\ UpcomingTypeOK'
  BY UpcomingTypeStep DEF UpcomingInv
<1>2. clock \in Nat /\ clock' \in Nat /\ clock <= clock' /\ \A j \in Jobs : entered[j] \in Nat
  <2>1. clock' = clock \/ clock' = clock + 1
    BY DEF UpcomingNext, upcomingVars, Wait, Edit, Configure, GetUpcomingSteps, FollowUp,
           DeleteApplication, Move, Tick
  <2>2. clock \in Nat /\ \A j \in Jobs : entered[j] \in Nat
    BY <1>1, DefaultsOK DEF UpcomingTypeOK, Ticks
  <2> QED BY <2>1, <2>2
<1> SUFFICES ASSUME ~misdated', NEW j \in Jobs PROVE Tells(j)'
  BY <1>1 DEF UpcomingInv
<1>3. ~misdated
  BY <1>1 DEF UpcomingNext, upcomingVars, Wait, Edit, Configure, GetUpcomingSteps, FollowUp,
         DeleteApplication, Move, history, UpcomingTypeOK
<1>4. Tells(j)
  BY <1>3 DEF UpcomingInv
<1>5. CASE UNCHANGED <<status, transitions, entered, submitted>>
  BY <1>2, <1>4, <1>5, TellsStays DEF Of
<1>6. ASSUME NEW c \in Conns, NEW k \in Jobs, DeleteApplication(k, c) PROVE Tells(j)'
  <2>1. CASE j = k
    BY <1>1, <1>2, <1>4, <1>6, <2>1 DEF DeleteApplication, Tells, Of, UpcomingTypeOK
  <2>2. CASE j # k
    <3>1. Of(j, transitions)' = Of(j, transitions)
      BY <1>6, <2>2 DEF DeleteApplication, Of
    <3> QED BY <1>1, <1>2, <1>4, <1>6, <2>2, <3>1, TellsStays DEF DeleteApplication, UpcomingTypeOK
  <2> QED BY <2>1, <2>2
<1>7. ASSUME NEW c \in Conns, NEW k \in Jobs, NEW s \in Stages, Move(k, s, c) PROVE Tells(j)'
  <2>1. Dated(c) = clock'
    BY <1>7 DEF Move
  <2>2. CASE j = k
    <3> DEFINE new == [job |-> j, to |-> s, at |-> clock']
    <3>1. Of(j, transitions)' = Of(j, transitions) \cup {new}
      BY <1>7, <2>1, <2>2 DEF Move, Of
    <3>2. status'[j] = s /\ s # Nothing /\ entered'[j] = clock' /\ clock' = clock + 1
      BY <1>1, <1>7, <2>2, DefaultsOK DEF Move, Tick, UpcomingTypeOK
    <3>3. \A e \in Of(j, transitions) : e.at \in Nat /\ e.at < clock' /\ e.to # Nothing
      BY <1>1, <1>2, <1>4, <3>2, DefaultsOK DEF Tells, Of, UpcomingTypeOK, Ticks
    <3>4. submitted'[j] = IF s = "applied" THEN clock' ELSE submitted[j]
      BY <1>1, <1>7, <2>2 DEF Move, UpcomingTypeOK
    <3>5. /\ entered'[j] <= clock' /\ \A e \in Of(j, transitions)' : e.to # Nothing
          /\ new \in Of(j, transitions)'
          /\ \A e \in Of(j, transitions)' : e.at <= entered'[j] /\ (e.at = entered'[j] => e = new)
      BY <1>2, <3>1, <3>2, <3>3
    <3>6. CASE s = "applied"
      <4>1. submitted'[j] = clock' /\ clock' # Nothing
        BY <1>2, <3>4, <3>6, DefaultsOK
      <4> QED BY <3>1, <3>2, <3>5, <3>6, <4>1 DEF Tells
    <3>7. CASE s # "applied"
      <4>1. submitted'[j] = submitted[j]
        BY <3>4, <3>7
      <4> QED BY <1>4, <3>1, <3>2, <3>5, <3>7, <4>1 DEF Tells
    <3> QED BY <3>6, <3>7
  <2>3. CASE j # k
    <3>1. Of(j, transitions)' = Of(j, transitions)
      BY <1>7, <2>3 DEF Move, Of
    <3> QED BY <1>1, <1>2, <1>4, <1>7, <2>3, <3>1, TellsStays DEF Move, UpcomingTypeOK
  <2> QED BY <2>2, <2>3
<1>8. ASSUME NEW c \in Conns, Edit(c) PROVE FALSE
  BY <1>8 DEF Edit
<1> QED
  BY <1>5, <1>6, <1>7, <1>8 DEF UpcomingNext, upcomingVars, Wait, Configure, GetUpcomingSteps, FollowUp,
     data, history

-----------------------------------------------------------------------------
(* Answers.                                                                *)

\* How long an application has been quiet at a time, and which are due then.
QuietAt(j, time) ==
  time - Max({entered[j]} \cup
    IF status[j] \in {"applied", "screening"} THEN {e.at : e \in Of(j, followups)} ELSE {})

DueAt(stages, threshold, time) ==
  {j \in Jobs : status[j] \in stages /\ QuietAt(j, time) > threshold}

\* The alert of a rule, when it names what is due.
AlertOf(kind, due, time) ==
  IF due = {} THEN {}
  ELSE {[kind |-> kind, jobs |-> due, days |-> Max({QuietAt(j, time) : j \in due})]}

LEMMA RuleTrue ==
  ASSUME UpcomingTypeOK, \A j \in Jobs : Tells(j),
         NEW kind, NEW stages, Nothing \notin stages, NEW time \in Nat, NEW threshold \in Nat,
         NEW dates, \A j \in Jobs : status[j] \in stages =>
                      dates[j] \in Nat /\ QuietAt(j, time) = time - dates[j]
  PROVE  Batch(kind, stages, dates, time, threshold) = AlertOf(kind, DueAt(stages, threshold, time), time)
<1> DEFINE late == {j \in Told(transitions) : Current(j) \in stages /\ dates[j] + threshold < time}
           due == DueAt(stages, threshold, time)
<1>1. late = due
  <2>1. ASSUME NEW j \in Jobs
        PROVE  j \in late <=> status[j] \in stages /\ dates[j] + threshold < time
    BY LastTold, ToldAre
  <2>2. ASSUME NEW j \in Jobs
        PROVE  j \in due <=> status[j] \in stages /\ dates[j] + threshold < time
    <3>1. CASE status[j] \in stages
      <4>1. QuietAt(j, time) = time - dates[j] /\ dates[j] \in Nat
        BY <3>1
      <4>2. QuietAt(j, time) > threshold <=> dates[j] + threshold < time
        BY <4>1
      <4> QED BY <3>1, <4>2 DEF DueAt
    <3>2. CASE status[j] \notin stages
      BY <3>2 DEF DueAt
    <3> QED BY <3>1, <3>2
  <2>3. late \subseteq Jobs /\ due \subseteq Jobs
    BY ToldAre DEF DueAt
  <2> QED
    <3> HIDE DEF late, due
    <3> QED BY <2>1, <2>2, <2>3
<1>2. {time - dates[j] : j \in late} = {QuietAt(j, time) : j \in late}
  <2>1. \A j \in late : time - dates[j] = QuietAt(j, time)
    <3>1. \A j \in due : j \in Jobs /\ status[j] \in stages
      BY DEF DueAt
    <3> HIDE DEF late, due
    <3> QED BY <1>1, <3>1
  <2> HIDE DEF late
  <2> QED BY <2>1
<1>3. Batch(kind, stages, dates, time, threshold) =
        IF late = {} THEN {} ELSE {[kind |-> kind, jobs |-> late, days |-> Max({time - dates[j] : j \in late})]}
  BY DEF Batch
<1> HIDE DEF late, due
<1>4. Batch(kind, stages, dates, time, threshold) =
        IF due = {} THEN {} ELSE {[kind |-> kind, jobs |-> due, days |-> Max({QuietAt(j, time) : j \in due})]}
  BY <1>1, <1>2, <1>3
<1> QED BY <1>4 DEF AlertOf, due

LEMMA AlertedTrue ==
  ASSUME UpcomingTypeOK, \A j \in Jobs : Tells(j), NEW time \in Nat
  PROVE  /\ StaleToApply(time) = AlertOf("stale_to_apply", DueAt({"to_apply"}, Default.stale, time), time)
         /\ PostInterview(time) = AlertOf("post_interview", DueAt({"interview"}, Default.interview, time), time)
         /\ PostApplication(time) =
              AlertOf("post_application", DueAt({"applied", "screening"}, Default.application, time), time)
<1>1. ASSUME NEW j \in Jobs, status[j] # Nothing
      PROVE  /\ j \in Told(transitions) /\ StageEntry(j) = entered[j] /\ entered[j] \in Ticks
             /\ entered[j] \in Nat /\ {entered[j]} \in SUBSET Ticks
  BY <1>1, LastTold, ToldAre, DefaultsOK DEF UpcomingTypeOK, Ticks
<1>2. ASSUME NEW j \in Jobs, status[j] \in {"to_apply", "interview"}
      PROVE  Entries[j] \in Nat /\ QuietAt(j, time) = time - Entries[j]
  <2>1. status[j] # Nothing
    BY <1>2, DefaultsOK DEF Stages
  <2>2. Entries[j] = entered[j]
    BY <1>1, <2>1 DEF Entries
  <2>3. Max({entered[j]}) = entered[j]
    BY <1>1, <2>1, LastIs
  <2>4. {entered[j]} \cup {} = {entered[j]}
    OBVIOUS
  <2>5. QuietAt(j, time) = time - Max({entered[j]})
    BY <1>2, <2>4 DEF QuietAt
  <2> QED BY <1>1, <2>1, <2>2, <2>3, <2>5
<1> DEFINE touched == [j \in Told(transitions) |-> LastTouchpoint(j)]
<1>3. ASSUME NEW j \in Jobs, status[j] \in {"applied", "screening"}
      PROVE  touched[j] \in Nat /\ QuietAt(j, time) = time - touched[j]
  <2>1. status[j] # Nothing
    BY <1>3, DefaultsOK DEF Stages
  <2>2. touched[j] = Max({entered[j]} \cup {e.at : e \in Of(j, followups)})
    BY <1>1, <2>1 DEF LastTouchpoint
  <2>3. LastTouchpoint(j) \in Ticks
    BY <1>1, <2>1, DatesTyped
  <2>4. touched[j] \in Nat
    BY <1>1, <2>1, <2>3, DefaultsOK DEF Ticks
  <2> QED BY <1>3, <2>2, <2>4 DEF QuietAt
<1> HIDE DEF touched
<1>4. /\ Default.stale \in Nat /\ Default.interview \in Nat /\ Default.application \in Nat
      /\ Nothing \notin {"to_apply"} /\ Nothing \notin {"interview"} /\ Nothing \notin {"applied", "screening"}
  BY DefaultsOK DEF Stages
<1>5. StaleToApply(time) = AlertOf("stale_to_apply", DueAt({"to_apply"}, Default.stale, time), time)
  BY <1>2, <1>4, RuleTrue DEF StaleToApply
<1>6. PostInterview(time) = AlertOf("post_interview", DueAt({"interview"}, Default.interview, time), time)
  BY <1>2, <1>4, RuleTrue DEF PostInterview
<1>7. PostApplication(time) = Batch("post_application", {"applied", "screening"}, touched, time, Default.application)
  BY DEF PostApplication, touched
<1>8. PostApplication(time) =
        AlertOf("post_application", DueAt({"applied", "screening"}, Default.application, time), time)
  BY <1>3, <1>4, <1>7, RuleTrue
<1> QED BY <1>5, <1>6, <1>8

\* The newest of what was ever submitted is the newest of what the user kept.
LEMMA SubmittedTrue ==
  ASSUME UpcomingTypeOK, \A j \in Jobs : Tells(j)
  PROVE  LET made == {submitted[j] : j \in Jobs} \ {Nothing} IN
         (AppliedEver # {} <=> made # {}) /\ (made # {} => Max(AppliedEver) = Max(made))
<1> DEFINE made == {submitted[j] : j \in Jobs} \ {Nothing}
<1>1. made \in SUBSET Ticks /\ AppliedEver \in SUBSET Ticks
  BY DEF UpcomingTypeOK, AppliedEver
<1>2. ASSUME NEW t \in made PROVE t \in AppliedEver
  <2>1. PICK j \in Jobs : t = submitted[j] /\ t # Nothing
    BY <1>2
  <2>2. PICK e \in Of(j, transitions) : e.to = "applied" /\ e.at = submitted[j]
    BY <2>1 DEF Tells
  <2> QED BY <2>1, <2>2 DEF AppliedEver, Of
<1>3. ASSUME NEW t \in AppliedEver PROVE \E m \in made : t <= m
  <2>1. PICK e \in transitions : e.to = "applied" /\ e.at = t
    BY <1>3 DEF AppliedEver
  <2>2. e.job \in Jobs /\ e \in Of(e.job, transitions)
    BY <2>1 DEF UpcomingTypeOK, Of
  <2>3. submitted[e.job] # Nothing /\ e.at <= submitted[e.job]
    BY <2>1, <2>2 DEF Tells
  <2> QED BY <2>1, <2>2, <2>3
<1> HIDE DEF made
<1>4. ASSUME made # {} PROVE Max(AppliedEver) = Max(made)
  <2>1. Max(made) \in made /\ \A t \in made : t <= Max(made)
    BY <1>1, <1>4, LastTick
  <2>2. Max(made) \in AppliedEver
    BY <1>2, <2>1
  <2>3. ASSUME NEW t \in AppliedEver PROVE t <= Max(made)
    <3>1. PICK m \in made : t <= m
      BY <1>3
    <3>2. m <= Max(made) /\ m \in Ticks /\ t \in Ticks /\ Max(made) \in Ticks
      BY <1>1, <2>1
    <3>3. m \in Nat /\ t \in Nat /\ Max(made) \in Nat
      BY <3>2, DefaultsOK DEF Ticks
    <3> QED BY <3>1, <3>2, <3>3
  <2> QED BY <1>1, <2>2, <2>3, LastIs
<1>5. AppliedEver # {} <=> made # {}
  BY <1>2, <1>3
<1> QED BY <1>4, <1>5 DEF made

\* What an answer given now says of each kind.
LEMMA GivenOfKind ==
  ASSUME UpcomingTypeOK, \A j \in Jobs : Tells(j), NEW time \in Nat
  PROVE  LET of(kind) == {a \in Alerted(time) : a.kind = kind} IN
         /\ of("stale_to_apply") = AlertOf("stale_to_apply", DueAt({"to_apply"}, Default.stale, time), time)
         /\ of("post_interview") = AlertOf("post_interview", DueAt({"interview"}, Default.interview, time), time)
         /\ of("post_application") =
              AlertOf("post_application", DueAt({"applied", "screening"}, Default.application, time), time)
         /\ of("inactivity") = Inactivity(time)
<1>1. /\ \A a \in StaleToApply(time) : a.kind = "stale_to_apply"
      /\ \A a \in PostInterview(time) : a.kind = "post_interview"
      /\ \A a \in PostApplication(time) : a.kind = "post_application"
  <2>1. ASSUME NEW kind, NEW due, NEW a \in AlertOf(kind, due, time) PROVE a.kind = kind
    <3>1. due # {}
      BY <2>1 DEF AlertOf
    <3>2. a = [kind |-> kind, jobs |-> due, days |-> Max({QuietAt(j, time) : j \in due})]
      BY <2>1, <3>1 DEF AlertOf
    <3> QED BY <3>2
  <2> QED BY <2>1, AlertedTrue
<1>2. \A a \in Inactivity(time) : a.kind = "inactivity"
  BY DEF Inactivity
<1> QED BY <1>1, <1>2, AlertedTrue DEF Alerted

\* A step that answers answers what is true then; any other one takes the answer
\* back or leaves all as it is.
LEMMA AnswerStep ==
  ASSUME UpcomingInv, [UpcomingNext]_upcomingVars, Answered'
  PROVE  \/ UNCHANGED upcomingVars
         \/ /\ clock' \in Nat /\ UNCHANGED <<data, history>> /\ answer'.alerts = Alerted(clock')
<1>1. ASSUME Unanswered PROVE FALSE
  BY <1>1 DEF Answered, Unanswered, Unasked
<1>2. ASSUME NEW c \in Conns, GetUpcomingSteps(c)
      PROVE  clock' \in Nat /\ UNCHANGED <<data, history>> /\ answer'.alerts = Alerted(clock')
  <2>1. clock' \in Nat
    BY <1>2, TickTyped, DefaultsOK DEF UpcomingInv, GetUpcomingSteps, Ticks
  <2> QED BY <1>2, <2>1 DEF GetUpcomingSteps, Answered
<1> QED
  BY <1>1, <1>2 DEF UpcomingNext, Wait, Edit, Configure, FollowUp, DeleteApplication, Move

LEMMA NudgesStep ==
  ASSUME UpcomingInv, NudgesDue, [UpcomingNext]_upcomingVars
  PROVE  NudgesDue'
<1> SUFFICES ASSUME Answered', ~misdated' PROVE NudgesDue'
  BY DEF NudgesDue
<1>1. CASE UNCHANGED upcomingVars
  <2>1. \A j : Quiet(j)' = Quiet(j)
    BY <1>1 DEF upcomingVars, data, history, Quiet, Of
  <2>2. \A stages, threshold : Due(stages, threshold)' = Due(stages, threshold)
    BY <1>1, <2>1 DEF upcomingVars, data, Due
  <2>3. \A kind : Given(kind)' = Given(kind)
    BY <1>1 DEF upcomingVars, Given
  <2>4. Answered /\ ~misdated
    BY <1>1 DEF upcomingVars, history, Answered
  <2>5. \A due : {Quiet(j)' : j \in due} = {Quiet(j) : j \in due}
    BY <2>1
  <2> QED BY <2>2, <2>3, <2>4, <2>5 DEF NudgesDue
<1>2. CASE clock' \in Nat /\ UNCHANGED <<data, history>> /\ answer'.alerts = Alerted(clock')
  <2>1. \A j \in Jobs : Tells(j)
    BY <1>2 DEF history, UpcomingInv
  <2>2. \A j \in Jobs : Quiet(j)' = QuietAt(j, clock')
    BY <1>2 DEF data, history, Quiet, QuietAt, Of
  <2>3. \A stages, threshold : Due(stages, threshold)' = DueAt(stages, threshold, clock')
    BY <1>2, <2>2 DEF data, history, Due, DueAt
  <2>4. /\ Given("stale_to_apply")' = AlertOf("stale_to_apply", DueAt({"to_apply"}, Default.stale, clock'), clock')
        /\ Given("post_interview")' = AlertOf("post_interview", DueAt({"interview"}, Default.interview, clock'), clock')
        /\ Given("post_application")' =
              AlertOf("post_application", DueAt({"applied", "screening"}, Default.application, clock'), clock')
    BY <1>2, <2>1, GivenOfKind DEF UpcomingInv, Given
  <2>5. ASSUME NEW kind, NEW stages, NEW threshold,
               Given(kind)' = AlertOf(kind, DueAt(stages, threshold, clock'), clock')
        PROVE  LET due == Due(stages, threshold)' IN
               IF due = {} THEN Given(kind)' = {}
               ELSE \E a \in Given(kind)' : a.jobs = due /\ a.days = Max({Quiet(j)' : j \in due})
    <3> DEFINE due == DueAt(stages, threshold, clock')
    <3>1. due \subseteq Jobs
      BY DEF DueAt
    <3>2. {Quiet(j)' : j \in due} = {QuietAt(j, clock') : j \in due}
      BY <2>2, <3>1
    <3> HIDE DEF due
    <3>3. IF due = {} THEN Given(kind)' = {}
          ELSE \E a \in Given(kind)' : a.jobs = due /\ a.days = Max({Quiet(j)' : j \in due})
      <4>1. CASE due = {}
        BY <2>5, <4>1 DEF AlertOf, due
      <4>2. CASE due # {}
        <5> DEFINE a == [kind |-> kind, jobs |-> due, days |-> Max({QuietAt(j, clock') : j \in due})]
        <5>1. a \in AlertOf(kind, due, clock')
          BY <4>2 DEF AlertOf
        <5>2. a \in Given(kind)'
          BY <2>5, <5>1 DEF due
        <5>3. a.jobs = due /\ a.days = Max({Quiet(j)' : j \in due})
          BY <3>2
        <5> QED BY <4>2, <5>2, <5>3
      <4> QED BY <4>1, <4>2
    <3> QED BY <2>3, <3>3 DEF due
  <2>6. ASSUME NEW rule \in {<<"stale_to_apply", {"to_apply"}, Default.stale>>,
                             <<"post_interview", {"interview"}, Default.interview>>,
                             <<"post_application", {"applied", "screening"}, Default.application>>}
        PROVE  LET due == Due(rule[2], rule[3])' IN
               IF due = {} THEN Given(rule[1])' = {}
               ELSE \E a \in Given(rule[1])' : a.jobs = due /\ a.days = Max({Quiet(j)' : j \in due})
    <3>1. CASE rule = <<"stale_to_apply", {"to_apply"}, Default.stale>>
      <4>1. rule[1] = "stale_to_apply" /\ rule[2] = {"to_apply"} /\ rule[3] = Default.stale
        BY <3>1
      <4>2. Given(rule[1])' = AlertOf(rule[1], DueAt(rule[2], rule[3], clock'), clock')
        BY <2>4, <4>1
      <4> QED BY <2>5, <4>2
    <3>2. CASE rule = <<"post_interview", {"interview"}, Default.interview>>
      <4>1. rule[1] = "post_interview" /\ rule[2] = {"interview"} /\ rule[3] = Default.interview
        BY <3>2
      <4>2. Given(rule[1])' = AlertOf(rule[1], DueAt(rule[2], rule[3], clock'), clock')
        BY <2>4, <4>1
      <4> QED BY <2>5, <4>2
    <3>3. CASE rule = <<"post_application", {"applied", "screening"}, Default.application>>
      <4>1. rule[1] = "post_application" /\ rule[2] = {"applied", "screening"} /\ rule[3] = Default.application
        BY <3>3
      <4>2. Given(rule[1])' = AlertOf(rule[1], DueAt(rule[2], rule[3], clock'), clock')
        BY <2>4, <4>1
      <4> QED BY <2>5, <4>2
    <3> QED BY <3>1, <3>2, <3>3
  <2> QED BY <2>6 DEF NudgesDue
<1> QED BY <1>1, <1>2, AnswerStep

LEMMA QuietStep ==
  ASSUME UpcomingInv, QuietTold, [UpcomingNext]_upcomingVars
  PROVE  QuietTold'
<1> SUFFICES ASSUME Answered', ~misdated' PROVE QuietTold'
  BY DEF QuietTold
<1>1. CASE UNCHANGED upcomingVars
  BY <1>1 DEF upcomingVars, data, history, QuietTold, Answered, Given
<1>2. CASE clock' \in Nat /\ UNCHANGED <<data, history>> /\ answer'.alerts = Alerted(clock')
  <2>1. \A j \in Jobs : Tells(j)
    BY <1>2 DEF history, UpcomingInv
  <2>2. Given("inactivity")' = Inactivity(clock')
    BY <1>2, <2>1, GivenOfKind DEF UpcomingInv, Given
  <2>3. Inactivity(clock') # {} <=> AppliedEver # {} /\ Max(AppliedEver) + Default.inactivity < clock'
    BY DEF Inactivity
  <2>4. submitted' = submitted
    BY <1>2 DEF history
  <2> DEFINE made == {submitted[j] : j \in Jobs} \ {Nothing}
  <2>5. (AppliedEver # {} <=> made # {}) /\ (made # {} => Max(AppliedEver) = Max(made))
    BY <2>1, SubmittedTrue DEF UpcomingInv
  <2> HIDE DEF made
  <2>6. Given("inactivity")' # {} <=> made # {} /\ Max(made) + Default.inactivity < clock'
    BY <2>2, <2>3, <2>5
  <2> QED BY <2>4, <2>6 DEF QuietTold, made
<1> QED BY <1>1, <1>2, AnswerStep

\* While every transition carries its own time, an answered request names under
\* each of the three rules of a stage exactly the applications that are due at the
\* time of the answer, with the longest of their quiet times.
THEOREM NudgesDueHolds == UpcomingSpec => []NudgesDue
<1>1. UpcomingInit => UpcomingInv /\ NudgesDue
  BY UpcomingInitHolds DEF UpcomingInit, NudgesDue, Answered, Unasked
<1>2. UpcomingInv /\ NudgesDue /\ [UpcomingNext]_upcomingVars => (UpcomingInv /\ NudgesDue)'
  BY UpcomingStep, NudgesStep
<1> QED BY <1>1, <1>2, PTL DEF UpcomingSpec

\* ... and the inactivity alert exactly when the newest submission of all the
\* applications the user kept is older than the window.
THEOREM QuietToldHolds == UpcomingSpec => []QuietTold
<1>1. UpcomingInit => UpcomingInv /\ QuietTold
  BY UpcomingInitHolds DEF UpcomingInit, QuietTold, Answered, Unasked
<1>2. UpcomingInv /\ QuietTold /\ [UpcomingNext]_upcomingVars => (UpcomingInv /\ QuietTold)'
  BY UpcomingStep, QuietStep
<1> QED BY <1>1, <1>2, PTL DEF UpcomingSpec

\* While no transition is misdated or edited by hand, every timeline tells its
\* application's status, when it was entered, and the last submission.
THEOREM UpcomingInvHolds == UpcomingSpec => []UpcomingInv
  BY UpcomingInitHolds, UpcomingStep, PTL DEF UpcomingSpec
=============================================================================
