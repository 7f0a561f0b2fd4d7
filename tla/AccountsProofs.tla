--------------------------- MODULE AccountsProofs ---------------------------
(***************************************************************************)
(* What Accounts guarantees for every set of e-mails, subjects and requests *)
(* in flight, whatever servers start and stop.                             *)
(***************************************************************************)
EXTENDS Accounts, TLAPS

\* A request that has found its row.
InTransaction == {"starter", "feed", "mark", "commit"}

\* A request is about an e-mail; the row it has found is there, as seeded as the
\* request takes it for.
Known(r) ==
    /\ req[r].pc \in {"find", "link"} => req[r].email \in Emails
    /\ req[r].pc \in InTransaction =>
        /\ req[r].email \in Emails
        /\ users[req[r].email] \in Rows
        /\ req[r].row \in Rows
        /\ req[r].pc \in {"starter", "feed"} /\ req[r].row.seeded =>
               users[req[r].email].seeded

\* A link that is not committed holds the lock of a row that nobody is linked to,
\* for a subject that no row has.
Held(r) ==
    req[r].link =>
        /\ req[r].pc \in InTransaction
        /\ locks[req[r].email] = r
        /\ users[req[r].email].ext = None
        /\ req[r].sub # None => ~Taken(req[r].sub)

\* What a request is about to mark as handled has a feed, or gets one with it.
Feed(r) ==
    LET e == req[r].email IN
    req[r].pc = "mark" \/ (req[r].pc = "commit" /\ req[r].row.seeded) =>
        \/ req[r].seeding \/ scores[e] # {} \/ e \in cleared
        \/ req[r].pc = "commit" /\ users[e].seeded

\* Two links under way are of two subjects.
Apart ==
    \A q, r \in Requests :
        req[q].link /\ req[r].link /\ req[q].sub = req[r].sub
            /\ req[r].sub # None => q = r

Sound(r) == Known(r) /\ Held(r) /\ Feed(r)

\* The inductive invariant: the two promises, and what the requests in flight
\* rely on between their statements and their commit.
Inv ==
    /\ TypeOK
    /\ \A r \in Requests : Sound(r)
    /\ Apart /\ SubjectOneRow /\ StarterNotEmpty

\* No row stands for no row.
LEMMA NoneIsNoRow == None \notin Rows
  BY AccountsAssumption DEF Rows

\* Only the bootstrap administrator's row, and nobody in flight.
LEMMA InitInv == Init => Inv
<1> SUFFICES ASSUME Init PROVE Inv
  OBVIOUS
<1>1. \A r \in Requests : req[r] = Idle
  BY DEF Init
<1>2. TypeOK
  BY DEF Init, TypeOK, Row, Rows, Idle, Records, Steps
<1>3. \A r \in Requests : Sound(r)
  BY <1>1 DEF Sound, Known, Held, Feed, Idle, InTransaction
<1>4. Apart
  BY <1>1 DEF Apart, Idle
<1>5. SubjectOneRow /\ StarterNotEmpty
  BY DEF Init, SubjectOneRow, StarterNotEmpty, Row
<1> QED
  BY <1>2, <1>3, <1>4, <1>5 DEF Inv

-----------------------------------------------------------------------------
(* Steps that change requests and locks only *)

\* A request that has no link under way yet moves on, and keeps the locks.
LEMMA QuietStep ==
    ASSUME Inv, NEW r \in Requests, NEW rec \in Records,
           req' = [req EXCEPT ![r] = rec],
           UNCHANGED <<mode, allow, users, scores, cleared, locks>>,
           ~rec.link \/ (req[r].link /\ rec.sub = req[r].sub
                         /\ rec.email = req[r].email /\ rec.pc \in InTransaction),
           Known(r)', Feed(r)'
    PROVE  Inv'
<1>1. TypeOK'
  BY DEF Inv, TypeOK
<1>2. req'[r] = rec /\ \A q \in Requests \ {r} : req'[q] = req[q]
  BY DEF Inv, TypeOK
<1>3. ASSUME NEW q \in Requests PROVE Known(q)' /\ Feed(q)'
  BY <1>2 DEF Inv, Sound, Known, Feed
<1>4. ASSUME NEW q \in Requests PROVE Held(q)'
  BY <1>2 DEF Inv, Sound, Held, Taken
<1>5. Apart'
  BY <1>2 DEF Inv, Apart
<1>6. SubjectOneRow' /\ StarterNotEmpty'
  BY DEF Inv, SubjectOneRow, StarterNotEmpty
<1> QED
  BY <1>1, <1>3, <1>4, <1>5, <1>6 DEF Inv, Sound

LEMMA BeginStep == ASSUME Inv, NEW r \in Requests, Begin(r) PROVE Inv'
<1>1. PICK rec \in Records :
        /\ req' = [req EXCEPT ![r] = rec]
        /\ ~rec.link /\ rec.pc \in {"find", "denied"} /\ rec.email \in Emails
  <2>0. Idle \in Records
    BY DEF Idle, Records, Steps
  <2>1. CASE mode = "bypass"
    <3> DEFINE new == [Idle EXCEPT !.pc = "find", !.email = DevEmail]
    <3>1. new \in Records /\ new.pc = "find" /\ ~new.link /\ new.email = DevEmail
      BY <2>0, AccountsAssumption DEF Records, Steps, Idle
    <3>2. req' = [req EXCEPT ![r] = new]
      BY <2>1 DEF Begin
    <3> QED
      BY <3>1, <3>2, AccountsAssumption
  <2>2. CASE mode # "bypass"
    <3>1. PICK p \in Principals : req' = [req EXCEPT ![r] =
              [Idle EXCEPT !.pc = IF p[1] \in allow /\ p[2] # None THEN "find" ELSE "denied",
                           !.email = p[1], !.sub = p[2]]]
      BY <2>2 DEF Begin
    <3> DEFINE to == IF p[1] \in allow /\ p[2] # None THEN "find" ELSE "denied"
               new == [Idle EXCEPT !.pc = to, !.email = p[1], !.sub = p[2]]
    <3>2. p[1] \in Emails /\ p[2] \in Subjects \cup {None} /\ to \in {"find", "denied"}
      BY AccountsAssumption
    <3>3. new \in Records /\ new.pc = to /\ ~new.link /\ new.email = p[1]
      BY <2>0, <3>2 DEF Records, Steps, Idle
    <3> QED
      BY <3>1, <3>2, <3>3
  <2> QED
    BY <2>1, <2>2
<1>2. req'[r] = rec
  BY <1>1 DEF Inv, TypeOK
<1>3. Known(r)' /\ Feed(r)'
  BY <1>1, <1>2 DEF Known, Feed, InTransaction
<1> QED
  BY <1>1, <1>3, QuietStep DEF Begin

LEMMA FindStep == ASSUME Inv, NEW r \in Requests, Find(r) PROVE Inv'
<1>1. req[r] \in Records /\ ~req[r].link
  BY DEF Inv, TypeOK, Find, Sound, Held, InTransaction
<1>2. CASE req' = [req EXCEPT ![r].pc = "link"]
  <2> DEFINE rec == [req[r] EXCEPT !.pc = "link"]
  <2>0. req[r].email \in Emails
    BY DEF Inv, Sound, Known, Find
  <2>1. /\ rec \in Records /\ ~rec.link /\ req' = [req EXCEPT ![r] = rec]
        /\ rec.pc = "link" /\ rec.email = req[r].email
    BY <1>1, <1>2 DEF Records, Steps
  <2>2. req'[r] = rec
    BY <2>1 DEF Inv, TypeOK
  <2>3. Known(r)' /\ Feed(r)'
    BY <2>0, <2>1, <2>2 DEF Known, Feed, InTransaction
  <2> QED
    BY <2>1, <2>3, QuietStep DEF Find
<1>3. ASSUME NEW e \in Emails, users[e] # None,
             req' = [req EXCEPT ![r].pc = "starter", ![r].email = e, ![r].row = users[e]]
      PROVE Inv'
  <2> DEFINE rec == [req[r] EXCEPT !.pc = "starter", !.email = e, !.row = users[e]]
  <2>0. users[e] \in Rows
    BY <1>3 DEF Inv, TypeOK
  <2>1. rec \in Records /\ ~rec.link /\ req' = [req EXCEPT ![r] = rec]
    BY <1>1, <1>3, <2>0 DEF Records, Steps
  <2>2. rec.pc = "starter" /\ rec.email = e /\ rec.row = users[e]
    BY <1>1 DEF Records
  <2>3. req'[r] = rec
    BY <2>1 DEF Inv, TypeOK
  <2>4. Known(r)' /\ Feed(r)'
    BY <2>0, <2>2, <2>3 DEF Known, Feed, InTransaction, Find
  <2> QED
    BY <2>1, <2>4, QuietStep DEF Find
<1> QED
  BY <1>2, <1>3 DEF Find

LEMMA StarterStep == ASSUME Inv, NEW r \in Requests, Starter(r) PROVE Inv'
<1> DEFINE to == IF req[r].row.role # "member" \/ req[r].row.seeded THEN "commit" ELSE "feed"
           rec == [req[r] EXCEPT !.pc = to]
<1>1. req[r] \in Records /\ Known(r) /\ req[r].pc = "starter"
  BY DEF Inv, TypeOK, Starter, Sound
<1>2. rec \in Records /\ req' = [req EXCEPT ![r] = rec]
  BY <1>1 DEF Records, Steps, Starter
<1>3. rec.pc = to /\ rec.email = req[r].email /\ rec.row = req[r].row
      /\ rec.link = req[r].link /\ rec.sub = req[r].sub
  BY <1>1 DEF Records
<1>4. req'[r] = rec
  BY <1>2 DEF Inv, TypeOK
<1>5. users' = users /\ to \in {"commit", "feed"}
  BY DEF Starter
<1>6. Known(r)'
  BY <1>1, <1>3, <1>4, <1>5 DEF Known, InTransaction
<1>7. Feed(r)'
  BY <1>1, <1>3, <1>4, <1>5 DEF Known, Feed, InTransaction
<1> QED
  BY <1>2, <1>3, <1>5, <1>6, <1>7, QuietStep DEF Starter, InTransaction

LEMMA ReadFeedStep == ASSUME Inv, NEW r \in Requests, ReadFeed(r) PROVE Inv'
<1> DEFINE rec == [req[r] EXCEPT !.pc = "mark", !.seeding = (scores[req[r].email] = {})]
<1>1. req[r] \in Records /\ Known(r) /\ req[r].pc = "feed"
  BY DEF Inv, TypeOK, ReadFeed, Sound
<1>2. rec \in Records /\ req' = [req EXCEPT ![r] = rec]
  BY <1>1 DEF Records, Steps, ReadFeed
<1>3. rec.pc = "mark" /\ rec.email = req[r].email /\ rec.row = req[r].row
      /\ rec.link = req[r].link /\ rec.sub = req[r].sub
      /\ rec.seeding = (scores[req[r].email] = {})
  BY <1>1 DEF Records
<1>4. req'[r] = rec
  BY <1>2 DEF Inv, TypeOK
<1>5. users' = users /\ scores' = scores
  BY DEF ReadFeed
<1>6. Known(r)' /\ Feed(r)'
  BY <1>1, <1>3, <1>4, <1>5 DEF Known, Feed, InTransaction
<1> QED
  BY <1>2, <1>3, <1>6, QuietStep DEF ReadFeed, InTransaction

\* A row is locked: a link begins, or a marker is written.
LEMMA LockStep ==
    ASSUME Inv, NEW r \in Requests, NEW rec \in Records,
           req' = [req EXCEPT ![r] = rec],
           rec.email \in Emails, locks[rec.email] \in {None, r},
           locks' = [locks EXCEPT ![rec.email] = r],
           UNCHANGED <<mode, allow, users, scores, cleared>>,
           req[r].link => rec.link /\ rec.email = req[r].email /\ rec.sub = req[r].sub
                          /\ rec.pc \in InTransaction,
           rec.link /\ ~req[r].link =>
               /\ rec.pc \in InTransaction
               /\ users[rec.email].ext = None
               /\ ~Taken(rec.sub) /\ Pending(rec.sub) = {},
           Known(r)', Feed(r)'
    PROVE  Inv'
<1>1. TypeOK'
  BY DEF Inv, TypeOK
<1>2. req'[r] = rec /\ \A q \in Requests \ {r} : req'[q] = req[q]
  BY DEF Inv, TypeOK
<1>3. ASSUME NEW q \in Requests PROVE Known(q)' /\ Feed(q)'
  BY <1>2 DEF Inv, Sound, Known, Feed
<1>4. ASSUME NEW q \in Requests PROVE Held(q)'
  <2>1. CASE q = r
    BY <2>1, <1>2 DEF Inv, Sound, Held, Taken, TypeOK
  <2>2. CASE q # r
    <3>1. Held(q) /\ Known(q)
      BY DEF Inv, Sound
    <3> SUFFICES ASSUME req[q].link PROVE Held(q)'
      BY <2>2, <1>2 DEF Held
    <3>2. req[q].email \in Emails /\ locks[req[q].email] = q
      BY <3>1 DEF Held, Known
    <3>3. rec.email # req[q].email
      BY <2>2, <3>2, AccountsAssumption
    <3>4. locks'[req[q].email] = q
      BY <3>2, <3>3 DEF Inv, TypeOK
    <3> QED
      BY <2>2, <1>2, <3>1, <3>4 DEF Held, Taken
  <2> QED
    BY <2>1, <2>2
<1>5. Apart'
  BY <1>2 DEF Inv, Apart, Pending
<1>6. SubjectOneRow' /\ StarterNotEmpty'
  BY DEF Inv, SubjectOneRow, StarterNotEmpty
<1> QED
  BY <1>1, <1>3, <1>4, <1>5, <1>6 DEF Inv, Sound

LEMMA LinkStep == ASSUME Inv, NEW r \in Requests, Link(r) PROVE Inv'
<1> DEFINE e == req[r].email
<1>1. req[r] \in Records /\ ~req[r].link
  BY DEF Inv, TypeOK, Link, Sound, Held, InTransaction
<1>2. ASSUME NEW how \in {"failed", "refused"}, req' = [req EXCEPT ![r].pc = how],
             UNCHANGED locks
      PROVE Inv'
  <2> DEFINE rec == [req[r] EXCEPT !.pc = how]
  <2>1. rec \in Records /\ ~rec.link /\ req' = [req EXCEPT ![r] = rec] /\ rec.pc = how
    BY <1>1, <1>2 DEF Records, Steps
  <2>2. req'[r] = rec
    BY <2>1 DEF Inv, TypeOK
  <2>3. Known(r)' /\ Feed(r)'
    BY <2>1, <2>2 DEF Known, Feed, InTransaction
  <2> QED
    BY <1>2, <2>1, <2>3, QuietStep DEF Link
<1>3. CASE Linkable(e) /\ Pending(req[r].sub) = {} /\ ~Taken(req[r].sub)
  <2> DEFINE row == [users[e] EXCEPT !.ext = req[r].sub]
             rec == [req[r] EXCEPT !.pc = "starter", !.link = TRUE, !.row = row]
  <2>1. e \in Emails /\ locks[e] = None
    BY DEF Inv, Sound, Known, Link
  <2>2. users[e] \in Rows /\ users[e].ext = None
    BY <1>3, <2>1 DEF Inv, TypeOK, Linkable
  <2>3. row \in Rows /\ row.seeded = users[e].seeded
    BY <1>1, <2>2 DEF Rows, Records
  <2>4. rec \in Records /\ req' = [req EXCEPT ![r] = rec] /\ locks' = [locks EXCEPT ![e] = r]
    BY <1>1, <1>3, <2>3 DEF Records, Steps, Link
  <2>5. /\ rec.pc = "starter" /\ rec.email = e /\ rec.row = row /\ rec.link
        /\ rec.sub = req[r].sub
    BY <1>1 DEF Records
  <2>6. req'[r] = rec /\ users' = users
    BY <2>4 DEF Inv, TypeOK, Link
  <2>7. Known(r)' /\ Feed(r)'
    BY <2>1, <2>2, <2>3, <2>5, <2>6 DEF Known, Feed, InTransaction
  <2>8. locks[rec.email] \in {None, r} /\ locks' = [locks EXCEPT ![rec.email] = r]
    BY <2>1, <2>4, <2>5
  <2>9. UNCHANGED <<mode, allow, users, scores, cleared>>
    BY DEF Link
  <2>10. /\ rec.pc \in InTransaction
         /\ users[rec.email].ext = None
         /\ ~Taken(rec.sub) /\ Pending(rec.sub) = {}
    BY <1>3, <2>2, <2>5 DEF InTransaction
  <2>11. rec.email \in Emails /\ rec \in Records /\ req' = [req EXCEPT ![r] = rec]
    BY <2>1, <2>4, <2>5
  <2> HIDE DEF rec, row, e
  <2> QED
    BY <1>1, <2>7, <2>8, <2>9, <2>10, <2>11, LockStep
<1> QED
  BY <1>2, <1>3 DEF Link

LEMMA MarkStep == ASSUME Inv, NEW r \in Requests, Mark(r) PROVE Inv'
<1> DEFINE e == req[r].email
           row == [req[r].row EXCEPT !.seeded = TRUE]
           rec == [req[r] EXCEPT !.pc = "commit", !.row = row]
<1>1. req[r] \in Records /\ req[r].pc = "mark" /\ Known(r) /\ Feed(r) /\ Held(r)
  BY DEF Inv, TypeOK, Mark, Sound
<1>2. e \in Emails /\ users[e] \in Rows /\ req[r].row \in Rows
  BY <1>1 DEF Known, InTransaction
<1>3. row \in Rows
  BY <1>2 DEF Rows
<1>4. rec \in Records
  BY <1>1, <1>3 DEF Records, Steps
<1>5. req' = [req EXCEPT ![r] = rec]
  BY <1>1, <1>2 DEF Mark, Records, Rows
<1>6. /\ rec.pc = "commit" /\ rec.email = e /\ rec.row = row /\ rec.link = req[r].link
      /\ rec.sub = req[r].sub /\ rec.seeding = req[r].seeding
  BY <1>1 DEF Records
<1>7. req'[r] = rec /\ users' = users /\ scores' = scores /\ cleared' = cleared
  BY <1>5 DEF Inv, TypeOK, Mark
<1>8. Known(r)'
  BY <1>2, <1>3, <1>6, <1>7 DEF Known, InTransaction
<1>9. Feed(r)'
  BY <1>1, <1>6, <1>7 DEF Feed
<1> QED
  BY <1>1, <1>2, <1>4, <1>5, <1>6, <1>8, <1>9, LockStep DEF Mark, InTransaction

-----------------------------------------------------------------------------
(* Steps that change the tables *)

\* Rows are added and their roles change: nothing a request relies on does.
LEMMA RowsStep ==
    ASSUME Inv, TypeOK',
           \A e \in Emails : users[e] \in Rows =>
               users'[e] \in Rows /\ users'[e].ext = users[e].ext
                   /\ users'[e].seeded = users[e].seeded,
           \A e \in Emails : users[e] \notin Rows /\ users'[e] # None =>
               users'[e].ext = None /\ ~users'[e].seeded,
           \A e \in Emails : scores[e] # {} => scores'[e] # {} \/ e \in cleared',
           cleared \subseteq cleared',
           UNCHANGED <<locks, req>>
    PROVE  Inv'
<1>1. ASSUME NEW q \in Requests PROVE Known(q)' /\ Feed(q)'
  BY DEF Inv, Sound, Known, Feed, InTransaction
<1>2. ASSUME NEW q \in Requests PROVE Held(q)'
  <2>1. Held(q) /\ Known(q)
    BY DEF Inv, Sound
  <2>2. ASSUME req[q].sub # None, ~Taken(req[q].sub) PROVE ~Taken(req[q].sub)'
    BY <2>2, NoneIsNoRow DEF Taken, Inv, TypeOK
  <2> QED
    BY <2>1, <2>2 DEF Held, Known
<1>3. Apart'
  BY DEF Inv, Apart
<1>4. SubjectOneRow'
  BY NoneIsNoRow DEF Inv, SubjectOneRow, TypeOK
<1>5. StarterNotEmpty'
  BY NoneIsNoRow DEF Inv, StarterNotEmpty, TypeOK
<1> QED
  BY <1>1, <1>2, <1>3, <1>4, <1>5 DEF Inv, Sound

LEMMA StartServerStep == ASSUME Inv, StartServer PROVE Inv'
<1>1. CASE users' = users
  <2>1. TypeOK'
    BY <1>1 DEF Inv, TypeOK, StartServer
  <2>2. \A e \in Emails : users[e] \in Rows \/ users[e] = None
    BY DEF Inv, TypeOK
  <2>3. UNCHANGED <<scores, cleared, locks, req>>
    BY DEF StartServer
  <2> QED
    BY <1>1, <2>1, <2>2, <2>3, RowsStep
<1>2. CASE users' # users
  <2>0. PICK listed \in (SUBSET (Emails \ {DevEmail})) \ {{}} :
          \E role \in [listed -> {"admin", "member"}] :
              /\ mode' = "auth" /\ allow' = listed
              /\ users' = [e \in Emails |->
                    IF e \notin listed THEN users[e]
                    ELSE IF users[e] = None THEN Row(role[e])
                    ELSE [users[e] EXCEPT !.role = role[e]]]
    BY <1>2, Zenon DEF StartServer
  <2>1. PICK role \in [listed -> {"admin", "member"}] :
          /\ mode' = "auth" /\ allow' = listed
          /\ users' = [e \in Emails |->
                IF e \notin listed THEN users[e]
                ELSE IF users[e] = None THEN Row(role[e])
                ELSE [users[e] EXCEPT !.role = role[e]]]
    BY <2>0
  <2>2. ASSUME NEW e \in Emails
        PROVE  /\ users[e] \in Rows => users'[e] \in Rows /\ users'[e].ext = users[e].ext
                                         /\ users'[e].seeded = users[e].seeded
               /\ users[e] = None => users'[e] = None \/
                     (users'[e] \in Rows /\ users'[e].ext = None /\ ~users'[e].seeded)
    <3>1. CASE e \notin listed
      BY <2>1, <3>1, NoneIsNoRow DEF Rows
    <3>2. CASE e \in listed /\ users[e] = None
      BY <2>1, <3>2, NoneIsNoRow DEF Row, Rows
    <3>3. CASE e \in listed /\ users[e] \in Rows
      BY <2>1, <3>3, NoneIsNoRow DEF Rows
    <3> QED
      BY <3>1, <3>2, <3>3 DEF Inv, TypeOK
  <2>3. TypeOK'
    BY <2>1, <2>2 DEF Inv, TypeOK, StartServer
  <2> QED
    BY <2>2, <2>3, RowsStep DEF Inv, TypeOK, StartServer
<1> QED
  BY <1>1, <1>2

LEMMA ScoresStep ==
    ASSUME Inv, NEW e \in Emails, Ingest(e) \/ RemoveExamples(e) PROVE Inv'
<1>1. TypeOK' /\ cleared \subseteq cleared'
  BY DEF Inv, TypeOK, Ingest, RemoveExamples
<1>2. \A d \in Emails : scores[d] # {} => scores'[d] # {} \/ d \in cleared'
  BY DEF Inv, TypeOK, Ingest, RemoveExamples
<1> QED
  BY <1>1, <1>2, RowsStep, NoneIsNoRow DEF Inv, TypeOK, Ingest, RemoveExamples

LEMMA StopServerStep == ASSUME Inv, StopServer PROVE Inv'
<1>1. \A r \in Requests : req'[r] = Idle
  BY DEF StopServer
<1>2. TypeOK'
  BY DEF Inv, TypeOK, StopServer, Idle, Records, Steps
<1>3. \A r \in Requests : Sound(r)'
  BY <1>1 DEF Sound, Known, Held, Feed, Idle, InTransaction
<1>4. Apart'
  BY <1>1 DEF Apart, Idle
<1>5. SubjectOneRow' /\ StarterNotEmpty'
  BY DEF Inv, SubjectOneRow, StarterNotEmpty, StopServer
<1> QED
  BY <1>2, <1>3, <1>4, <1>5 DEF Inv

\* The transaction of a request that has found a row commits.
LEMMA CommitStep == ASSUME Inv, NEW r \in Requests, Commit(r) PROVE Inv'
<1> DEFINE e == req[r].email
           done == [Idle EXCEPT !.pc = "served", !.email = e, !.sub = req[r].sub]
<1>1. req[r] \in Records /\ req[r].pc = "commit" /\ Known(r) /\ Feed(r) /\ Held(r)
  BY DEF Inv, TypeOK, Commit, Sound
<1>2. e \in Emails /\ users[e] \in Rows /\ req[r].row \in Rows
  BY <1>1 DEF Known, InTransaction
<1>3. done \in Records /\ done.pc = "served" /\ ~done.link
  BY <1>1 DEF Records, Steps, Idle, Rows
<1>4. req' = [req EXCEPT ![r] = done]
  BY DEF Commit
<1>5. req'[r] = done /\ \A q \in Requests \ {r} : req'[q] = req[q]
  BY <1>4 DEF Inv, TypeOK
<1> DEFINE ext == IF req[r].link THEN req[r].sub ELSE users[e].ext
           seeded == users[e].seeded \/ (locks[e] = r /\ req[r].row.seeded)
           row == [users[e] EXCEPT !.ext = ext, !.seeded = seeded]
<1>6. ext \in Subjects \cup {None} /\ seeded \in BOOLEAN
  BY <1>1, <1>2 DEF Records, Rows
<1>7. row \in Rows /\ row.ext = ext /\ row.seeded = seeded
  BY <1>2, <1>6 DEF Rows
<1>8. users' = [users EXCEPT ![e] = row]
  BY <1>2 DEF Commit, Inv, TypeOK, Rows
<1>9. users'[e] = row /\ \A d \in Emails \ {e} : users'[d] = users[d]
  BY <1>2, <1>8 DEF Inv, TypeOK
<1>10. /\ cleared' = cleared
       /\ \A d \in Emails : scores[d] # {} => scores'[d] # {}
       /\ req[r].seeding => scores'[e] # {}
  BY <1>2 DEF Commit, Inv, TypeOK
<1>11. TypeOK'
  BY <1>2, <1>3, <1>4, <1>7, <1>8 DEF Inv, TypeOK, Commit
<1>12. ASSUME NEW q \in Requests PROVE Known(q)' /\ Feed(q)'
  <2>1. CASE q = r
    BY <2>1, <1>3, <1>5 DEF Known, Feed, InTransaction
  <2>2. CASE q # r
    <3>1. \A d \in Emails : users[d] \in Rows =>
            users'[d] \in Rows /\ (users[d].seeded => users'[d].seeded)
      BY <1>7, <1>9
    <3>2. req'[q] = req[q] /\ Known(q) /\ Feed(q)
      BY <2>2, <1>5 DEF Inv, Sound
    <3>3. Known(q)'
      BY <3>1, <3>2 DEF Known
    <3>4. Feed(q)'
      BY <3>1, <3>2, <1>10 DEF Known, Feed, InTransaction
    <3> QED
      BY <3>3, <3>4
  <2> QED
    BY <2>1, <2>2
<1>13. ASSUME NEW q \in Requests PROVE Held(q)'
  <2>1. CASE ~req'[q].link
    BY <2>1 DEF Held
  <2>2. CASE req'[q].link
    <3>1. q # r /\ req'[q] = req[q] /\ req[q].link
      BY <2>2, <1>3, <1>5
    <3>2. Held(q) /\ Known(q)
      BY DEF Inv, Sound
    <3>3. req[q].email \in Emails /\ locks[req[q].email] = q
      BY <3>1, <3>2 DEF Held, Known
    <3>4. locks'[req[q].email] = q
      BY <1>2, <3>1, <3>3 DEF Commit, Inv, TypeOK
    <3>5. users'[req[q].email].ext = None
      <4>1. CASE req[q].email = e
        <5>1. ~req[r].link
          BY <4>1, <1>1, <3>1, <3>3 DEF Held
        <5> QED
          BY <4>1, <5>1, <1>7, <1>9, <3>1, <3>2 DEF Held
      <4>2. CASE req[q].email # e
        BY <4>2, <1>9, <3>1, <3>2, <3>3 DEF Held
      <4> QED
        BY <4>1, <4>2
    <3>6. ASSUME req[q].sub # None, NEW d \in Emails, users'[d] # None
          PROVE  users'[d].ext # req[q].sub
      <4>1. ~Taken(req[q].sub)
        BY <3>6, <3>1, <3>2 DEF Held
      <4>2. CASE d = e
        <5>1. req[r].link => req[r].sub # req[q].sub
          BY <3>1, <3>6 DEF Inv, Apart
        <5>2. users[e].ext # req[q].sub
          BY <1>2, <4>1, NoneIsNoRow DEF Taken
        <5> QED
          BY <4>2, <5>1, <5>2, <1>7, <1>9
      <4>3. CASE d # e
        BY <4>1, <4>3, <1>9, <3>6 DEF Taken
      <4> QED
        BY <4>2, <4>3
    <3> QED
      BY <3>1, <3>2, <3>4, <3>5, <3>6 DEF Held, Taken
  <2> QED
    BY <2>1, <2>2
<1>14. Apart'
  BY <1>3, <1>5 DEF Inv, Apart
<1>15. SubjectOneRow'
  <2> SUFFICES ASSUME NEW d \in Emails, NEW f \in Emails, d # f, f # e,
                      users'[d] # None, users'[f] # None,
                      users'[d].ext # None, users'[d].ext = users'[f].ext
               PROVE  FALSE
    BY DEF SubjectOneRow
  <2>1. users'[f] = users[f] /\ d = e
    BY <1>9 DEF Inv, SubjectOneRow
  <2>2. CASE req[r].link
    BY <2>1, <2>2, <1>1, <1>7, <1>9 DEF Held, Taken
  <2>3. CASE ~req[r].link
    BY <2>1, <2>3, <1>2, <1>7, <1>9, NoneIsNoRow DEF Inv, SubjectOneRow
  <2> QED
    BY <2>2, <2>3
<1>16. StarterNotEmpty'
  <2> SUFFICES ASSUME NEW d \in Emails, users'[d] # None, users'[d].seeded, d \notin cleared
               PROVE  scores'[d] # {}
    BY <1>10 DEF StarterNotEmpty
  <2>1. CASE users[d] # None /\ users[d].seeded
    BY <2>1, <1>10 DEF Inv, StarterNotEmpty
  <2>2. CASE ~(users[d] # None /\ users[d].seeded)
    <3>1. d = e /\ req[r].row.seeded /\ ~users[e].seeded
      BY <2>2, <1>2, <1>7, <1>9, NoneIsNoRow
    <3> QED
      BY <3>1, <1>1, <1>10 DEF Feed
  <2> QED
    BY <2>1, <2>2
<1> QED
  BY <1>11, <1>12, <1>13, <1>14, <1>15, <1>16 DEF Inv, Sound

\* The bypass: the oldest administrator's row, or one that is made.
LEMMA DevUserStep == ASSUME Inv, NEW r \in Requests, DevUser(r) PROVE Inv'
<1>1. req[r] \in Records /\ ~req[r].link
  BY DEF Inv, TypeOK, DevUser, Sound, Held, InTransaction
<1>2. ASSUME NEW e \in Oldest,
             req' = [req EXCEPT ![r].pc = "starter", ![r].email = e, ![r].row = users[e]],
             UNCHANGED users
      PROVE  Inv'
  <2> DEFINE rec == [req[r] EXCEPT !.pc = "starter", !.email = e, !.row = users[e]]
  <2>1. e \in Emails /\ users[e] \in Rows
    BY <1>2 DEF Oldest, Admins, Inv, TypeOK
  <2>2. rec \in Records /\ ~rec.link /\ req' = [req EXCEPT ![r] = rec]
    BY <1>1, <1>2, <2>1 DEF Records, Steps
  <2>3. rec.pc = "starter" /\ rec.email = e /\ rec.row = users[e]
    BY <1>1 DEF Records
  <2>4. req'[r] = rec
    BY <2>2 DEF Inv, TypeOK
  <2>5. Known(r)' /\ Feed(r)'
    BY <1>2, <2>1, <2>3, <2>4 DEF Known, Feed, InTransaction
  <2> QED
    BY <1>2, <2>2, <2>5, QuietStep DEF DevUser
<1>3. ASSUME users' = [users EXCEPT ![DevEmail] = IF @ = None THEN Row("admin") ELSE @],
             req' = [req EXCEPT ![r].pc = "served"]
      PROVE  Inv'
  <2> DEFINE rec == [req[r] EXCEPT !.pc = "served"]
  <2>1. rec \in Records /\ ~rec.link /\ rec.pc = "served" /\ req' = [req EXCEPT ![r] = rec]
    BY <1>1, <1>3 DEF Records, Steps
  <2>2. req'[r] = rec /\ \A q \in Requests \ {r} : req'[q] = req[q]
    BY <2>1 DEF Inv, TypeOK
  <2>3. Row("admin") \in Rows /\ Row("admin").ext = None /\ ~Row("admin").seeded
    BY DEF Row, Rows
  <2>4. ASSUME NEW d \in Emails
        PROVE  /\ users[d] # None => users'[d] = users[d]
               /\ users[d] = None => users'[d] = None \/
                     (users'[d] \in Rows /\ users'[d].ext = None /\ ~users'[d].seeded)
    BY <1>3, <2>3 DEF Inv, TypeOK
  <2>5. UNCHANGED <<mode, allow, scores, cleared, locks>>
    BY DEF DevUser
  <2>6. TypeOK'
    BY <1>3, <2>1, <2>3, <2>5 DEF Inv, TypeOK
  <2>7. ASSUME NEW q \in Requests PROVE Sound(q)'
    <3>1. CASE q = r
      BY <3>1, <2>1, <2>2 DEF Sound, Known, Held, Feed, InTransaction
    <3>2. CASE q # r
      <4>1. req'[q] = req[q] /\ Known(q) /\ Held(q) /\ Feed(q)
        BY <3>2, <2>2 DEF Inv, Sound
      <4>2. Known(q)' /\ Feed(q)'
        BY <4>1, <2>4, <2>5, NoneIsNoRow DEF Known, Feed, InTransaction
      <4>3. ASSUME req[q].sub # None, ~Taken(req[q].sub) PROVE ~Taken(req[q].sub)'
        BY <4>3, <4>1, <2>4, NoneIsNoRow DEF Taken
      <4> QED
        BY <4>1, <4>2, <4>3, <2>4, <2>5, NoneIsNoRow DEF Sound, Known, Held
    <3> QED
      BY <3>1, <3>2
  <2>8. Apart'
    BY <2>1, <2>2 DEF Inv, Apart
  <2>9. SubjectOneRow'
    BY <2>4, NoneIsNoRow DEF Inv, SubjectOneRow
  <2>10. StarterNotEmpty'
    BY <2>4, <2>5, NoneIsNoRow DEF Inv, StarterNotEmpty
  <2> QED
    BY <2>6, <2>7, <2>8, <2>9, <2>10 DEF Inv
<1> QED
  BY <1>2, <1>3 DEF DevUser

-----------------------------------------------------------------------------
(* The specification *)

LEMMA StutterStep == ASSUME Inv, UNCHANGED vars PROVE Inv'
BY DEF Inv, TypeOK, Sound, Known, Held, Feed, Taken, Apart, SubjectOneRow,
       StarterNotEmpty, vars

LEMMA NextInv == Inv /\ [Next]_vars => Inv'
<1> SUFFICES ASSUME Inv, [Next]_vars PROVE Inv'
  OBVIOUS
<1>1. ASSUME NEW r \in Requests, Begin(r) \/ Serve(r) PROVE Inv'
  BY <1>1, BeginStep, DevUserStep, FindStep, LinkStep, StarterStep, ReadFeedStep,
     MarkStep, CommitStep DEF Serve
<1>2. ASSUME NEW e \in Emails, Ingest(e) \/ RemoveExamples(e) PROVE Inv'
  BY <1>2, ScoresStep
<1> QED
  BY <1>1, <1>2, StartServerStep, StopServerStep, StutterStep DEF Next

LEMMA InvariantHolds == Spec => []Inv
  BY InitInv, NextInv, PTL DEF Spec

\* The tables, the locks and the requests keep their types.
THEOREM TypeCorrect == Spec => []TypeOK
<1>1. Inv => TypeOK
  BY DEF Inv
<1> QED
  BY <1>1, InvariantHolds, PTL

\* However many logins of one subject are in flight, its e-mail rotating, one
\* row of app.users is linked to it (users.py:77-113).
THEOREM OneRowPerSubject == Spec => []SubjectOneRow
<1>1. Inv => SubjectOneRow
  BY DEF Inv
<1> QED
  BY <1>1, InvariantHolds, PTL

\* A member who is marked as handled has a feed, whatever died before the commit
\* (starter_set.py:56-84).
THEOREM HandledHasFeed == Spec => []StarterNotEmpty
<1>1. Inv => StarterNotEmpty
  BY DEF Inv
<1> QED
  BY <1>1, InvariantHolds, PTL

\* A linked row stays linked to its subject, whatever servers start and whatever
\* the allowlist says (users.py:103-113).
THEOREM LinksStay == Spec => LinkStable
<1> DEFINE Stays == \A e \in Emails :
       (users[e] # None /\ users[e].ext # None)
         => (users'[e] # None /\ users'[e].ext = users[e].ext)
<1>1. Inv /\ [Next]_vars => Stays
  <2> SUFFICES ASSUME Inv, [Next]_vars, NEW e \in Emails,
                      users[e] # None, users[e].ext # None
               PROVE  users'[e] # None /\ users'[e].ext = users[e].ext
    OBVIOUS
  <2>0. users[e] \in Rows
    BY DEF Inv, TypeOK
  <2>1. CASE StartServer
    <3>1. CASE users' = users
      BY <3>1
    <3>2. CASE users' # users
      <4>1. PICK listed \in (SUBSET (Emails \ {DevEmail})) \ {{}} :
              \E role \in [listed -> {"admin", "member"}] :
                /\ allow' = listed
                /\ users' = [d \in Emails |->
                      IF d \notin listed THEN users[d]
                      ELSE IF users[d] = None THEN Row(role[d])
                      ELSE [users[d] EXCEPT !.role = role[d]]]
        BY <2>1, <3>2, Zenon DEF StartServer
      <4>2. PICK role \in [listed -> {"admin", "member"}] :
                users' = [d \in Emails |->
                      IF d \notin listed THEN users[d]
                      ELSE IF users[d] = None THEN Row(role[d])
                      ELSE [users[d] EXCEPT !.role = role[d]]]
        BY <4>1
      <4>3. [users[e] EXCEPT !.role = role[e]].ext = users[e].ext
        BY <2>0 DEF Rows
      <4>4. ASSUME e \in listed PROVE [users[e] EXCEPT !.role = role[e]] \in Rows
        BY <2>0, <4>4 DEF Rows
      <4> QED
        BY <2>0, <4>2, <4>3, <4>4, NoneIsNoRow
    <3> QED
      BY <3>1, <3>2
  <2>2. ASSUME NEW r \in Requests, Commit(r)
        PROVE  users'[e] # None /\ users'[e].ext = users[e].ext
    <3>1. Held(r) /\ Known(r) /\ req[r].pc = "commit"
      BY <2>2 DEF Inv, Sound, Commit
    <3>2. CASE e = req[r].email
      <4>1. ~req[r].link
        BY <3>1, <3>2 DEF Held
      <4> DEFINE seeded == users[e].seeded \/ (locks[e] = r /\ req[r].row.seeded)
      <4>2. users'[e] = [users[e] EXCEPT !.seeded = seeded]
        BY <2>0, <2>2, <3>2, <4>1 DEF Commit, Inv, TypeOK, Rows
      <4>3. seeded \in BOOLEAN
        BY <2>0, <3>1 DEF Known, InTransaction, Rows
      <4>4. users'[e] \in Rows /\ users'[e].ext = users[e].ext
        BY <2>0, <4>2, <4>3 DEF Rows
      <4> QED
        BY <4>4, NoneIsNoRow
    <3>3. CASE e # req[r].email
      BY <2>2, <3>3 DEF Commit, Inv, TypeOK
    <3> QED
      BY <3>2, <3>3
  <2>3. ASSUME NEW r \in Requests, DevUser(r)
        PROVE  users'[e] = users[e]
    BY <2>3 DEF DevUser, Inv, TypeOK
  <2>4. CASE users' = users
    BY <2>4
  <2> QED
    BY <2>1, <2>2, <2>3, <2>4 DEF Next, Serve, Begin, Find, Link, Starter, ReadFeed, Mark,
       StopServer, Ingest, RemoveExamples, vars
<1> QED
  BY <1>1, InvariantHolds, PTL DEF Spec, LinkStable
=============================================================================
