------------------------------ MODULE Accounts ------------------------------
(***************************************************************************)
(* Accounts of the API: the allowlist a server reads when it starts, the   *)
(* rows of app.users it keeps in step with it, the link of a row to the    *)
(* stable id of a subject at the first login, and the starter set a member *)
(* is shown until a first pipeline run.  Every request runs its dependency *)
(* current_user in one transaction at READ COMMITTED: a statement sees     *)
(* what others have committed, an UPDATE waits for the transaction that    *)
(* holds its row, and the writes of a request appear when it commits.      *)
(***************************************************************************)
EXTENDS Naturals

CONSTANTS Emails,       \* e-mail addresses, the key of app.users
          Subjects,     \* stable external ids (Entra object ids)
          Principals,   \* the <<email, subject>> pairs a browser may present
          Requests,     \* requests in flight at one time
          DevEmail,     \* dev@localhost, the principal of the bypass
          None,
          MaxStarts,    \* bound: how often a server starts
          MaxLogins     \* bound: how many requests are made

ASSUME AccountsAssumption ==
  /\ Principals \subseteq Emails \X (Subjects \cup {None})
  /\ DevEmail \in Emails
  /\ None \notin Emails \cup Subjects \cup Requests
  /\ None \notin [role: {"admin", "member"}, ext: Subjects \cup {None}, seeded: BOOLEAN]

VARIABLES mode,      \* how the server runs: "down", "auth" or "bypass"
          allow,     \* auth.py _allowed_emails
          users,     \* app.users: email -> None or a row
          born,      \* created_at of a row: the number of the start that made it
          scores,    \* raw.job_scores: email -> which kinds of score it has
          cleared,   \* e-mails whose example scores the admin has removed
          locks,     \* row locks of app.users: email -> request or None
          req,       \* the requests
          starts, logins

vars == <<mode, allow, users, born, scores, cleared, locks, req, starts, logins>>

Row(role) == [role |-> role, ext |-> None, seeded |-> FALSE]
Idle == [pc |-> "idle", email |-> None, sub |-> None, row |-> None,
         link |-> FALSE, seeding |-> FALSE]

Rows == [role: {"admin", "member"}, ext: Subjects \cup {None}, seeded: BOOLEAN]

Steps == {"idle", "find", "link", "starter", "feed", "mark", "commit",
          "served", "denied", "refused", "failed"}

Records ==
  [pc: Steps, email: Emails \cup {None}, sub: Subjects \cup {None},
   row: Rows \cup {None}, link: BOOLEAN, seeding: BOOLEAN]

TypeOK ==
  /\ mode \in {"down", "auth", "bypass"}
  /\ allow \subseteq Emails
  /\ users \in [Emails -> Rows \cup {None}]
  /\ scores \in [Emails -> SUBSET {"example", "real"}]
  /\ cleared \subseteq Emails
  /\ locks \in [Emails -> Requests \cup {None}]
  /\ req \in [Requests -> Records]

(* Migration 0006 has seeded the bootstrap administrator, migration 0008   *)
(* the marker of the starter set.                                          *)
Init ==
  /\ mode = "down" /\ allow = {}
  /\ \E admin \in Emails \ {DevEmail} :
       /\ users = [e \in Emails |-> IF e = admin THEN Row("admin") ELSE None]
  /\ born = [e \in Emails |-> 0]
  /\ scores = [e \in Emails |-> {}]
  /\ cleared = {}
  /\ locks = [e \in Emails |-> None]
  /\ req = [r \in Requests |-> Idle]
  /\ starts = 0 /\ logins = 0

(* Startup: auth.yml is read, the allowlist installed and app.users synced *)
(* in one transaction before any request is served.  A row that leaves the *)
(* file stays; a row that stays takes the role of the file.                *)
StartServer ==
  /\ mode = "down" /\ starts < MaxStarts
  /\ starts' = starts + 1
  /\ \/ /\ mode' = "bypass"
        /\ UNCHANGED <<allow, users, born>>
     \/ /\ mode' = "auth"
        /\ \E listed \in (SUBSET (Emails \ {DevEmail})) \ {{}} :
             \E role \in [listed -> {"admin", "member"}] :
               /\ allow' = listed
               /\ users' = [e \in Emails |->
                     IF e \notin listed THEN users[e]
                     ELSE IF users[e] = None THEN Row(role[e])
                     ELSE [users[e] EXCEPT !.role = role[e]]]
               /\ born' = [e \in Emails |->
                     IF e \in listed /\ users[e] = None THEN starts' ELSE born[e]]
  /\ UNCHANGED <<scores, cleared, locks, req, logins>>

(* The server dies: open transactions are rolled back.                     *)
StopServer ==
  /\ mode # "down"
  /\ mode' = "down" /\ allow' = {}
  /\ locks' = [e \in Emails |-> None]
  /\ req' = [r \in Requests |-> Idle]
  /\ UNCHANGED <<users, born, scores, cleared, starts, logins>>

(* auth.current_principal: an e-mail off the allowlist is turned away      *)
(* before anything is read.                                                *)
Begin(r) ==
  /\ mode # "down" /\ logins < MaxLogins
  /\ req[r].pc \in {"idle", "served", "denied", "refused", "failed"}
  /\ logins' = logins + 1
  /\ IF mode = "bypass"
     THEN req' = [req EXCEPT ![r] = [Idle EXCEPT !.pc = "find", !.email = DevEmail]]
     ELSE \E p \in Principals :
            req' = [req EXCEPT ![r] =
              [Idle EXCEPT !.pc = IF p[1] \in allow /\ p[2] # None THEN "find" ELSE "denied",
                           !.email = p[1], !.sub = p[2]]]
  /\ UNCHANGED <<mode, allow, users, born, scores, cleared, locks, starts>>

Admins == {e \in Emails : users[e] # None /\ users[e].role = "admin"}
Oldest == {e \in Admins : \A f \in Admins : born[e] <= born[f]}

(* Bypass: the oldest administrator, or a dev@localhost administrator.     *)
DevUser(r) ==
  /\ req[r].pc = "find" /\ mode = "bypass"
  /\ \/ \E e \in Oldest :
          /\ req' = [req EXCEPT ![r].pc = "starter", ![r].email = e, ![r].row = users[e]]
          /\ UNCHANGED <<users, born>>
     \/ /\ Admins = {}
        /\ users' = [users EXCEPT ![DevEmail] = IF @ = None THEN Row("admin") ELSE @]
        /\ born' = [born EXCEPT ![DevEmail] = IF users[DevEmail] = None THEN starts ELSE @]
        /\ req' = [req EXCEPT ![r].pc = "served"]
  /\ UNCHANGED <<mode, allow, scores, cleared, locks, starts, logins>>

(* SELECT by external id: the row of the subject, whatever its e-mail.     *)
Find(r) ==
  /\ req[r].pc = "find" /\ mode = "auth"
  /\ LET mine == {e \in Emails : users[e] # None /\ users[e].ext = req[r].sub} IN
       \/ /\ mine = {}
          /\ req' = [req EXCEPT ![r].pc = "link"]
       \/ \E e \in mine :
            req' = [req EXCEPT ![r].pc = "starter", ![r].email = e, ![r].row = users[e]]
  /\ UNCHANGED <<mode, allow, users, born, scores, cleared, locks, starts, logins>>

Pending(sub) == {q \in Requests : req[q].link /\ req[q].sub = sub}
LinkableAny(e) == users[e] # None      \* a fault: the guard of the link is dropped
Linkable(e) == users[e] # None /\ users[e].ext = None
TakenNever(sub) == FALSE               \* a fault: the pair is not unique
Taken(sub) == \E e \in Emails : users[e] # None /\ users[e].ext = sub

(* UPDATE ... WHERE email = .. AND external_id IS NULL: it waits for the   *)
(* row and then evaluates its WHERE again; the unique pair of provider and *)
(* external id makes it wait for a link of the same subject and fail when  *)
(* that one is there.                                                      *)
Link(r) ==
  LET e == req[r].email IN
  /\ req[r].pc = "link" /\ locks[e] = None
  /\ IF Linkable(e)
     THEN /\ Pending(req[r].sub) = {}
          /\ IF Taken(req[r].sub)
             THEN /\ req' = [req EXCEPT ![r].pc = "failed"]
                  /\ UNCHANGED locks
             ELSE /\ req' = [req EXCEPT ![r].pc = "starter", ![r].link = TRUE,
                                        ![r].row = [users[e] EXCEPT !.ext = req[r].sub]]
                  /\ locks' = [locks EXCEPT ![e] = r]
     ELSE /\ req' = [req EXCEPT ![r].pc = "refused"]
          /\ UNCHANGED locks
  /\ UNCHANGED <<mode, allow, users, born, scores, cleared, starts, logins>>

(* ensure_starter_set: the row as this request read it decides.            *)
Starter(r) ==
  /\ req[r].pc = "starter"
  /\ req' = [req EXCEPT ![r].pc =
       IF req[r].row.role # "member" \/ req[r].row.seeded THEN "commit" ELSE "feed"]
  /\ UNCHANGED <<mode, allow, users, born, scores, cleared, locks, starts, logins>>

(* SELECT 1 FROM raw.job_scores, and seed_starter_set when there is none.  *)
ReadFeed(r) ==
  /\ req[r].pc = "feed"
  /\ req' = [req EXCEPT ![r].pc = "mark", ![r].seeding = (scores[req[r].email] = {})]
  /\ UNCHANGED <<mode, allow, users, born, scores, cleared, locks, starts, logins>>

(* A fault: the marker is written outside the transaction.       *)
MarkAutocommit(r) ==
  LET e == req[r].email IN
  /\ req[r].pc = "mark" /\ locks[e] \in {None, r}
  /\ users' = [users EXCEPT ![e].seeded = TRUE]
  /\ locks' = [locks EXCEPT ![e] = r]
  /\ req' = [req EXCEPT ![r].pc = "commit", ![r].row.seeded = TRUE]
  /\ UNCHANGED <<mode, allow, born, scores, cleared, starts, logins>>

(* UPDATE app.users SET starter_seeded_at: waits for the row as Link does. *)
Mark(r) ==
  LET e == req[r].email IN
  /\ req[r].pc = "mark" /\ locks[e] \in {None, r}
  /\ locks' = [locks EXCEPT ![e] = r]
  /\ req' = [req EXCEPT ![r].pc = "commit", ![r].row.seeded = TRUE]
  /\ UNCHANGED <<mode, allow, users, born, scores, cleared, starts, logins>>

(* The transaction commits: the link, the example scores (nothing where    *)
(* the user has them already) and the marker appear together.              *)
Commit(r) ==
  LET e == req[r].email IN
  /\ req[r].pc = "commit"
  /\ users' = [users EXCEPT ![e].ext = IF req[r].link THEN req[r].sub ELSE @,
                            ![e].seeded = @ \/ (locks[e] = r /\ req[r].row.seeded)]
  /\ scores' = [scores EXCEPT ![e] = IF req[r].seeding THEN @ \cup {"example"} ELSE @]
  /\ locks' = [locks EXCEPT ![e] = IF @ = r THEN None ELSE @]
  /\ req' = [req EXCEPT ![r] = [Idle EXCEPT !.pc = "served", !.email = e, !.sub = req[r].sub]]
  /\ UNCHANGED <<mode, allow, born, cleared, starts, logins>>

(* The pipeline ingests a scored posting of a user.                        *)
Ingest(e) ==
  /\ users[e] # None /\ "real" \notin scores[e]
  /\ scores' = [scores EXCEPT ![e] = @ \cup {"real"}]
  /\ UNCHANGED <<mode, allow, users, born, cleared, locks, req, starts, logins>>

(* The administrator removes the example scores of a user in bulk.         *)
RemoveExamples(e) ==
  /\ "example" \in scores[e]
  /\ scores' = [scores EXCEPT ![e] = @ \ {"example"}]
  /\ cleared' = cleared \cup {e}
  /\ UNCHANGED <<mode, allow, users, born, locks, req, starts, logins>>

Serve(r) == DevUser(r) \/ Find(r) \/ Link(r) \/ Starter(r) \/ ReadFeed(r) \/ Mark(r) \/ Commit(r)

Next ==
  \/ StartServer
  \/ StopServer
  \/ \E r \in Requests : Begin(r) \/ Serve(r)
  \/ \E e \in Emails : Ingest(e) \/ RemoveExamples(e)

Spec == Init /\ [][Next]_vars

-----------------------------------------------------------------------------
(* A row once linked to a subject is never bound to another one or freed,  *)
(* however logins, restarts and changes of the allowlist interleave        *)
(* (users.py: the external_id IS NULL guard of the link).                  *)
LinkStable ==
  [][\A e \in Emails :
       (users[e] # None /\ users[e].ext # None)
         => (users'[e] # None /\ users'[e].ext = users[e].ext)]_vars

(* A subject owns at most one row: a subject whose e-mail rotated between  *)
(* two logins in flight is not given two (users.py find, then link).       *)
SubjectOneRow ==
  \A e, f \in Emails :
    (users[e] # None /\ users[f] # None /\ users[e].ext # None
       /\ users[e].ext = users[f].ext) => e = f

(* A member marked as handled has a feed, unless the administrator emptied *)
(* it: the marker, which stops seeding for good, never appears without the *)
(* scores (starter_set.py ensure_starter_set, one transaction).            *)
StarterNotEmpty ==
  \A e \in Emails :
    (users[e] # None /\ users[e].seeded /\ e \notin cleared) => scores[e] # {}

(* users.py, before the last SELECT: a request the allowlist let in is     *)
(* denied only when its e-mail has no row or the row is linked to a        *)
(* different external id.                                                  *)
RefusedOnlyWhenForeign ==
  \A r \in Requests :
    req[r].pc = "refused" =>
      LET row == users[req[r].email] IN row = None \/ row.ext # req[r].sub
=============================================================================
