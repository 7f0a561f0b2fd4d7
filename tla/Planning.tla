------------------------------ MODULE Planning ------------------------------
(***************************************************************************)
(* From the settings page to the scrapers: users save profiles and         *)
(* searches while the planner of an overnight run reads them in one        *)
(* SELECT, resolves the target companies, writes each user's run artifacts *)
(* and enqueues a row per source; the worker later builds the scrapers of  *)
(* a row from its payload and the alias table.  The planner's connection   *)
(* is in autocommit mode and it may die between any two statements; the    *)
(* administrator then plans the same run id again.                         *)
(***************************************************************************)
EXTENDS UserConfig, AliasTable

CONSTANTS Users,        \* a sequence, in the order of their e-mails
          Searches,     \* the search configurations users may save
          Worlds,       \* which <<board, slug>> pairs may answer at the start
          Saved,        \* what users may have saved before: user -> None or a search
          Runs,         \* run ids
          Planners,     \* planner processes
          Overlap,      \* whether planners may run at the same time
          None,
          Torn,         \* an artifact that was opened for writing: empty, or a prefix of it
          MaxPlans, MaxSaves, MaxChanges    \* bounds: plans, saves, changes of the world

Files == {"search", "policies", "profile"}    \* search.yml, policies.yml, candidate_profile.yml
UserSet == {Users[i] : i \in DOMAIN Users}

ASSUME PlanningAssumption ==
  /\ \A s \in Searches : ValidSearch(s)
  /\ \A s \in Searches, k \in Sources : PipelineSearch(s)[k] # None
  /\ Overlap \in BOOLEAN
  /\ None \notin Searches /\ None \notin Files /\ Torn # None /\ Torn # "whole"
  /\ \A s \in Searches : PipelineSearch(s) # Torn /\ DerivePolicies(s) # Torn
  /\ Users \in Seq(UserSet)
  /\ \A f \in Saved : f \in [UserSet -> Searches \cup {None}]
  /\ \A w \in Worlds : w \subseteq Boards \X {p[2] : p \in UNION Worlds}

Names == UNION {s.companies : s \in Searches}

VARIABLES profile,      \* users with a row in app.candidate_profiles
          search,       \* app.user_search_configs: user -> None or a search
          enabled,      \* its column pipeline_enabled
          files,        \* run directory of a user: its artifacts, None, Torn or whole
          rows,         \* pipe.scrape_jobs: payload of <<run, user, source>> or None
          scraped,      \* what the scrapers of worked-off rows have asked for
          planner,      \* the planner processes
          snaps,        \* history: run -> the snapshots its plans read
          finished,     \* history: run -> the snapshots of its finished plans
          cut,          \* history: artifacts a planner died at, until they are written again
          plans, saves, changes

settings == <<profile, search, enabled>>
counters == <<plans, saves, changes>>
vars == <<aliasVars, settings, files, rows, scraped, planner, snaps, finished, cut, counters>>

Idle == [pc |-> "idle", run |-> None, snap |-> None, names |-> {}, at |-> 0,
         name |-> None, result |-> None, existing |-> None, file |-> None, todo |-> {}]
NoFiles == [search |-> None, policies |-> None, profile |-> None]

Init ==
  /\ live \in Worlds
  /\ alias = [n \in Names |-> NoRow] /\ companyBoards = {} /\ verified = {}
  /\ profile \in {UserSet, UserSet \ {Users[1]}}
  /\ search \in Saved /\ enabled = [u \in UserSet |-> TRUE]
  /\ files = [d \in Runs \X UserSet |-> NoFiles]
  /\ rows = [j \in Runs \X UserSet \X Sources |-> None]
  /\ scraped = {}
  /\ planner = [p \in Planners |-> Idle]
  /\ snaps = [r \in Runs |-> {}] /\ finished = [r \in Runs |-> {}] /\ cut = {}
  /\ plans = 0 /\ saves = 0 /\ changes = 0

-----------------------------------------------------------------------------
\* The settings page: each handler is one statement that commits.

Save ==
  /\ saves < MaxSaves /\ saves' = saves + 1
  /\ UNCHANGED <<aliasVars, files, rows, scraped, planner, snaps, finished, cut, plans, changes>>

PutProfile(u) ==
  /\ u \notin profile /\ Save
  /\ profile' = profile \cup {u}
  /\ UNCHANGED <<search, enabled>>

(* An upsert that leaves pipeline_enabled as it is.                        *)
PutSearch(u) ==
  /\ Save
  /\ \E s \in Searches \ {search[u]} : search' = [search EXCEPT ![u] = s]
  /\ UNCHANGED <<profile, enabled>>

(* 404 without a search configuration.                                     *)
PutPipelineEnabled(u) ==
  /\ search[u] # None /\ Save
  /\ enabled' = [enabled EXCEPT ![u] = ~@]
  /\ UNCHANGED <<profile, search>>

-----------------------------------------------------------------------------
\* The planner

Others(p) == UNCHANGED <<settings, saves, changes>>
Eligible(snap, u) == u \in snap.profile /\ snap.search[u] # None /\ snap.enabled[u]

(* _gather_companies: every target company of the eligible users, whether  *)
(* or not their searches ask for company boards.                           *)
Gathered(snap) == UNION {snap.search[u].companies : u \in {v \in UserSet : Eligible(snap, v)}}

(* plan_run reads all users in one SELECT.                                 *)
StartPlan(p) ==
  /\ planner[p].pc = "idle" /\ plans < MaxPlans
  /\ Overlap \/ \A q \in Planners : planner[q].pc = "idle"
  /\ plans' = plans + 1
  /\ \E r \in Runs :
       LET snap == [profile |-> profile, search |-> search, enabled |-> enabled] IN
       /\ planner' = [planner EXCEPT ![p] =
            [Idle EXCEPT !.pc = "lookup", !.run = r, !.snap = snap, !.names = Gathered(snap)]]
       /\ snaps' = [snaps EXCEPT ![r] = @ \cup {snap}]
  /\ UNCHANGED <<aliasVars, settings, files, rows, scraped, finished, cut, saves, changes>>

(* resolve_and_cache: a hit is done with; a miss is resolved, with any of  *)
(* the probes lost on the way.                                             *)
Lookup(p) ==
  /\ planner[p].pc = "lookup" /\ planner[p].names # {}
  /\ LET n == CHOOSE m \in planner[p].names : TRUE IN
       IF Cached(n)
       THEN /\ planner' = [planner EXCEPT ![p].names = @ \ {n}]
            /\ UNCHANGED verified
       ELSE \E lost \in SUBSET live : \E result \in Resolutions(n, lost) :
            /\ planner' = [planner EXCEPT ![p].pc = "select", ![p].name = n,
                             ![p].names = @ \ {n}, ![p].result = result]
            /\ verified' = verified \cup Answers(result.slug, lost)
  /\ UNCHANGED <<live, alias, companyBoards, settings, files, rows, scraped, snaps, finished, cut, counters>>

WriteSelect(p) ==
  /\ planner[p].pc = "select"
  /\ planner' = [planner EXCEPT ![p].pc = "upsert", ![p].existing = alias[planner[p].name]]
  /\ UNCHANGED <<aliasVars, settings, files, rows, scraped, snaps, finished, cut, counters>>

WriteUpsert(p) ==
  /\ planner[p].pc = "upsert"
  /\ LET result == planner[p].result  existing == planner[p].existing IN
       /\ WriteAlias(planner[p].name, existing, result)
       /\ planner' = [planner EXCEPT ![p].pc =
            IF result.status = "resolved" /\ ~Collides(existing, result)
            THEN "board" ELSE "lookup"]
  /\ UNCHANGED <<live, companyBoards, verified, settings, files, rows, scraped, snaps, finished, cut, counters>>

WriteBoard(p) ==
  /\ planner[p].pc = "board"
  /\ companyBoards' = companyBoards \cup {<<planner[p].result.board, planner[p].result.slug>>}
  /\ planner' = [planner EXCEPT ![p].pc = "lookup"]
  /\ UNCHANGED <<live, alias, verified, settings, files, rows, scraped, snaps, finished, cut, counters>>

Advance(p) == [planner EXCEPT ![p].pc = "user", ![p].at = @ + 1,
                       ![p].file = None, ![p].todo = {}]

EndResolve(p) ==
  /\ planner[p].pc = "lookup" /\ planner[p].names = {}
  /\ planner' = Advance(p)
  /\ UNCHANGED <<aliasVars, settings, files, rows, scraped, snaps, finished, cut, counters>>

(* A fault: the first user that is skipped ends the loop.                  *)
SkipEnds(p) ==
  LET me == planner[p] IN
  /\ me.pc = "user" /\ me.at <= Len(Users) /\ ~Eligible(me.snap, Users[me.at])
  /\ planner' = [planner EXCEPT ![p].at = Len(Users) + 1]
  /\ UNCHANGED <<aliasVars, settings, files, rows, scraped, snaps, finished, cut, counters>>

(* A user without profile or search, or switched off, is skipped.          *)
SkipUser(p) ==
  LET me == planner[p] IN
  /\ me.pc = "user" /\ me.at <= Len(Users) /\ ~Eligible(me.snap, Users[me.at])
  /\ planner' = Advance(p)
  /\ UNCHANGED <<aliasVars, settings, files, rows, scraped, snaps, finished, cut, counters>>

(* The artifact _materialize_user has come to.                             *)
Due(me) == IF me.pc = "user" THEN "search" ELSE me.pc

(* Path.write_text opens the file, which truncates it, and then writes:    *)
(* search.yml, policies.yml and candidate_profile.yml in turn.             *)
Truncate(p) ==
  LET me == planner[p]  u == Users[me.at] IN
  /\ me.pc \in {"user", "policies", "profile"} /\ me.file = None
  /\ me.pc = "user" => me.at <= Len(Users) /\ Eligible(me.snap, u)
  /\ files' = [files EXCEPT ![<<me.run, u>>][Due(me)] = Torn]
  /\ planner' = [planner EXCEPT ![p].file = Due(me)]
  /\ UNCHANGED <<aliasVars, settings, rows, scraped, snaps, finished, cut, counters>>

(* The write of planner p to the artifact it has open.                     *)
WriteText(p, file, text) ==
  LET dir == <<planner[p].run, Users[planner[p].at]>> IN
  /\ planner[p].file = file
  /\ files' = [files EXCEPT ![dir][file] = text]
  /\ cut' = cut \ {<<dir[1], dir[2], file>>}
  /\ UNCHANGED <<aliasVars, settings, rows, scraped, snaps, finished, counters>>

Materialize(p) ==
  LET me == planner[p] IN
  /\ me.pc = "user"
  /\ WriteText(p, "search", PipelineSearch(me.snap.search[Users[me.at]]))
  /\ planner' = [planner EXCEPT ![p].pc = "policies", ![p].file = None]

MaterializePolicies(p) ==
  LET me == planner[p] IN
  /\ me.pc = "policies"
  /\ WriteText(p, "policies", DerivePolicies(me.snap.search[Users[me.at]]))
  /\ planner' = [planner EXCEPT ![p].pc = "profile", ![p].file = None]

(* A user whose search has no section is skipped once the files are there. *)
MaterializeProfile(p) ==
  LET me == planner[p]
      sources == SourcesFor(PipelineSearch(me.snap.search[Users[me.at]])) IN
  /\ me.pc = "profile"
  /\ WriteText(p, "profile", "whole")
  /\ planner' = IF sources = {} THEN Advance(p)
                ELSE [planner EXCEPT ![p].pc = "enqueue", ![p].file = None, ![p].todo = sources]

(* A fault: the payload is read again when it is enqueued.                 *)
EnqueueFresh(p) ==
  LET me == planner[p]  u == Users[me.at]
      k == CHOOSE s \in me.todo : TRUE
      job == <<me.run, u, k>> IN
  /\ me.pc = "enqueue"
  /\ rows' = [rows EXCEPT ![job] = IF @ = None THEN PipelineSearch(search[u])[k] ELSE @]
  /\ planner' = IF me.todo = {k} THEN Advance(p) ELSE [planner EXCEPT ![p].todo = @ \ {k}]
  /\ UNCHANGED <<aliasVars, settings, files, scraped, snaps, finished, cut, counters>>

(* queue.enqueue: ON CONFLICT DO NOTHING.                                  *)
EnqueueSource(p) ==
  LET me == planner[p]  u == Users[me.at]
      k == CHOOSE s \in me.todo : TRUE
      job == <<me.run, u, k>> IN
  /\ me.pc = "enqueue"
  /\ rows' = [rows EXCEPT ![job] = IF @ = None THEN PipelineSearch(me.snap.search[u])[k] ELSE @]
  /\ planner' = IF me.todo = {k} THEN Advance(p) ELSE [planner EXCEPT ![p].todo = @ \ {k}]
  /\ UNCHANGED <<aliasVars, settings, files, scraped, snaps, finished, cut, counters>>

EndPlan(p) ==
  LET me == planner[p] IN
  /\ me.pc = "user" /\ me.at > Len(Users)
  /\ planner' = [planner EXCEPT ![p] = Idle]
  /\ finished' = [finished EXCEPT ![me.run] = @ \cup {me.snap}]
  /\ UNCHANGED <<aliasVars, settings, files, rows, scraped, snaps, cut, counters>>

Die(p) ==
  /\ planner[p].pc # "idle"
  /\ planner' = [planner EXCEPT ![p] = Idle]
  /\ cut' = IF planner[p].file = None THEN cut
            ELSE cut \cup {<<planner[p].run, Users[planner[p].at], planner[p].file>>}
  /\ UNCHANGED <<aliasVars, settings, files, rows, scraped, snaps, finished, counters>>

-----------------------------------------------------------------------------
\* The worker, the discover command's function, and the world

(* default_scrape_fn: the scrapers of a row are built from its payload.    *)
Scrape(job) ==
  /\ rows[job] # None /\ job[3] = "companies"
  /\ scraped' = scraped \cup UNION {Target(n) : n \in rows[job]}
  /\ scraped' # scraped
  /\ UNCHANGED <<aliasVars, settings, files, rows, planner, snaps, finished, cut, counters>>

(* discover.run with a connection, for a company that is one word: writes  *)
(* over whatever row there is.                                             *)
Discover(n) ==
  /\ changes < MaxChanges /\ changes' = changes + 1
  /\ Overlap \/ \A q \in Planners : planner[q].pc = "idle"
  /\ Len(n) = 1
  /\ \E lost \in SUBSET live :
       LET found == Probe(n, lost)
           result == IF Cardinality(found) = 1
                     THEN Result("resolved", CHOOSE b \in found : TRUE, n)
                     ELSE Result("needs_review", NoRow, n) IN
       /\ found # {}
       /\ WriteAlias(n, alias[n], result)
       /\ companyBoards' = IF result.status = "resolved" /\ ~Collides(alias[n], result)
                           THEN companyBoards \cup {<<result.board, n>>} ELSE companyBoards
       /\ verified' = verified \cup Answers(n, lost)
  /\ UNCHANGED <<live, settings, files, rows, scraped, planner, snaps, finished, cut, plans, saves>>

(* A company moves: a board stops or starts to answer for a slug.          *)
Move ==
  /\ changes < MaxChanges /\ changes' = changes + 1
  /\ \E n \in Names : \E i \in DOMAIN Candidates(n) : \E b \in Boards :
       LET pair == <<b, Candidates(n)[i]>> IN
       live' = IF pair \in live THEN live \ {pair} ELSE live \cup {pair}
  /\ UNCHANGED <<alias, companyBoards, verified, settings, files, rows, scraped, planner,
                 snaps, finished, cut, plans, saves>>

(* Ninety days pass for a row nobody could resolve.                        *)
Age(n) ==
  /\ alias[n] # NoRow /\ alias[n].status = "unresolved" /\ ~alias[n].old
  /\ alias' = [alias EXCEPT ![n].old = TRUE]
  /\ UNCHANGED <<live, companyBoards, verified, settings, files, rows, scraped, planner,
                 snaps, finished, cut, counters>>

Plan(p) ==
  \/ Lookup(p) \/ WriteSelect(p) \/ WriteUpsert(p) \/ WriteBoard(p) \/ EndResolve(p)
  \/ SkipUser(p) \/ Truncate(p) \/ Materialize(p) \/ MaterializePolicies(p) \/ MaterializeProfile(p)
  \/ EnqueueSource(p) \/ EndPlan(p)

Next ==
  \/ \E u \in UserSet : PutProfile(u) \/ PutSearch(u) \/ PutPipelineEnabled(u)
  \/ \E p \in Planners : StartPlan(p) \/ Plan(p) \/ Die(p)
  \/ \E job \in DOMAIN rows : Scrape(job)
  \/ \E n \in Names : Discover(n) \/ Age(n)
  \/ Move

Spec == Init /\ [][Next]_vars

-----------------------------------------------------------------------------
(* A board is never scraped for a slug that no probe has confirmed, from   *)
(* the lookup of the planner to the scraper of the worker (the             *)
(* verify-before-trust rule of specs/company_slug_resolution.md).          *)
ScrapesVerified == scraped \subseteq verified

(* Whatever crashes and replans came before, a plan that finished leaves   *)
(* every user its snapshot holds eligible with a row for each section of   *)
(* the search (plan_run; users that are skipped end nobody else's plan).   *)
PlanComplete ==
  \A r \in Runs : \A snap \in finished[r] : \A u \in UserSet :
    Eligible(snap, u) =>
      \A k \in SourcesFor(PipelineSearch(snap.search[u])) : rows[<<r, u, k>>] # None

(* While a run id has been planned from one state of the settings, the     *)
(* rows of a user and the files beside them come from one search, whatever *)
(* is saved meanwhile.  A file may be torn, beside rows a worker may claim *)
(* too, but only while a planner is writing it or because one died there   *)
(* and no plan has written it since (_materialize_user, enqueue).          *)
RowsMatchFiles ==
  /\ \A r \in Runs : Cardinality(snaps[r]) = 1 =>
       \A u \in UserSet : (\E k \in Sources : rows[<<r, u, k>>] # None) =>
         /\ files[<<r, u>>].profile \in {Torn, "whole"}
         /\ \E s \in Searches :
              /\ files[<<r, u>>].search \in {Torn, PipelineSearch(s)}
              /\ files[<<r, u>>].policies \in {Torn, DerivePolicies(s)}
              /\ \A k \in Sources : rows[<<r, u, k>>] \in {None, PipelineSearch(s)[k]}
  /\ \A r \in Runs, u \in UserSet, file \in Files :
       files[<<r, u>>][file] = Torn =>
         \/ <<r, u, file>> \in cut
         \/ \E p \in Planners : planner[p].run = r /\ Users[planner[p].at] = u /\ planner[p].file = file

(* A name resolved to a slug is never resolved to another one in one write *)
(* (AliasCache.write: the collision is flagged for review).                *)
NoRepoint ==
  [][\A n \in Names :
       (alias[n] # NoRow /\ alias[n].status = "resolved"
          /\ alias'[n].status = "resolved") => alias'[n].slug = alias[n].slug]_vars
=============================================================================
