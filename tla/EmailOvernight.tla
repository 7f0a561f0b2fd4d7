-------------------------- MODULE EmailOvernight ---------------------------
(***************************************************************************)
(* The worker of an overnight run and the email-overnight pipeline beside  *)
(* it: both write scrape files, finish rows of pipe.scrape_jobs and fan    *)
(* the succeeded rows of their run in.  The worker applies the user's      *)
(* title filter and embedding veto to what it scrapes.  The email pipeline *)
(* enriches one user's alerts in a browser, records each e-mail as seen    *)
(* and writes its row itself, without a claim.                             *)
(*                                                                         *)
(* The rows of the overnight run are planned already (Planning).  A claim  *)
(* is one step here: Overnight splits it and runs two workers.  Users have *)
(* different directories (their slugs differ).                             *)
(***************************************************************************)
EXTENDS ScrapeQueue, FanIn, EmbeddingVeto, EmailAlerts

CONSTANTS Planned,        \* the rows the planner enqueued, in order
          NightRun,       \* their run
          EmailUser,      \* the user of the email pipeline
          EmailRuns,      \* its run ids: two attempts in a minute share one
          UserRank,       \* user -> number, the order of the addresses
          SourceRank,     \* source -> number, the order of the sources
          Offers,         \* row -> the postings its searches find
          Lengths,        \* source -> the lengths its descriptions can have
          Scenarios,      \* system configuration, users' policies, and how
                          \* many lives each pipeline may have
          NoFile,         \* a file that was never written
          EmailOptions,   \* the options email-overnight can be called with
          Together,       \* whether both pipelines may be alive at once
          MaxFaults       \* crashes and interrupts in all

EMAIL_SOURCE == "ziprecruiter_email"

ASSUME NightOK ==
  /\ IsFiniteSet(Jobs) /\ Planned \in Seq(Jobs) /\ NightRun \in Runs
  /\ EmailRuns \subseteq Runs /\ EmailUser \in Users /\ EMAIL_SOURCE \in Sources

\* Addresses and sources are unique.
ASSUME RanksOK ==
  /\ \A u, v \in Users : UserRank[u] \in Nat /\ (UserRank[u] = UserRank[v] => u = v)
  /\ \A s, t \in Sources : SourceRank[s] \in Nat /\ (SourceRank[s] = SourceRank[t] => s = t)

\* The rows with a configuration section: a worker can scrape them.
Searchable == {j \in ToSet(Planned) : j.source # EMAIL_SOURCE}

ASSUME OffersOK ==
  \A j \in Searchable :
    /\ DOMAIN Offers[j] = 1..Len(Offers[j]) /\ Len(Offers[j]) \in Nat
    /\ Lengths[j.source] \subseteq Nat
    /\ \A i \in DOMAIN Offers[j] : /\ Similarity[j.user][Offers[j][i].title] \in Nat
                                   /\ HashRank[Offers[j][i].key] \in Nat

\* A depth is a share of the batch: both configurations check that it is.
ASSUME PoliciesOK ==
  /\ Unset \notin BOOLEAN /\ Unset \notin 0..100
  /\ \A sc \in Scenarios :
       /\ sc.system.enabled \in BOOLEAN /\ sc.system.depth \in 0..100
       /\ \A u \in Users : /\ sc.policies[u].veto = Unset \/ sc.policies[u].veto \in BOOLEAN
                           /\ sc.policies[u].depth = Unset \/ sc.policies[u].depth \in 0..100

ASSUME OptionsOK ==
  \A opt \in EmailOptions :
    /\ opt.cache \in BOOLEAN
    /\ \A n \in {opt.maxEmails, opt.maxFiles} : n = Unlimited \/ n \in Nat

Idle == [pc |-> "idle"]
Pipelines == {"worker", "email"}

SeenStore == INSTANCE AnalysisCache

VARIABLES settings,  \* what the configuration files and policies say
          files,     \* row -> its scrape file
          scraped,   \* row -> what its search found when it wrote the file
          vectors,   \* the embedding cache file
          union,     \* run -> postings.jsonl of its consolidation
          table,     \* run -> key -> requested_by in consolidated_postings
          disk,      \* the downloaded e-mails, last written first
          sent,      \* the e-mails sent so far
          aged,      \* those sent more than 96 hours ago
          seen,      \* the processed-email cache file
          enriched,  \* enriched.jsonl of a detached email-enrich
          proc,      \* the two pipelines
          lives,     \* lives each may still begin
          faults,    \* crashes and interrupts so far
          visits,    \* link -> browser visits under the cache
          lost       \* crashes of the email pipeline, torn appends twice

stage == <<settings, files, scraped, vectors>>
mail == <<disk, sent, aged, seen, enriched, visits>>
fanned == <<union, table>>
count == <<lives, faults, lost>>
emailVars == <<queueVars, stage, mail, fanned, count, proc>>

EmailInit ==
  /\ status = [j \in Jobs |-> IF j \in ToSet(Planned) THEN "pending" ELSE "absent"]
  /\ inserted = Planned
  /\ attempts = [j \in Jobs |-> 0]
  /\ \E sc \in Scenarios : settings = [system |-> sc.system, policies |-> sc.policies] /\ lives = sc.lives
  /\ files = [j \in Jobs |-> NoFile]
  /\ scraped = [j \in Jobs |-> <<>>]
  /\ vectors = NoVectors
  /\ union = [r \in Runs |-> <<>>]
  /\ table = [r \in Runs |-> <<>>]
  /\ disk = <<>> /\ sent = {} /\ aged = {}
  /\ seen = SeenStore!Empty
  /\ enriched = NoFile
  /\ proc = [p \in Pipelines |-> Idle]
  /\ faults = 0 /\ lost = 0
  /\ visits = [l \in AllLinks |-> 0]

At(p, pc) == proc[p].pc = pc
MayStart(p) == At(p, "idle") /\ lives[p] > 0
               /\ (Together \/ \A q \in Pipelines : At(q, "idle"))
Onward(p, pc) == proc' = [proc EXCEPT ![p].pc = pc]
Exit(p) == proc' = [proc EXCEPT ![p] = Idle]

-----------------------------------------------------------------------------
\* The worker: claim, scrape, filter, veto, persist, mark.

StartWorker ==
  /\ MayStart("worker")
  /\ lives' = [lives EXCEPT !["worker"] = @ - 1]
  /\ proc' = [proc EXCEPT !["worker"] =
                [pc |-> "claim", run |-> NightRun, row |-> Planned[1], jobs |-> <<>>, raw |-> <<>>]]
  /\ UNCHANGED <<queueVars, stage, mail, fanned, faults, lost>>

Claim(j) ==
  /\ At("worker", "claim")
  /\ NextClaim(j, {})
  /\ Lease(j)
  /\ proc' = [proc EXCEPT !["worker"] = [@ EXCEPT !.pc = "scrape", !.row = j]]
  /\ UNCHANGED <<stage, mail, fanned, count>>

QueueDrained ==
  /\ At("worker", "claim")
  /\ NothingClaimable({})
  /\ Onward("worker", "read")
  /\ UNCHANGED <<queueVars, stage, mail, fanned, count>>

\* The postings of the row's searches, each with some length.  The payload
\* of an email row is empty, and no configuration without a section loads.
Found(j) ==
  {[i \in DOMAIN Offers[j] |-> [key |-> Offers[j][i].key, title |-> Offers[j][i].title,
                                desc |-> ls[i], ctxs |-> {<<j.user, j.source>>}]] :
     ls \in [DOMAIN Offers[j] -> Lengths[j.source]]}

Scrape ==
  /\ At("worker", "scrape")
  /\ proc["worker"].row.source # EMAIL_SOURCE
  /\ \E found \in Found(proc["worker"].row) :
       proc' = [proc EXCEPT !["worker"] = [@ EXCEPT !.pc = "filter", !.raw = found]]
  /\ UNCHANGED <<queueVars, stage, mail, fanned, count>>

ScrapeRaises ==
  /\ At("worker", "scrape")
  /\ Onward("worker", "fail")
  /\ UNCHANGED <<queueVars, stage, mail, fanned, count>>

Policies(u) == settings.policies[u]

\* The configuration, the reference text and the cache are read whenever the
\* veto is enabled, before an empty batch or a zero depth ends it.
Filter ==
  LET w == proc["worker"]
      kept == TitleFilter(w.raw, Policies(w.row.user).excluded)
      veto == w.row.source = "companies" /\ Enabled(settings.system, Policies(w.row.user))
  IN
  /\ At("worker", "filter")
  /\ proc' = [proc EXCEPT !["worker"] =
       [@ EXCEPT !.jobs = kept,
                 !.pc = IF veto /\ ~Readable(vectors) THEN "fail"
                        ELSE IF veto /\ Vetoes(settings.system, Policies(w.row.user), kept)
                             THEN "embed" ELSE "persist"]]
  /\ UNCHANGED <<queueVars, stage, mail, fanned, count>>

Misses == LET w == proc["worker"] IN Texts(w.row.user, w.jobs) \ vectors.texts

\* Only a complete answer is cached and ranked.
Embed ==
  LET w == proc["worker"] IN
  /\ At("worker", "embed")
  /\ vectors' = AppendVectors(vectors, Misses)
  /\ proc' = [proc EXCEPT !["worker"] =
       [@ EXCEPT !.pc = "persist",
                 !.jobs = Veto(w.row.user, w.jobs,
                               Depth(settings.system, Policies(w.row.user)))]]
  /\ UNCHANGED <<queueVars, settings, files, scraped, mail, fanned, count>>

EmbedRaises ==
  /\ At("worker", "embed") /\ Misses # {}
  /\ Onward("worker", "fail")
  /\ UNCHANGED <<queueVars, stage, mail, fanned, count>>

Persist ==
  LET w == proc["worker"] IN
  /\ At("worker", "persist")
  /\ files' = [files EXCEPT ![w.row] = w.jobs]
  /\ scraped' = [scraped EXCEPT ![w.row] = w.raw]
  /\ Onward("worker", "succeed")
  /\ UNCHANGED <<queueVars, settings, vectors, mail, fanned, count>>

Finish ==
  /\ At("worker", "succeed") \/ At("worker", "fail")
  /\ Mark(proc["worker"].row, IF At("worker", "succeed") THEN "succeeded" ELSE "failed")
  /\ Onward("worker", "claim")
  /\ UNCHANGED <<stage, mail, fanned, count>>

-----------------------------------------------------------------------------
\* consolidate_run, by either pipeline for its own run.  A succeeded row
\* without a file would raise; SucceededFileWhole of Overnight says there is
\* none, and no step here could make one.

Succeeded(r) == {j \in RowsIn("succeeded") : j.run = r}

\* ORDER BY email, source: the order decides between equal descriptions.
RowBefore(j, k) ==
  \/ UserRank[j.user] < UserRank[k.user]
  \/ j.user = k.user /\ SourceRank[j.source] < SourceRank[k.source]

RowOrder(r) == InOrder(Succeeded(r), {p \in Jobs \X Jobs : RowBefore(p[1], p[2])})

Postings(r) ==
  LET rows == RowOrder(r)
      read[n \in 0..Len(rows)] == IF n = 0 THEN <<>> ELSE read[n - 1] \o files[rows[n]]
  IN  read[Len(rows)]

RequestedBy(r, k) == {j.user : j \in {j \in Succeeded(r) : k \in Keys(files[j])}}

ReadFiles(p) ==
  LET r == proc[p].run IN
  /\ At(p, "read")
  /\ union' = [union EXCEPT ![r] = Canonical(Postings(r))]
  /\ proc' = [proc EXCEPT ![p] = [pc |-> "upsert", run |-> r, row |-> @.row, jobs |-> @.jobs,
       rows |-> [i \in DOMAIN Canonical(Postings(r)) |->
                   LET k == Key(Canonical(Postings(r))[i]) IN <<k, RequestedBy(r, k)>>]]]
  /\ UNCHANGED <<queueVars, stage, mail, table, count>>

\* INSERT ... ON CONFLICT (run_id, dedup_hash) DO UPDATE.
WithRow(rows, k, us) == [x \in DOMAIN rows \cup {k} |-> IF x = k THEN us ELSE rows[x]]

Upsert(p) ==
  LET r == proc[p].run  row == Head(proc[p].rows) IN
  /\ At(p, "upsert") /\ proc[p].rows # <<>>
  /\ table' = [table EXCEPT ![r] = WithRow(@, row[1], row[2])]
  /\ proc' = [proc EXCEPT ![p].rows = Tail(@)]
  /\ UNCHANGED <<queueVars, stage, mail, union, count>>

Consolidated(p) ==
  /\ At(p, "upsert") /\ proc[p].rows = <<>>
  /\ Onward(p, "consolidated")
  /\ UNCHANGED <<queueVars, stage, mail, fanned, count>>

\* Classification and scoring (Scoring), and the end of the process.
EndRun(p) ==
  /\ At(p, "consolidated")
  /\ Exit(p)
  /\ UNCHANGED <<queueVars, stage, mail, fanned, count>>

-----------------------------------------------------------------------------
\* The email pipeline.  Its modes: "inline" is email-overnight, "enrich" the
\* detached email-enrich, "score" email-overnight --enriched-input.

EmailRow(r) == [run |-> r, user |-> EmailUser, source |-> EMAIL_SOURCE]

StartEmail(opt, r) ==
  /\ MayStart("email")
  /\ lives' = [lives EXCEPT !["email"] = @ - 1]
  /\ opt.mode = "score" => enriched # NoFile
  /\ proc' = [proc EXCEPT !["email"] =
       [pc |-> IF opt.mode = "score" THEN "load" ELSE IF opt.pull THEN "pull" ELSE "select",
        opt |-> opt, run |-> r, row |-> EmailRow(r), seen |-> SeenStore!Load(seen),
        todo |-> <<>>, links |-> <<>>, got |-> <<>>, jobs |-> <<>>]]
  /\ UNCHANGED <<queueVars, stage, mail, fanned, faults, lost>>

Email == proc["email"]
EmailGoes(new) == proc' = [proc EXCEPT !["email"] = new]

LoadEnriched ==
  /\ At("email", "load")
  /\ EmailGoes([Email EXCEPT !.jobs = enriched, !.pc = "hand over"])
  /\ UNCHANGED <<queueVars, stage, mail, fanned, count>>

\* Gmail has what was sent by now.
Pull ==
  /\ At("email", "pull")
  /\ \E n \in Emails \cup {0} :
       /\ \A e \in sent : e <= n
       /\ sent' = {e \in Emails : e <= n}
       /\ disk' = Pulled(disk, sent', Email.opt.maxEmails)
  /\ Onward("email", "select")
  /\ UNCHANGED <<queueVars, stage, aged, seen, enriched, visits, fanned, count>>

Select ==
  /\ At("email", "select")
  /\ EmailGoes([Email EXCEPT !.todo = Selected(disk, Email.opt.maxFiles), !.pc = "loop"])
  /\ UNCHANGED <<queueVars, stage, mail, fanned, count>>

MayRead(e) ==
  /\ ~(Email.opt.cache /\ SeenStore!Hit(Email.seen, e))
  /\ Email.opt.stale \/ e \notin aged

\* The next e-mail is opened, or skipped: already processed, or aged out.
NextEmail ==
  LET e == Head(Email.todo) IN
  /\ At("email", "loop") /\ Email.todo # <<>>
  /\ EmailGoes(IF MayRead(e) THEN [Email EXCEPT !.pc = "visit", !.links = Links[e], !.got = <<>>]
               ELSE [Email EXCEPT !.todo = Tail(@)])
  /\ UNCHANGED <<queueVars, stage, mail, fanned, count>>

Full(jobs) == Email.opt.maxJobs # Unlimited /\ Len(jobs) >= Email.opt.maxJobs

\* One job block: the router, and for a live ZipRecruiter link the browser.
Visit ==
  LET l == Head(Email.links)
      routed == Routed(l, Head(Email.todo) \in aged)
  IN
  /\ At("email", "visit") /\ Email.links # <<>> /\ ~Full(Email.jobs \o Email.got)
  /\ \E posting \in IF routed # {} THEN routed ELSE Fetched(l) :
       EmailGoes([Email EXCEPT !.links = Tail(@), !.got = Append(@, posting)])
  /\ visits' = IF routed = {} /\ Email.opt.cache THEN [visits EXCEPT ![l] = @ + 1] ELSE visits
  /\ UNCHANGED <<queueVars, stage, disk, sent, aged, seen, enriched, fanned, count>>

Parsed == At("email", "visit") /\ (Email.links = <<>> \/ Full(Email.jobs \o Email.got))

\* The e-mail ends: its jobs join the batch, and the cache may record it.
Close(add) ==
  LET e == Head(Email.todo)  jobs == Email.jobs \o Email.got IN
  /\ Parsed
  /\ seen' = IF add THEN SeenStore!AppendLine(seen, e, TRUE) ELSE seen
  /\ EmailGoes([Email EXCEPT
       !.seen = IF add THEN SeenStore!With(@, e, TRUE) ELSE @,
       !.jobs = jobs, !.got = <<>>, !.links = <<>>, !.pc = "loop",
       !.todo = IF Full(jobs) THEN <<>> ELSE Tail(@)])
  /\ UNCHANGED <<queueVars, stage, disk, sent, aged, enriched, visits, fanned, count>>

\* Recording only the e-mails that yielded something.
RecordEnriched == Close(Email.opt.cache /\ OnlyEnriched(Email.got) # <<>>)

\* The e-mail is recorded once its last link has been visited, whatever the
\* visits yielded.
Record == Close(Email.opt.cache)

Keep ==
  /\ At("email", "loop") /\ Email.todo = <<>>
  /\ EmailGoes([Email EXCEPT !.jobs = OnlyEnriched(@),
                             !.pc = IF Email.opt.mode = "enrich" THEN "write" ELSE "hand over"])
  /\ UNCHANGED <<queueVars, stage, mail, fanned, count>>

\* email-enrich ends with its file.
WriteEnriched ==
  /\ At("email", "write")
  /\ enriched' = Email.jobs
  /\ Exit("email")
  /\ UNCHANGED <<queueVars, stage, disk, sent, aged, seen, visits, fanned, count>>

NothingEnriched ==
  /\ At("email", "hand over") /\ Email.jobs = <<>>
  /\ Exit("email")
  /\ UNCHANGED <<queueVars, stage, mail, fanned, count>>

\* The scrape file comes before the row, and replaces an earlier one.
PersistEmail ==
  /\ At("email", "hand over") /\ Email.jobs # <<>>
  /\ files' = [files EXCEPT ![Email.row] = Email.jobs]
  /\ Onward("email", "enqueue")
  /\ UNCHANGED <<queueVars, settings, scraped, vectors, mail, fanned, count>>

\* An existing row is a RuntimeError.
EnqueueEmail ==
  /\ At("email", "enqueue")
  /\ Enqueue(Email.row)
  /\ IF status[Email.row] = "absent" THEN Onward("email", "succeed") ELSE Exit("email")
  /\ UNCHANGED <<stage, mail, fanned, count>>

MarkEmail ==
  /\ At("email", "succeed")
  /\ Mark(Email.row, "succeeded")
  /\ Onward("email", "read")
  /\ UNCHANGED <<stage, mail, fanned, count>>

-----------------------------------------------------------------------------
\* The world, and the ends nobody asked for.

\* 96 hours pass: the links expire with the e-mail, the oldest first.  Time
\* passes everywhere; only here does anything look at it.
Age(e) ==
  /\ At("email", "loop") \/ At("email", "visit")
  /\ e \in sent \ aged /\ \A d \in Emails : d < e => d \in aged
  /\ aged' = aged \cup {e}
  /\ UNCHANGED <<queueVars, stage, disk, sent, seen, enriched, visits, fanned, count, proc>>

Fault == faults < MaxFaults /\ faults' = faults + 1

\* SIGINT or SIGTERM: the overnight command requeues its run's running rows.
InterruptWorker ==
  /\ ~At("worker", "idle") /\ Fault
  /\ RequeueRunning(NightRun)
  /\ Exit("worker")
  /\ UNCHANGED <<stage, mail, fanned, lives, lost>>

CrashWorker ==
  /\ ~At("worker", "idle") /\ Fault
  /\ Exit("worker")
  /\ files' \in IF At("worker", "persist")
                THEN {[files EXCEPT ![proc["worker"].row] = SubSeq(proc["worker"].jobs, 1, n)] :
                        n \in 0..Len(proc["worker"].jobs)} \cup {files}
                ELSE {files}
  /\ vectors' \in IF At("worker", "embed") THEN CutAppends(vectors, Misses) ELSE {vectors}
  /\ UNCHANGED <<queueVars, settings, scraped, mail, fanned, lives, lost>>

CrashEmail ==
  /\ ~At("email", "idle") /\ Fault
  /\ Exit("email")
  /\ \/ lost' = lost + 1 /\ UNCHANGED seen
     \/ /\ Parsed /\ Email.opt.cache
        /\ seen' = SeenStore!Tear(seen) /\ lost' = lost + 2
  /\ files' \in IF At("email", "hand over")
                THEN {[files EXCEPT ![Email.row] = SubSeq(Email.jobs, 1, n)] :
                        n \in 0..Len(Email.jobs)} \cup {files}
                ELSE {files}
  /\ UNCHANGED <<queueVars, settings, scraped, vectors, disk, sent, aged, enriched, visits, fanned, lives>>

Worker ==
  \/ StartWorker \/ QueueDrained \/ \E j \in Jobs : Claim(j)
  \/ Scrape \/ ScrapeRaises \/ Filter \/ Embed \/ EmbedRaises \/ Persist \/ Finish

EmailPipeline ==
  \/ \E opt \in EmailOptions, r \in EmailRuns : StartEmail(opt, r)
  \/ LoadEnriched \/ Pull \/ Select \/ NextEmail \/ Visit \/ Record \/ Keep
  \/ WriteEnriched \/ NothingEnriched \/ PersistEmail \/ EnqueueEmail \/ MarkEmail

FanInOf(p) == ReadFiles(p) \/ Upsert(p) \/ Consolidated(p) \/ EndRun(p)

World == (\E e \in Emails : Age(e)) \/ InterruptWorker \/ CrashWorker \/ CrashEmail

EmailNext == Worker \/ EmailPipeline \/ (\E p \in Pipelines : FanInOf(p)) \/ World

EmailSpec == EmailInit /\ [][EmailNext]_emailVars

-----------------------------------------------------------------------------
EmailTypeOK ==
  /\ QueueTypeOK
  /\ \A p \in Pipelines : lives[p] \in Nat
  /\ faults \in 0..MaxFaults
  /\ aged \subseteq sent /\ sent \subseteq Emails
  /\ ToSet(disk) \subseteq sent /\ Len(disk) = Cardinality(ToSet(disk))

\* consolidation.py:108-113 and dedup.py:2-9: a pipeline that gets past its
\* consolidation has, for every posting of the succeeded rows, one posting in
\* the union with the longest of the descriptions and the search contexts of
\* all copies, and a table row that names exactly the users who found it.
\* What the email pipeline handed over is among them, for its user.
FannedIn ==
  \A p \in Pipelines : At(p, "consolidated") =>
    LET r == proc[p].run
        copies == UNION {ToSet(files[j]) : j \in Succeeded(r)}
        same(u) == {c \in copies : c.key = u.key}
    IN
    /\ \A c \in copies : \E u \in ToSet(union[r]) : u.key = c.key
    /\ \A i, k \in DOMAIN union[r] : union[r][i].key = union[r][k].key => i = k
    /\ \A u \in ToSet(union[r]) :
         /\ same(u) # {}
         /\ \A c \in same(u) : c.desc <= u.desc
         /\ u.ctxs = UNION {c.ctxs : c \in same(u)}
         /\ table[r][u.key] = {j.user : j \in {j \in Succeeded(r) : same(u) \cap ToSet(files[j]) # {}}}
    /\ p = "email" => \A i \in DOMAIN proc[p].jobs : EmailUser \in table[r][proc[p].jobs[i].key]

\* What the row's user, and the system, let a scrape of raw come down to out.
Justified(cfg, j, raw, out) ==
  LET u == j.user
      pol == cfg.policies[u]
      excluded(p) == p.title \in pol.excluded
      dropped == {p \in ToSet(raw) \ ToSet(out) : ~excluded(p)}
      depth == IF pol.depth = Unset THEN cfg.system.depth ELSE pol.depth
  IN
  /\ \A p \in ToSet(out) : ~excluded(p)
  /\ dropped # {} => j.source = "companies" /\ cfg.system.enabled /\ pol.veto # FALSE
  /\ \A p \in dropped, q \in ToSet(out) :
       Similarity[u][p.title] <= Similarity[u][q.title]
  /\ 100 * Cardinality(dropped) <= depth * (Cardinality(dropped) + Len(out))

\* worker.py:240-243: whatever retries and caches the row went through, a
\* scraped posting that is missing from a finished row's file was excluded by
\* its user's terms, or vetoed while the system has the veto on and the user
\* has not switched it off; and then a title the user is closer to stays
\* before one further away is kept, and no more than the depth's share go.
VetoRatified ==
  \A j \in RowsIn("succeeded") : j.run = NightRun /\ j.source # EMAIL_SOURCE =>
    Justified(settings, j, scraped[j], files[j])

\* process_eml_directory.py:168-172: a link of a recorded e-mail costs no
\* browser again.  A link is visited once, and once more only for a crash of
\* the pipeline and for a record that a torn line took with it.
VisitedOnce == \A l \in AllLinks : visits[l] <= 1 + lost

-----------------------------------------------------------------------------
\* A promise the code does not keep, with the README's account of how.
\* No run checks it.

\* process_eml_directory.py:91 and email_overnight.py:297: the files a run
\* with --max-files takes are the newest e-mails it has.
TakesNewest ==
  At("email", "loop") =>
    \A e \in ToSet(Email.todo) : Email.opt.maxFiles = Unlimited
      \/ Cardinality({d \in ToSet(disk) : d > e}) < Email.opt.maxFiles
=============================================================================
