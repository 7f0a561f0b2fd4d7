-------------------------------- MODULE Pile --------------------------------
(***************************************************************************)
(* The single-user pipeline up to the agents: commands that scrape boards  *)
(* into JSONL files under data/raw (job_scraper/cli.py), the file of       *)
(* sources that failed for good (skip_list.py), and the prefilter that     *)
(* reads a directory of the pile and splits it in three.  Commands run     *)
(* side by side (cron and a shell) and the boards change under them.       *)
(***************************************************************************)
EXTENDS Scrapers, Prefilter

CONSTANTS
  Commands,       \* the scrape commands
  PageSize,       \* 25 ads a page on LinkedIn, 20 on Workday; small here
  Slug,           \* label -> the part of a file name it becomes
  LastMinute,     \* bound: the minutes the clock counts
  Scenarios       \* the situations checked, one picked at the start

\* The searches a command makes, when nothing is wrong with its options.
SearchesOf(c) ==
  IF c.mode = "single" THEN <<c.query>>
  ELSE IF ConfigError(c.raw) THEN <<>> ELSE BuildScrapers(c.raw)

\* A board gives an ad an id of its own and lists it once; some ads have none.
HasId(ad) == ad.id # ""
Distinct(ads) == \A i, k \in DOMAIN ads : HasId(ads[i]) /\ ads[i].id = ads[k].id => i = k

ASSUME PageSizeOK == PageSize \in Nat \ {0}

ASSUME BoardsOK ==
  \A sc \in Scenarios :
    /\ sc.changes \in Nat /\ DOMAIN sc.news \subseteq DOMAIN sc.boards
    /\ \A b \in DOMAIN sc.boards : sc.boards[b] \in Seq(ToSet(sc.boards[b])) /\ Distinct(sc.boards[b])
    /\ \A b \in DOMAIN sc.news :
         /\ sc.news[b] \in Seq(ToSet(sc.news[b])) /\ Distinct(sc.news[b])
         /\ \A i \in DOMAIN sc.news[b], k \in DOMAIN sc.boards[b] :
              HasId(sc.news[b][i]) => sc.boards[b][k].id # sc.news[b][i].id

ASSUME SearchesOK ==
  \A sc \in Scenarios : \A p \in DOMAIN sc.commands :
    LET todo == SearchesOf(sc.commands[p]) IN
    /\ todo \in Seq(ToSet(todo))
    /\ \A i \in DOMAIN todo : todo[i].max \in Nat /\ todo[i].board \in DOMAIN sc.boards

VARIABLES
  plan,           \* the scenario: each command's options, the prefilter's, budgets
  boards,         \* board -> the ads it lists, in its order
  gone,           \* the boards that answer 404
  faults,         \* bound: refused or limited requests still to come
  changes,        \* bound: changes of the boards still to come
  known,          \* known_failures.json: absent, torn or whole, and its sources
  pile,           \* file -> its postings and whether its last line is cut
  minute,
  procs,          \* command -> its process
  filter,         \* the prefilter's process; the jobs it has read, as a set
  out,            \* route -> the annotated jobs of its file, as a set
  landed,         \* history: what the commands wrote to the end
  dead            \* history: the sources whose board answered that it is gone

vars == <<plan, boards, gone, faults, changes, known, pile, minute, procs, filter, out,
          landed, dead>>
site == <<plan, boards, gone, changes, minute>>
filtering == <<filter, out>>

NoQuery == Query("none", "none", "none", "none")

Start ==
  [pc |-> "start", todo |-> <<>>, skip |-> {}, q |-> NoQuery, jobs |-> <<>>, seen |-> {},
   offset |-> 0, total |-> Unset, page |-> <<>>, fresh |-> FALSE, path |-> <<>>,
   failures |-> {}, base |-> <<>>, grown |-> 0, shrunk |-> FALSE, limited |-> FALSE,
   key |-> <<>>, shared |-> FALSE]

Init ==
  /\ plan \in Scenarios
  /\ boards = plan.boards
  /\ gone = plan.gone
  /\ faults = plan.faults
  /\ changes = plan.changes
  /\ known = plan.known
  /\ pile = <<>>
  /\ minute = 0
  /\ procs = [p \in Commands |->
                [Start EXCEPT !.pc = IF p \in DOMAIN plan.commands THEN "start" ELSE "done"]]
  /\ filter = [pc |-> IF plan.prefilter THEN "start" ELSE "off", files |-> {}, jobs |-> {}, since |-> {}]
  /\ out = [r \in Routes |-> {}]
  /\ landed = {}
  /\ dead = {}

---------------------------------------------------------------------------
(* The shared writer, jobs_cli/_common.py. *)

FileSource(p, q) ==
  IF plan.commands[p].mode = "single" /\ q.kind = "jobspy" THEN "jobspy" ELSE q.source

\* The name holds the minute, so a search lasting longer starts a new file.
AutoPathBySource(p, q) == <<plan.commands[p].dir, minute, FileSource(p, q), "all">>
AutoPath(p, q) == <<plan.commands[p].dir, minute, FileSource(p, q), Slug[q.label]>>

\* What tells one file from another, whatever AutoPath makes of it.
Key(p, q) == <<plan.commands[p].dir, minute, FileSource(p, q), Slug[q.label]>>

Put(f, k, v) == [x \in DOMAIN f \cup {k} |-> IF x = k THEN v ELSE f[x]]

---------------------------------------------------------------------------
(* A command up to its next search. *)

\* An unreadable file counts as no failures at all.
LoadKnown == IF known.state = "whole" THEN known.sources ELSE {}

LoadConfig(p) ==
  LET c == plan.commands[p]
      wrong == ConfigError(c.raw) \/ GateError(c.gate)
  IN  /\ procs[p].pc = "start" /\ c.mode = "config"
      /\ procs' = [procs EXCEPT ![p] =
           IF wrong THEN [@ EXCEPT !.pc = "done"]
           ELSE IF c.dry THEN [@ EXCEPT !.pc = "done", !.todo = BuildScrapers(c.raw)]
           ELSE [@ EXCEPT !.pc = "next", !.todo = BuildScrapers(c.raw), !.skip = LoadKnown]]
      /\ UNCHANGED <<site, faults, known, pile, filtering, landed, dead>>

\* A single-source command builds its query from its arguments; sel asks for
\* an argument its parser does not define, and ends.
LoadArguments(p) ==
  LET c == plan.commands[p]
  IN  /\ procs[p].pc = "start" /\ c.mode = "single"
      /\ procs' = [procs EXCEPT ![p] =
           IF c.query.kind = "sel" THEN [@ EXCEPT !.pc = "done"]
           ELSE [@ EXCEPT !.pc = "next", !.todo = <<c.query>>]]
      /\ UNCHANGED <<site, faults, known, pile, filtering, landed, dead>>

Skip(p) ==
  /\ procs[p].pc = "next" /\ procs[p].todo # <<>>
  /\ Head(procs[p].todo).source \in procs[p].skip
  /\ procs' = [procs EXCEPT ![p].todo = Tail(@)]
  /\ UNCHANGED <<site, faults, known, pile, filtering, landed, dead>>

\* The loop of the scrape runs while it has fewer jobs than max_results.
NothingAsked(q) == q.kind = "linkedin" /\ q.max = 0

Begin(p) ==
  LET q == Head(procs[p].todo)
  IN  /\ procs[p].pc = "next" /\ procs[p].todo # <<>>
      /\ q.source \notin procs[p].skip
      /\ procs' = [procs EXCEPT ![p] =
           [Start EXCEPT !.pc = IF NothingAsked(q) THEN "check" ELSE "request",
                         !.q = q, !.todo = Tail(procs[p].todo), !.skip = procs[p].skip]]
      /\ UNCHANGED <<site, faults, known, pile, filtering, landed, dead>>

Finish(p) ==
  /\ procs[p].pc = "next" /\ procs[p].todo = <<>>
  /\ procs' = [procs EXCEPT ![p].pc = "done"]
  /\ UNCHANGED <<site, faults, known, pile, filtering, landed, dead>>

---------------------------------------------------------------------------
(* Requests. *)

Asking(p, kinds) ==
  /\ procs[p].pc = "request" /\ procs[p].q.kind \in kinds

Answers(p, kinds) == Asking(p, kinds) /\ procs[p].q.board \notin gone

Listed(p) == boards[procs[p].q.board]

PageOf(ads, offset) ==
  SubSeq(ads, offset + 1, IF offset + PageSize < Len(ads) THEN offset + PageSize ELSE Len(ads))

\* The ads a listing had when the first request was answered.
Base(p) == IF procs[p].offset = 0 THEN Listed(p) ELSE procs[p].base

RequestWhole(p) ==
  /\ Answers(p, {"greenhouse", "lever", "ashby", "jobspy"})
  /\ procs' = [procs EXCEPT ![p] = [@ EXCEPT !.pc = "check", !.jobs = WholeBoard(procs[p].q, Listed(p)),
                                             !.base = Listed(p)]]
  /\ UNCHANGED <<site, faults, known, pile, filtering, landed, dead>>

\* An empty page ends the search.
RequestLinkedIn(p) ==
  LET page == PageOf(Listed(p), procs[p].offset)
  IN  /\ Answers(p, {"linkedin"})
      /\ procs' = [procs EXCEPT ![p] =
           [@ EXCEPT !.pc = IF page = <<>> THEN "check" ELSE "cards",
                     !.page = page, !.fresh = FALSE, !.base = Base(p)]]
      /\ UNCHANGED <<site, faults, known, pile, filtering, landed, dead>>

\* 429: a minute's sleep, and then no cards.
LimitLinkedIn(p) ==
  /\ Answers(p, {"linkedin"}) /\ faults > 0
  /\ faults' = faults - 1
  /\ procs' = [procs EXCEPT ![p] = [@ EXCEPT !.pc = "check", !.limited = TRUE, !.base = Base(p)]]
  /\ UNCHANGED <<site, known, pile, filtering, landed, dead>>

NewCardAny(seen, ad) == HasId(ad)
NewCard(seen, ad) == HasId(ad) /\ ad.id \notin seen

StillListed(p, ad) == \E i \in DOMAIN Listed(p) : Listed(p)[i].id = ad.id

\* One card and, when it is new, its detail page.  What is left of the page
\* once max_results is reached is dropped.
LinkedInCard(p) ==
  LET s == procs[p]
      ad == Head(s.page)
      new == NewCard(s.seen, ad)
      full == new /\ Len(s.jobs) + 1 >= s.q.max
  IN  /\ s.pc = "cards" /\ s.q.kind = "linkedin" /\ s.page # <<>>
      /\ \E answered \in {StillListed(p, ad), FALSE} :
           procs' = [procs EXCEPT ![p] =
             [s EXCEPT !.page = IF full THEN <<>> ELSE Tail(@),
                       !.seen = @ \cup (IF new THEN {ad.id} ELSE {}),
                       !.fresh = @ \/ new,
                       !.jobs = IF new THEN Append(@, LinkedInPosting(s.q, ad, answered)) ELSE @]]
      /\ UNCHANGED <<site, faults, known, pile, filtering, landed, dead>>

\* The loop of the scrape: enough jobs or a page of known ones ends it.
LinkedInPage(p) ==
  LET s == procs[p]
      again == s.fresh /\ Len(s.jobs) < s.q.max
  IN  /\ s.pc = "cards" /\ s.q.kind = "linkedin" /\ s.page = <<>>
      /\ procs' = [procs EXCEPT ![p] =
           [s EXCEPT !.pc = IF again THEN "request" ELSE "check",
                     !.offset = IF s.fresh THEN @ + PageSize ELSE @]]
      /\ UNCHANGED <<site, faults, known, pile, filtering, landed, dead>>

\* The total is the first page's.
RequestSel(p) ==
  LET s == procs[p]
      page == PageOf(Listed(p), s.offset)
  IN  /\ Answers(p, {"sel"})
      /\ procs' = [procs EXCEPT ![p] =
           [s EXCEPT !.pc = IF page = <<>> THEN "check" ELSE "cards", !.page = page,
                     !.total = IF s.total = Unset THEN Len(Listed(p)) ELSE s.total,
                     !.offset = @ + Len(page), !.base = Base(p)]]
      /\ UNCHANGED <<site, faults, known, pile, filtering, landed, dead>>

\* One ad and its detail request.
SelDetail(p) ==
  LET s == procs[p]
      ad == Head(s.page)
  IN  /\ s.pc = "cards" /\ s.q.kind = "sel" /\ s.page # <<>>
      /\ StillListed(p, ad)
      /\ procs' = [procs EXCEPT ![p] =
           [s EXCEPT !.page = Tail(@),
                     !.jobs = IF SelRelevant(s.q, ad) THEN Append(@, SelPosting(s.q, ad)) ELSE @]]
      /\ UNCHANGED <<site, faults, known, pile, filtering, landed, dead>>

SelPage(p) ==
  LET s == procs[p]
  IN  /\ s.pc = "cards" /\ s.q.kind = "sel" /\ s.page = <<>>
      /\ procs' = [procs EXCEPT ![p].pc = IF s.offset >= s.total THEN "check" ELSE "request"]
      /\ UNCHANGED <<site, faults, known, pile, filtering, landed, dead>>

---------------------------------------------------------------------------
(* Refusals.  A single-source command ends with its first error; run-config *)
(* records the source when the code is 403, 404 or 410.                     *)

Raise(p, permanent) ==
  [procs EXCEPT ![p].pc = IF plan.commands[p].mode = "single" THEN "done"
                          ELSE IF permanent THEN "record" ELSE "next"]

\* The ad was taken down between the list and its detail page: 404.
SelDetailGone(p) ==
  LET s == procs[p]
  IN  /\ s.pc = "cards" /\ s.q.kind = "sel" /\ s.page # <<>>
      /\ ~StillListed(p, Head(s.page))
      /\ procs' = Raise(p, TRUE)
      /\ UNCHANGED <<site, faults, known, pile, filtering, landed, dead>>

BoardGone(p) ==
  /\ procs[p].pc = "request" /\ procs[p].q.board \in gone
  /\ procs' = Raise(p, TRUE)
  /\ dead' = dead \cup {procs[p].q.source}
  /\ UNCHANGED <<site, faults, known, pile, filtering, landed>>

\* A list page is asked for, or the detail page of an ad of the last one.
OnTheWire(p) ==
  LET s == procs[p]
  IN  \/ s.pc = "request"
      \/ /\ s.pc = "cards" /\ s.page # <<>>
         /\ s.q.kind = "linkedin" => s.q.fetch /\ NewCard(s.seen, Head(s.page))

\* A timeout, a broken connection, or a status that raises: 5xx, or a 429
\* anywhere but on a LinkedIn page.  Of a LinkedIn detail page no status does.
RequestFails(p) ==
  /\ OnTheWire(p) /\ faults > 0
  /\ faults' = faults - 1
  /\ procs' = Raise(p, FALSE)
  /\ UNCHANGED <<site, known, pile, filtering, landed, dead>>

\* The skip list is read, cut to nothing and written.
RecordRead(p) ==
  /\ procs[p].pc = "record"
  /\ procs' = [procs EXCEPT ![p] = [@ EXCEPT !.pc = "recording",
                                             !.failures = LoadKnown \cup {procs[p].q.source}]]
  /\ UNCHANGED <<site, faults, known, pile, filtering, landed, dead>>

RecordTruncate(p) ==
  /\ procs[p].pc = "recording"
  /\ known' = [state |-> "torn", sources |-> {}]
  /\ procs' = [procs EXCEPT ![p].pc = "truncated"]
  /\ UNCHANGED <<site, faults, pile, filtering, landed, dead>>

RecordWrite(p) ==
  /\ procs[p].pc = "truncated"
  /\ known' = [state |-> "whole", sources |-> procs[p].failures]
  /\ procs' = [procs EXCEPT ![p].pc = "next"]
  /\ UNCHANGED <<site, faults, pile, filtering, landed, dead>>

---------------------------------------------------------------------------
(* The quality gate and the pile. *)

Passes(p) ==
  \/ plan.commands[p].mode = "single"
  \/ CheckScrape(procs[p].jobs, ThresholdsFor(plan.commands[p].gate, procs[p].q))

Check(p) ==
  /\ procs[p].pc = "check"
  /\ procs' = [procs EXCEPT ![p].pc =
       IF Passes(p) /\ plan.commands[p].save THEN "open" ELSE "next"]
  /\ UNCHANGED <<site, faults, known, pile, filtering, landed, dead>>

Writers(path) == {p \in Commands : procs[p].pc = "write" /\ procs[p].path = path}

Standing(ls, key) == {l \in ls : l.key # key}

\* Opening for writing cuts what a search of the same name left there.
Open(p) ==
  LET path == AutoPath(p, procs[p].q)
      key == Key(p, procs[p].q)
  IN  /\ procs[p].pc = "open"
      /\ pile' = Put(pile, path, [jobs |-> <<>>, cut |-> FALSE])
      /\ procs' = [c \in Commands |->
           IF c = p THEN [procs[p] EXCEPT !.pc = "write", !.path = path, !.key = key,
                                          !.shared = Writers(path) # {}]
           ELSE IF c \in Writers(path) THEN [procs[c] EXCEPT !.shared = TRUE] ELSE procs[c]]
      /\ landed' = Standing(landed, key)
      /\ filter' = [filter EXCEPT !.since = Standing(@, key)]
      /\ UNCHANGED <<site, faults, known, out, dead>>

\* A long file reaches the disk in blocks, so a line may be cut for a while.
Flush(p) ==
  /\ procs[p].pc = "write" /\ procs[p].jobs # <<>> /\ ~pile[procs[p].path].cut
  /\ pile' = [pile EXCEPT ![procs[p].path] =
       [jobs |-> SubSeq(procs[p].jobs, 1, Len(procs[p].jobs) - 1), cut |-> TRUE]]
  /\ UNCHANGED <<site, faults, known, procs, filtering, landed, dead>>

\* Two writers of one file write over each other.
Close(p) ==
  LET s == procs[p]
  IN  /\ s.pc = "write"
      /\ \E cut \in {FALSE, s.shared} :
           pile' = [pile EXCEPT ![s.path] = [jobs |-> s.jobs, cut |-> cut]]
      /\ landed' = IF s.shared THEN landed ELSE landed \cup {[key |-> s.key, jobs |-> s.jobs]}
      /\ procs' = [procs EXCEPT ![p].pc = "next"]
      /\ UNCHANGED <<site, faults, known, filtering, dead>>

Kill(p) ==
  /\ plan.kill
  /\ procs[p].pc \notin {"start", "done"}
  /\ procs' = [procs EXCEPT ![p].pc = "done"]
  /\ UNCHANGED <<site, faults, known, pile, filtering, landed, dead>>

---------------------------------------------------------------------------
(* The prefilter. *)

\* A wrong config ends it, and so does a directory with no jobs.
FilterGlob ==
  LET files == {f \in DOMAIN pile : f[1] = plan.filter.dir}
  IN  /\ filter.pc = "start"
      /\ filter' = IF plan.filter.wrong \/ files = {} THEN [filter EXCEPT !.pc = "failed"]
                   ELSE [filter EXCEPT !.pc = "read", !.files = files,
                                       !.since = {l \in landed : l.key[1] = plan.filter.dir}]
      /\ UNCHANGED <<site, faults, known, pile, procs, out, landed, dead>>

\* A cut line is not JSON and ends the command before any output is opened.
FilterRead ==
  /\ filter.pc = "read"
  /\ \E f \in filter.files :
        filter' = IF pile[f].cut THEN [filter EXCEPT !.pc = "failed"]
                  ELSE [filter EXCEPT !.files = @ \ {f}, !.jobs = @ \cup ToSet(pile[f].jobs)]
  /\ UNCHANGED <<site, faults, known, pile, procs, out, landed, dead>>

FilterLoaded ==
  /\ filter.pc = "read" /\ filter.files = {}
  /\ LET pc == IF filter.jobs = {} THEN "failed"
               ELSE IF plan.filter.dry THEN "counted" ELSE "route"
     IN  /\ filter' = [filter EXCEPT !.pc = pc]
         /\ out' = IF pc = "route" THEN [r \in Routes |-> {}] ELSE out
  /\ UNCHANGED <<site, faults, known, pile, procs, landed, dead>>

\* A posting as the router sees it: the texts, and its search parameters.
Routable(job) ==
  [company |-> job.company, title |-> job.title, location |-> job.location,
   description |-> job.description, params |-> SearchParams(job)]

Line(job) == [posting |-> job, class |-> Annotate(Routable(job), plan.filter.config).class]

FilterRoute ==
  /\ filter.pc = "route"
  /\ out' = [r \in Routes |->
       {Line(j) : j \in {k \in filter.jobs : RouteJob(Routable(k), plan.filter.config) = r}}]
  /\ filter' = [filter EXCEPT !.pc = "done"]
  /\ UNCHANGED <<site, faults, known, pile, procs, landed, dead>>

---------------------------------------------------------------------------
(* The boards and the clock. *)

\* Every scrape that reads board b has to know how the board moved under it.
Moved(b, grown, shrunk) ==
  [p \in Commands |->
     IF procs[p].pc \in {"request", "cards"} /\ procs[p].q.board = b /\ procs[p].base # <<>>
       THEN [procs[p] EXCEPT !.grown = @ + grown, !.shrunk = @ \/ shrunk] ELSE procs[p]]

Publish(b) ==
  /\ changes > 0 /\ changes \in DOMAIN plan.news[b]
  /\ changes' = changes - 1
  /\ boards' = [boards EXCEPT ![b] = <<plan.news[b][changes]>> \o @]
  /\ procs' = Moved(b, 1, FALSE)
  /\ UNCHANGED <<plan, gone, minute, faults, known, pile, filtering, landed, dead>>

Withdraw(b, i) ==
  /\ changes > 0
  /\ changes' = changes - 1
  /\ boards' = [boards EXCEPT ![b] = RemoveAt(@, i)]
  /\ procs' = Moved(b, 0, TRUE)
  /\ UNCHANGED <<plan, gone, minute, faults, known, pile, filtering, landed, dead>>

Tick ==
  /\ minute < LastMinute
  /\ minute' = minute + 1
  /\ UNCHANGED <<plan, boards, gone, changes, faults, known, pile, procs, filtering, landed, dead>>

---------------------------------------------------------------------------
Command(p) ==
  \/ LoadConfig(p) \/ LoadArguments(p) \/ Skip(p) \/ Begin(p) \/ Finish(p)
  \/ RequestWhole(p)
  \/ RequestLinkedIn(p) \/ LimitLinkedIn(p) \/ LinkedInCard(p) \/ LinkedInPage(p)
  \/ RequestSel(p) \/ SelDetail(p) \/ SelPage(p)
  \/ SelDetailGone(p) \/ BoardGone(p) \/ RequestFails(p)
  \/ RecordRead(p) \/ RecordTruncate(p) \/ RecordWrite(p)
  \/ Check(p) \/ Open(p) \/ Flush(p) \/ Close(p) \/ Kill(p)

Filter == FilterGlob \/ FilterRead \/ FilterLoaded \/ FilterRoute

World ==
  \/ \E b \in DOMAIN plan.news : Publish(b) \/ \E i \in DOMAIN boards[b] : Withdraw(b, i)
  \/ Tick

Next == (\E p \in Commands : Command(p)) \/ Filter \/ World

Spec == Init /\ [][Next]_vars

---------------------------------------------------------------------------
(* Properties. *)

\* The ads a listing names, those without an id, and those a query wants.
Offered(ads, n) == {i \in 1..n : HasId(ads[i])}
Blanks(ads) == DOMAIN ads \ Offered(ads, Len(ads))
Wanted(q, ads, n) == {i \in 1..n : SelRelevant(q, ads[i])}

\* The jobs are the ads at the positions in I, all of them and in their order.
Lists(jobs, ads, I) ==
  \E at \in [DOMAIN jobs -> I] :
    /\ \A i \in DOMAIN jobs : jobs[i].id = ads[at[i]].id
    /\ \A i, j \in DOMAIN jobs : i < j => at[i] < at[j]
    /\ \A k \in I : \E i \in DOMAIN jobs : at[i] = k

\* A scrape that reads a moving board page by page brings home what the board
\* held.  LinkedIn never lists an ad twice; unless it was limited, or ads went
\* away, or the ads that came in while it read and those without an id fill a
\* page, it has the first max_results ads of the listing, in order
\* (scrapers/linkedin.py:92-146).  Workday's pages are cut by the count of ads
\* seen so far, which is whole when the board stood still
\* (scrapers/sel.py:124-221).
PagedWhole ==
  \A p \in Commands : procs[p].pc = "check" =>
    LET s == procs[p]  last == Len(s.base) IN
    /\ s.q.kind = "linkedin" => \A i, k \in DOMAIN s.jobs : s.jobs[i].id = s.jobs[k].id => i = k
    /\ s.q.kind = "linkedin" /\ ~s.limited /\ ~s.shrunk /\ s.grown + Cardinality(Blanks(s.base)) < PageSize =>
         \E n \in 0..last : /\ Lists(s.jobs, s.base, Offered(s.base, n))
                            /\ Len(s.jobs) = s.q.max \/ (n = last /\ Len(s.jobs) < s.q.max)
    /\ s.q.kind = "sel" /\ ~s.shrunk /\ s.grown = 0 => Lists(s.jobs, s.base, Wanted(s.q, s.base, last))

\* What a command wrote to the end before the prefilter listed the directory
\* is in exactly one output once the prefilter is done, in spite of commands
\* that write, are cut off or fail beside it; only a search of the same source,
\* in the same minute, with a label of the same slug can have taken the file
\* (_common.py:38-62, router.py:85-95 and 398-430).
LandedRouted ==
  filter.pc = "done" =>
    \A l \in filter.since : \A i \in DOMAIN l.jobs :
      Cardinality({r \in Routes : \E line \in out[r] : line.posting = l.jobs[i]}) = 1

-----------------------------------------------------------------------------
\* A promise the code does not keep, with the README's account of how.
\* No run checks it.

\* The skip list names sources whose board is gone: "Only permanently skip on
\* definitive "this board doesn't exist" responses" (skip_list.py:12).
OnlyDeadBoards == known.sources \subseteq plan.known.sources \cup dead
=============================================================================
