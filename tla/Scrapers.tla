------------------------------ MODULE Scrapers ------------------------------
(***************************************************************************)
(* From a search file to postings: the searches a YAML file stands for     *)
(* (job_scraper/config.py), what each scraper makes of one listed ad, and  *)
(* the quality gate.  An ad is                                             *)
(*    [id, title, location, about, long, posted, remote, site, pay, row]   *)
(* with its texts as sets of words (see Prefilter), whether the            *)
(* description is long enough for the gate, the form of its date and what  *)
(* the salary expressions find in it; row is the structured pay jobspy     *)
(* returns, or None.  Markup and the redaction of contact data are left    *)
(* out: no property looks at the wording of a description.                 *)
(***************************************************************************)
EXTENDS Salary, FiniteSets, SequencesExt

CONSTANTS Unset     \* a setting the YAML leaves out

---------------------------------------------------------------------------
(* The search file. *)

Has(raw, section) == section \in DOMAIN raw

Sections == {"sel", "linkedin", "jobspy", "greenhouse", "lever", "ashby", "companies"}

MaxResults(raw, entry) == IF entry.max = Unset THEN raw.default_max_results ELSE entry.max

Query(kind, source, label, board) ==
  [kind |-> kind, source |-> source, label |-> label, board |-> board, max |-> 0,
   fetch |-> TRUE, workplace |-> "none", titles |-> {}]

SelSearches(raw) ==
  IF Has(raw, "sel")
    THEN <<[Query("sel", "sel", "sel", "sel") EXCEPT !.fetch = raw.sel.fetch,
                                                     !.titles = raw.sel.titles]>>
    ELSE <<>>

LinkedInSearches(raw) ==
  IF ~Has(raw, "linkedin") THEN <<>>
  ELSE [i \in DOMAIN raw.linkedin |->
          LET e == raw.linkedin[i]
          IN  [Query("linkedin", "linkedin", e.keywords, e.board)
                 EXCEPT !.max = MaxResults(raw, e), !.workplace = e.workplace]]

JobSpySearches(raw) ==
  IF ~Has(raw, "jobspy") THEN <<>>
  ELSE [i \in DOMAIN raw.jobspy |->
          LET e == raw.jobspy[i]
          IN  [Query("jobspy", e.sites, e.keywords, e.board)
                 EXCEPT !.max = MaxResults(raw, e), !.workplace = e.workplace]]

\* A board of its own per company: the source name holds both.
CompanySearches(raw, kind) ==
  IF ~Has(raw, kind) THEN <<>>
  ELSE [i \in DOMAIN raw[kind] |->
          LET c == raw[kind][i] IN Query(kind, kind \o ":" \o c, c, kind \o ":" \o c)]

\* Entries with no keywords, a value outside its map or an unset ${VAR}.
Flawed(raw) ==
  \E section \in {"linkedin", "jobspy"} :
     Has(raw, section) /\ \E i \in DOMAIN raw[section] : raw[section][i].flawed

\* The command line has no connection, so a companies section is an error.
ConfigError(raw) ==
  \/ Sections \cap DOMAIN raw = {}
  \/ Flawed(raw)
  \/ Has(raw, "companies")

BuildScrapers(raw) ==
  SelSearches(raw) \o LinkedInSearches(raw) \o JobSpySearches(raw)
    \o CompanySearches(raw, "greenhouse") \o CompanySearches(raw, "lever")
    \o CompanySearches(raw, "ashby")

---------------------------------------------------------------------------
(* Dates and postings. *)

NormalizePostedAt(date) == IF date \in {"date", "datetime"} THEN "date" ELSE "none"

\* "Posted 3 Days Ago" against the time of the scrape.
WorkdayDate(date) == IF date = "relative" THEN "date" ELSE date

LeverDate(date) == IF date = "milliseconds" THEN "datetime" ELSE "none"

Posting(q, ad, date, kept) ==
  [source |-> q.source, id |-> ad.id, company |-> {}, title |-> ad.title,
   location |-> ad.location, description |-> IF kept THEN ad.about ELSE {},
   complete |-> kept /\ ad.long, posted |-> NormalizePostedAt(date),
   workplace |-> "none", salary |-> IF kept THEN ExtractSalary(ad.pay) ELSE None]

\* A detail page that does not answer 200 costs the description only.
LinkedInPosting(q, ad, answered) ==
  [Posting(q, ad, ad.posted, q.fetch /\ answered) EXCEPT !.workplace = q.workplace]

\* The detail JSON says whether the job is remote, whatever the body's fate.
SelPosting(q, ad) ==
  [Posting(q, ad, WorkdayDate(ad.posted), q.fetch)
     EXCEPT !.workplace = IF ad.remote THEN "remote" ELSE "none"]

SelRelevant(q, ad) == q.titles = {} \/ q.titles \cap ad.title # {}

GreenhousePosting(q, ad) == Posting(q, ad, ad.posted, q.fetch)

LeverPosting(q, ad) == Posting(q, ad, LeverDate(ad.posted), q.fetch)

AshbyPosting(q, ad) == Posting(q, ad, ad.posted, q.fetch)

SalaryFromRow(row) ==
  [min |-> Annualise(row.min, row.period), period |-> row.period,
   max |-> IF row.max = None THEN None ELSE Annualise(row.max, row.period)]

\* The site's own pay columns win over the text, and no bound applies to them.
JobSpyPosting(q, ad) ==
  LET p == Posting(q, ad, ad.posted, TRUE)
  IN  [p EXCEPT !.source = ad.site, !.workplace = q.workplace,
                !.salary = IF ad.row = None THEN @ ELSE SalaryFromRow(ad.row)]

SearchParams(p) == {{p.workplace} \ {"none"}}

\* The boards that answer one request with everything they list.
WholeBoard(q, ads) ==
  [i \in DOMAIN ads |->
     CASE q.kind = "greenhouse" -> GreenhousePosting(q, ads[i])
       [] q.kind = "lever" -> LeverPosting(q, ads[i])
       [] q.kind = "ashby" -> AshbyPosting(q, ads[i])
       [] q.kind = "jobspy" -> JobSpyPosting(q, ads[i])]

---------------------------------------------------------------------------
(* The quality gate; shares are in per cent. *)

DefaultThresholds ==
  [enabled |-> TRUE, min_jobs |-> 1, min_desc_chars |-> 100, min_complete_pct |-> 50,
   min_posted_at_pct |-> 25, check_workplace |-> FALSE, min_workplace_pct |-> 90]

Bounds == {"min_jobs", "min_desc_chars"}

Shares == {"min_complete_pct", "min_posted_at_pct", "min_workplace_pct"}

MergeThresholds(base, over) == [k \in DOMAIN base |-> IF k \in DOMAIN over THEN over[k] ELSE base[k]]

ValidOverrides(over) ==
  /\ DOMAIN over \subseteq DOMAIN DefaultThresholds
  /\ \A k \in Bounds \cap DOMAIN over : over[k] >= 0
  /\ \A k \in Shares \cap DOMAIN over : over[k] \in 0..100

GateError(raw) ==
  \/ raw.missing
  \/ ~ValidOverrides(raw.global)
  \/ \E s \in DOMAIN raw.sources : ~ValidOverrides(raw.sources[s])

\* The exact source, then its family, then the global defaults.
ThresholdsFor(raw, q) ==
  LET global == MergeThresholds(DefaultThresholds, raw.global)
  IN  IF q.source \in DOMAIN raw.sources THEN MergeThresholds(global, raw.sources[q.source])
      ELSE IF q.kind \in DOMAIN raw.sources THEN MergeThresholds(global, raw.sources[q.kind])
      ELSE global

\* A long description reaches the bound in force, and any but an empty one
\* a bound of 0.
Complete(jobs, t) ==
  {i \in DOMAIN jobs : jobs[i].complete \/ (t.min_desc_chars = 0 /\ jobs[i].description # {})}
Dated(jobs) == {i \in DOMAIN jobs : jobs[i].posted # "none"}
Placed(jobs) == {i \in DOMAIN jobs : jobs[i].workplace # "none"}

AtLeast(good, jobs, percent) == 100 * Cardinality(good) >= percent * Len(jobs)

CheckScrape(jobs, t) ==
  \/ ~t.enabled
  \/ /\ Len(jobs) >= t.min_jobs
     /\ AtLeast(Complete(jobs, t), jobs, t.min_complete_pct)
     /\ AtLeast(Dated(jobs), jobs, t.min_posted_at_pct)
     /\ t.check_workplace => AtLeast(Placed(jobs), jobs, t.min_workplace_pct)
=============================================================================
