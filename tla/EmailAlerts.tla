---------------------------- MODULE EmailAlerts ----------------------------
(***************************************************************************)
(* The e-mail side of the email-overnight pipeline (src/src/email_scraper):*)
(* what a pull leaves in the download directory, which files a run takes,  *)
(* and what a visit of a ZipRecruiter link yields.  An e-mail is a number, *)
(* the order it was sent in.  A link is a record of                        *)
(*   token     the tracking token, new in every e-mail                     *)
(*   job       the listing it leads to                                     *)
(*   external  whether it hands off to an employer's own site (/ekm/)      *)
(***************************************************************************)
EXTENDS Naturals, Sequences, SequencesExt, Orders

CONSTANTS Emails,       \* the alerts of the label, numbers in sent order
          Links,        \* e-mail -> its job links, in order
          Unlimited     \* an option left out

ENRICHED == "enriched"
EXTERNAL_ATS == "external_ats"
EXPIRED == "expired"
UNENRICHED == "unenriched"

AllLinks == UNION {ToSet(Links[e]) : e \in Emails}

(* The token is the last part of a link's path, and rotates with every     *)
(* send: no two links share one.                                           *)
ASSUME AlertsOK ==
  /\ IsFiniteSet(Emails) /\ Emails \subseteq Nat
  /\ \A e \in Emails : Links[e] \in Seq(AllLinks)
  /\ \A d, e \in Emails : \A i \in DOMAIN Links[d], k \in DOMAIN Links[e] :
       Links[d][i].token = Links[e][k].token => d = e /\ i = k

FirstN(s, n) == IF n = Unlimited \/ n >= Len(s) THEN s ELSE SubSeq(s, 1, n)

NewestFirst(es) == InOrder(es, {p \in es \X es : p[1] > p[2]})

(* download_labeled_emails_as_eml: Gmail lists the newest first, and each  *)
(* file is written anew in that order.  A directory is the sequence of its *)
(* files, the last written first, so the oldest one pulled comes first.    *)
Pulled(disk, sent, n) ==
  LET got == FirstN(NewestFirst(sent), n)
  IN  Reverse(got) \o Pick(disk, {i \in DOMAIN disk : disk[i] \notin ToSet(got)})

(* _select_eml_files: by modification time, the last written first.        *)
Selected(disk, n) == FirstN(disk, n)

-----------------------------------------------------------------------------
Posting(key, link, desc, outcome) ==
  [key |-> key, title |-> link.job, desc |-> desc, ctxs |-> {}, outcome |-> outcome]

(* The tracking token is the job id until a page reveals the listing key.  *)
Unvisited(link, outcome) == Posting(<<"token", link.token>>, link, 0, outcome)

(* The router skips the browser for expired and external links.            *)
Routed(link, expired) ==
  IF expired THEN {Unvisited(link, EXPIRED)}
  ELSE IF link.external THEN {Unvisited(link, EXTERNAL_ATS)} ELSE {}

(* What a rendered page says: a description or none, a date or none.       *)
Contents == {[desc |-> d, dated |-> t] : d \in {0, 1}, t \in BOOLEAN}

(* The listing key of the resolved page, or the token when there is none.  *)
Identities(link) == {<<"token", link.token>>, <<"listing", link.job>>}

(* Either field makes the posting enriched; a failed fetch has neither.    *)
Fetched(link) ==
  {Posting(id, link, c.desc, IF c.desc > 0 \/ c.dated THEN ENRICHED ELSE UNENRICHED) :
     id \in Identities(link), c \in Contents}

(* enrich_email_jobs keeps the postings that got a description or a date.  *)
OnlyEnriched(jobs) == Pick(jobs, {i \in DOMAIN jobs : jobs[i].outcome = ENRICHED})
=============================================================================
