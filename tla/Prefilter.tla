------------------------------ MODULE Prefilter ------------------------------
(***************************************************************************)
(* The deterministic router in front of the remote filter (src/prefilter). *)
(* A text is the set of its words, lower-cased and without punctuation,    *)
(* and a phrase is a set of words: the order of the words in a phrase is   *)
(* left out.  A job has a title, a location and a description, and the     *)
(* texts of its search_params.                                             *)
(***************************************************************************)
EXTENDS FiniteSets

CONSTANT DefaultAliases     \* country -> phrases, the table in models.py

ContainsPhrase(text, phrase) == phrase # {} /\ phrase \subseteq text

MergeCountryAliases(cfg) ==
  LET countries == DOMAIN DefaultAliases \cup DOMAIN cfg.aliases \cup {cfg.country}
      Of(table, c) == IF c \in DOMAIN table THEN table[c] ELSE {}
  IN  [c \in countries |-> Of(DefaultAliases, c) \cup Of(cfg.aliases, c)
                           \cup IF c = cfg.country THEN {{c}} ELSE {}]

Texts(job, source) ==
  CASE source = "location" -> {job.location}
    [] source = "description" -> {job.description}
    [] source = "title" -> {job.title}
    [] source = "search_params" -> job.params

\* country_detection.enabled and unknown_policy are read and never used.
CountryHits(job, cfg) ==
  LET aliases == MergeCountryAliases(cfg)
  IN  {c \in DOMAIN aliases :
         \E s \in cfg.sources : \E t \in Texts(job, s) : \E a \in aliases[c] : ContainsPhrase(t, a)}

Foreign(job, cfg) ==
  /\ cfg.reject_non_us
  /\ CountryHits(job, cfg) # {}
  /\ cfg.country \notin CountryHits(job, cfg)

Banned(job, cfg) ==
  \/ \E term \in cfg.banned_in_title : ContainsPhrase(job.title, term)
  \/ \E term \in cfg.banned_anywhere :
        ContainsPhrase(job.company \cup job.title \cup job.location \cup job.description, term)

LocalMatch(job, cfg) ==
  \E place \in cfg.allowed_locations \cup cfg.home_location :
     \/ ContainsPhrase(job.location, place)
     \/ ContainsPhrase(job.description, place)
     \/ cfg.weak_signal /\ \E t \in job.params : ContainsPhrase(t, place)

\* The first rule that matches; remote hints only reach the trace.
RouteJob(job, cfg) ==
  IF Foreign(job, cfg) \/ Banned(job, cfg) THEN "prefilter_reject"
  ELSE IF LocalMatch(job, cfg) /\ cfg.route_local_jobs THEN "local_candidate"
  ELSE IF cfg.route_remote_candidates THEN "remote_filter_candidate"
  ELSE "prefilter_reject"

Routes == {"remote_filter_candidate", "local_candidate", "prefilter_reject"}

\* A local job skips the remote filter, so it gets its class here.
Annotate(job, cfg) ==
  [job |-> job, route |-> RouteJob(job, cfg),
   class |-> IF RouteJob(job, cfg) = "local_candidate" THEN "onsite" ELSE "none"]
=============================================================================
