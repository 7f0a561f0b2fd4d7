----------------------------- MODULE AliasTable -----------------------------
(***************************************************************************)
(* raw.company_aliases: the cache of which board and slug a company name   *)
(* stands for, the heuristics and the search that fill it, and the world   *)
(* of job boards they probe.  A name is the sequence of its words; the     *)
(* slug that squashes some words together is the sequence of those words.  *)
(* A resolver is a process that looks a name up and, on a miss, resolves   *)
(* it and writes the result, in autocommit statements.                     *)
(***************************************************************************)
EXTENDS Naturals, Sequences, FiniteSets

CONSTANTS Boards,       \* the ATS boards that are probed
          Filler,       \* words the heuristics drop
          NoRow

VARIABLES live,         \* the <<board, slug>> pairs that answer 200
          alias,        \* raw.company_aliases: name -> NoRow or a row
          companyBoards,\* raw.company_boards
          verified      \* history: the pairs that have answered a probe

aliasVars == <<live, alias, companyBoards, verified>>

Significant(name) == SelectSeq(name, LAMBDA w : w \notin Filler)
Trimmed(name) ==
  LET kept == {i \in DOMAIN name : name[i] \notin Filler}
      last == IF kept = {} THEN 0 ELSE CHOOSE i \in kept : \A j \in kept : j <= i
  IN SubSeq(name, 1, last)

(* heuristic_candidates: the squashed name, the name without trailing      *)
(* filler, the first significant word, the acronym; the first of equals.   *)
Candidates(name) ==
  LET sig == Significant(name)
      tries == << name, Trimmed(name),
                  IF sig = << >> THEN << >> ELSE <<sig[1]>>,
                  IF sig = << >> THEN << >> ELSE <<"acronym">> \o sig >>
      first == {i \in DOMAIN tries : tries[i] # << >> /\ \A j \in 1..(i-1) : tries[j] # tries[i]}
  IN [i \in 1..Cardinality(first) |->
        tries[CHOOSE k \in first : Cardinality({j \in first : j < k}) = i - 1]]

Result(status, board, slug) == [status |-> status, board |-> board, slug |-> slug]
Unresolved == Result("unresolved", NoRow, NoRow)

(* probe_company: a board that does not answer in time counts as one that  *)
(* does not have the company.                                              *)
Answers(slug, lost) == {p \in live \ lost : p[2] = slug}
Probe(slug, lost) == {p[1] : p \in Answers(slug, lost)}

(* cse_search: boards in order, the top hit of each, trusted when a probe  *)
(* of the board confirms it.                                               *)
SearchHits(lost) == live \ lost

(* resolve: candidates in order, the first that any board answers for; two *)
(* boards are not decided between; then the search; then nothing.          *)
Resolutions(name, lost) ==
  LET cs == Candidates(name)
      hits == {i \in DOMAIN cs : Probe(cs[i], lost) # {}}
      i == CHOOSE k \in hits : \A j \in hits : k <= j
  IN IF hits # {}
     THEN IF Cardinality(Probe(cs[i], lost)) = 1
          THEN {Result("resolved", b, cs[i]) : b \in Probe(cs[i], lost)}
          ELSE {Result("needs_review", NoRow, cs[i])}
     ELSE {Unresolved} \cup {Result("resolved", p[1], p[2]) : p \in SearchHits(lost)}

(* AliasCache.lookup: an unresolved row past its 90 days is a miss.        *)
Cached(name) == alias[name] # NoRow /\ ~(alias[name].status = "unresolved" /\ alias[name].old)

CollidesNever(existing, result) == FALSE   \* a fault: the last writer wins

(* AliasCache.write, after its SELECT has returned existing.               *)
Collides(existing, result) ==
  /\ existing # NoRow /\ existing.status = "resolved"
  /\ result.status = "resolved" /\ existing.slug # result.slug

WriteAlias(name, existing, result) ==
  alias' = [alias EXCEPT ![name] =
    IF Collides(existing, result)
    THEN IF @ = NoRow THEN NoRow ELSE [@ EXCEPT !.status = "needs_review", !.old = FALSE]
    ELSE [status |-> result.status, board |-> result.board, slug |-> result.slug, old |-> FALSE]]

(* A fault: the status of the row is not looked at.                        *)
TargetAnyStatus(name) ==
  IF alias[name] # NoRow THEN {<<alias[name].board, alias[name].slug>>} ELSE {}

(* load_config, _lookup_slug: what the worker asks for a company.          *)
Target(name) ==
  IF alias[name] # NoRow /\ alias[name].status = "resolved"
  THEN {<<alias[name].board, alias[name].slug>>} ELSE {}
=============================================================================
