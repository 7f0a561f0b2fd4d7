------------------------------- MODULE FanIn -------------------------------
(***************************************************************************)
(* What consolidate_run computes from the scrape files of a run: one       *)
(* posting per key, the one with the longest description, with the search  *)
(* contexts of all its duplicates.  A posting is a record of               *)
(*   key     what compute_hash hashes: the source, its job id, company,    *)
(*           title and location, and not the description                   *)
(*   title   its title                                                     *)
(*   desc    the length of its description, 0 for none                     *)
(*   ctxs    the search contexts it was found with                         *)
(***************************************************************************)
EXTENDS Naturals, Sequences

Key(p) == p.key

Keys(ps) == {Key(ps[i]) : i \in DOMAIN ps}

\* A dedup that keeps the first posting of a key, whatever it says.
PlaceFirst(out, p) == IF Key(p) \in Keys(out) THEN out ELSE Append(out, p)

(* A later duplicate takes the slot only with a longer description.        *)
Place(out, p) ==
  IF Key(p) \notin Keys(out) THEN Append(out, p)
  ELSE [i \in DOMAIN out |->
          IF Key(out[i]) = Key(p) /\ p.desc > out[i].desc THEN p ELSE out[i]]

(* dedup_jobs.                                                             *)
Dedup(ps) ==
  LET out[n \in 0..Len(ps)] == IF n = 0 THEN <<>> ELSE Place(out[n - 1], ps[n])
  IN  out[Len(ps)]

(* _attach_search_contexts: a winner without search parameters must not    *)
(* erase the search another copy came from.                                *)
Attach(canonical, ps) ==
  [i \in DOMAIN canonical |->
    [canonical[i] EXCEPT !.ctxs = UNION {ps[j].ctxs : j \in {j \in DOMAIN ps :
                                           Key(ps[j]) = Key(canonical[i])}}]]

Canonical(ps) == Attach(Dedup(ps), ps)
=============================================================================
