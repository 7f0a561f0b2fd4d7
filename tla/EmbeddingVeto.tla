--------------------------- MODULE EmbeddingVeto ---------------------------
(***************************************************************************)
(* The policies process_job applies to a scraped batch: the title filter   *)
(* for every source, and for "companies" the embedding veto, which drops   *)
(* the lowest-ranked part of the batch.  A depth is in hundredths; the     *)
(* code multiplies a float, whose rounding is left out.  The embedding     *)
(* cache file is a record of                                               *)
(*   texts     what its lines hold vectors of                              *)
(*   corrupt   whether a line of it does not parse: no reader gets past it *)
(***************************************************************************)
EXTENDS Naturals, Sequences, FiniteSets, Orders

CONSTANTS Similarity,   \* user -> title -> number, the pooled score
          HashRank,     \* key -> number, the order of the dedup hashes
          Unset         \* an override a user's policies leave out

TitleFilter(jobs, excluded) == Pick(jobs, {i \in DOMAIN jobs : jobs[i].title \notin excluded})

(* The user's flag without the system's gate.                              *)
EnabledForUser(sys, pol) == IF pol.veto = Unset THEN sys.enabled ELSE pol.veto

(* A user may switch the veto off, and never on while the system has it    *)
(* off.                                                                    *)
Enabled(sys, pol) ==
  IF pol.veto = Unset \/ (pol.veto /\ ~sys.enabled) THEN sys.enabled ELSE pol.veto

Depth(sys, pol) == IF pol.depth = Unset THEN sys.depth ELSE pol.depth

Vetoes(sys, pol, jobs) == Enabled(sys, pol) /\ jobs # <<>> /\ Depth(sys, pol) # 0

(* _load_reference_texts: one text per user, from the run's artifacts.     *)
Reference(u) == <<"reference", u>>

NoVectors == [texts |-> {}, corrupt |-> FALSE]

(* parse_cache_jsonl: a malformed line is corruption, whoever wrote it.    *)
Readable(file) == ~file.corrupt

AppendVectors(file, misses) == [file EXCEPT !.texts = @ \cup misses]

(* The process dies in the append: some lines, and perhaps part of one.    *)
CutAppends(file, misses) ==
  {[texts |-> file.texts \cup done, corrupt |-> c] : done \in SUBSET misses, c \in BOOLEAN}

(* The texts whose vectors a veto needs: the reference and every title.    *)
Texts(u, jobs) == {Reference(u)} \cup {<<"title", jobs[i].title>> : i \in DOMAIN jobs}

(* rank_by_scores: best first, then by hash; the sort is stable.           *)
Ahead(u, jobs, i, j) ==
  LET s(n) == Similarity[u][jobs[n].title]  h(n) == HashRank[jobs[n].key] IN
  \/ s(i) > s(j)
  \/ s(i) = s(j) /\ h(i) < h(j)
  \/ s(i) = s(j) /\ h(i) = h(j) /\ i < j

Rank(u, jobs, j) == Cardinality({i \in DOMAIN jobs : Ahead(u, jobs, i, j)})

(* int(cut_depth * len(jobs)).                                             *)
DropCount(depth, jobs) == (depth * Len(jobs)) \div 100

Veto(u, jobs, depth) ==
  Pick(jobs, {i \in DOMAIN jobs : Rank(u, jobs, i) < Len(jobs) - DropCount(depth, jobs)})
=============================================================================
