--------------------------- MODULE AnalysisCache ---------------------------
(***************************************************************************)
(* utils.analysis_cache: an append-only JSONL file of analyses under       *)
(* composite keys, read whole when a run starts and kept in memory.  The   *)
(* last line of a key wins.  A machine that dies in an append may leave    *)
(* part of a line; the next append continues that line, and both are       *)
(* malformed.  A file is                                                   *)
(*   entries   the set of <<key, analysis>> its good lines say             *)
(*   torn      whether it ends in part of a line                           *)
(***************************************************************************)
EXTENDS Naturals

Empty == [entries |-> {}, torn |-> FALSE]

(* One analysis per key, the last one put.                                 *)
With(entries, k, a) == {e \in entries : e[1] # k} \cup {<<k, a>>}

Load(file) == file.entries

Hit(mem, k) == \E e \in mem : e[1] = k
Get(mem, k) == (CHOOSE e \in mem : e[1] = k)[2]

AppendLine(file, k, a) ==
  IF file.torn THEN [file EXCEPT !.torn = FALSE]
  ELSE [file EXCEPT !.entries = With(file.entries, k, a)]

Tear(file) == [file EXCEPT !.torn = TRUE]
=============================================================================
