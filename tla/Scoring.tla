------------------------------ MODULE Scoring ------------------------------
(***************************************************************************)
(* The LLM half of an overnight run without --batch: the fan-in's union is *)
(* classified by remote_filter, gated by each user's policies and scored   *)
(* by skills_fit, one user after the other, with an analysis cache behind  *)
(* each agent and the scored file of an earlier attempt in the run         *)
(* directory.  The process may be killed or interrupted anywhere; the      *)
(* administrator starts it again for the same run id or for a new one.     *)
(* With --batch only the classification is modelled here, the scoring in   *)
(* BatchScoring.                                                           *)
(***************************************************************************)
EXTENDS AnalysisCache, PolicyGate, Sequences

CONSTANTS Users,          \* a sequence, in the order of their e-mails
          Postings,       \* dedup keys
          Unions,         \* what the fan-in may find: posting -> NoRow or a row
          Policies,       \* what users' policies may be
          Profiles,       \* what their profile versions may be: user -> version
          Setups,         \* prompt, provider and model
          Verdicts,       \* what remote_filter may find out about a posting
          Locals,         \* postings in the day's data/local file
          NoRow, Nobody,
          Failed,         \* in the place of an analysis: failure_reason "agent_failed"
          Workers,        \* threads of the pool
          Batches,        \* whether --batch is in use: a subset of BOOLEAN
          MaxRuns, MaxFaults, MaxMisses   \* bounds: starts, faults, failed calls

UserSet == {Users[i] : i \in DOMAIN Users}

ASSUME ScoringAssumption ==
  /\ Workers \in Nat \ {0}
  /\ Users \in Seq(UserSet) /\ IsFiniteSet(Postings)
  /\ \A f \in Unions : \A p \in Postings : f[p] = NoRow \/ f[p].wanted \subseteq UserSet
  /\ Locals \subseteq Postings /\ Nobody \notin UserSet

VARIABLES union,        \* the fan-in's union file
          wanted,       \* pipe.consolidated_postings: who requested a key
          profile,      \* the materialized profile of each user
          setup,        \* the prompt, provider and model of this attempt
          remoteCache, fitCache,
          classified,   \* classified.jsonl
          input, out,   \* each user's input.jsonl and scored.jsonl
          verdict,      \* the summary: user -> "none", "skipped", "scored", "failed"
          job,          \* the process
          taken,        \* history: what was asked and answered, and is in a cache
          attempt, faults, misses

files == <<remoteCache, fitCache, classified, input, out>>
world == <<union, wanted, profile, setup>>
bounds == <<attempt, faults, misses>>
vars == <<world, files, verdict, job, taken, bounds>>

Down == [pc |-> "down", batch |-> FALSE, mem |-> {}, todo |-> {}, flight |-> {},
         results |-> {}, users |-> {}, pol |-> <<>>]

(* The first of some users in the order of their e-mails; the one scored   *)
(* now is the first of those still to be scored.                           *)
Earliest(us) == Users[CHOOSE i \in DOMAIN Users :
                       Users[i] \in us /\ \A j \in 1..(i-1) : Users[j] \notin us]
User == Earliest(job.users)

(* What an answer was given for, and the key it is cached under.           *)
AskedRemote(p, f, s) == <<"remote", p, s, f[p].ctx>>
AskedFit(p, u) == <<"fit", p, setup, profile[u]>>
Asked(p) == IF job.pc = "classify" THEN AskedRemote(p, union, setup) ELSE AskedFit(p, User)

\* A fault: a key without the profile version.
FitKeyNoProfile(p) == <<"fit", p, setup>>

RemoteKey(p, f, s) == AskedRemote(p, f, s)
FitKey(p) == AskedFit(p, User)
Key(p) == IF job.pc = "classify" THEN RemoteKey(p, union, setup) ELSE FitKey(p)

Classified(p, a) == [p |-> p, ana |-> a]
Scored(p, a) == [p |-> p, ana |-> a, by |-> attempt, stamp |-> Nobody]

Init ==
  /\ union \in Unions /\ wanted = [p \in Postings |-> {}]
  /\ profile \in Profiles /\ setup \in Setups
  /\ remoteCache = Empty /\ fitCache = Empty /\ classified = {}
  /\ input = [u \in UserSet |-> {}] /\ out = [u \in UserSet |-> {}]
  /\ verdict = [u \in UserSet |-> "none"]
  /\ job = Down /\ taken = {}
  /\ attempt = 0 /\ faults = 0 /\ misses = 0

Found(f) == {p \in Postings : f[p] # NoRow}
Wanted(f, old) == [p \in Postings |-> IF f[p] = NoRow THEN old[p] ELSE f[p].wanted]

(* remote_filter: the plan pass over the cache, the hits written, and the  *)
(* file truncated; with --batch it is written when the batch is back.      *)
Described(f) == {p \in Found(f) : f[p].text}
HitPostings(keys, mem) == {p \in DOMAIN keys : Hit(mem, keys[p])}

Classify(f, s, batch) ==
  LET keys == [p \in Described(f) |-> RemoteKey(p, f, s)]
      mem == Load(remoteCache)
      hits == HitPostings(keys, mem)
      lines == {Classified(p, Get(mem, keys[p])) : p \in hits} IN
  /\ job' = [Down EXCEPT !.pc = "classify", !.batch = batch, !.mem = mem,
                         !.todo = Described(f) \ hits, !.results = lines]
  /\ classified' = IF batch THEN classified ELSE lines

(* The planner has materialized the profiles, the scrapers are done and    *)
(* the fan-in upserts what it finds; an empty union ends the run.  A new   *)
(* run id means a new directory and no rows.                               *)
Start(fresh) ==
  /\ job.pc \in {"down", "done"} /\ attempt < MaxRuns
  /\ attempt' = attempt + 1
  /\ union' \in {f \in Unions : Found(f) # {}}
  /\ profile' \in Profiles /\ setup' \in Setups
  /\ wanted' = Wanted(union', IF fresh THEN [p \in Postings |-> {}] ELSE wanted)
  /\ out' = IF fresh THEN [u \in UserSet |-> {}] ELSE out
  /\ input' = IF fresh THEN [u \in UserSet |-> {}] ELSE input
  /\ verdict' = [u \in UserSet |-> "none"]
  /\ \E batch \in Batches : Classify(union', setup', batch)
  /\ UNCHANGED <<remoteCache, fitCache, taken, faults, misses>>

-----------------------------------------------------------------------------
\* The pool: calls in flight, their answers taken in on the main thread.

Pooling == job.pc \in {"classify", "score"}

(* A free thread of the pool takes the next call.                          *)
Submit(p) ==
  /\ Pooling /\ ~job.batch /\ p \in job.todo /\ Cardinality(job.flight) < Workers
  /\ job' = [job EXCEPT !.todo = @ \ {p}, !.flight = @ \cup {p}]
  /\ UNCHANGED <<world, files, verdict, taken, bounds>>

(* All misses are uploaded as one batch and polled for.                    *)
SubmitBatch ==
  /\ Pooling /\ job.batch /\ job.todo # {}
  /\ job' = [job EXCEPT !.todo = {}, !.flight = job.todo]
  /\ UNCHANGED <<world, files, verdict, taken, bounds>>

(* The answer goes into the cache, in memory and on disk, before the       *)
(* record that uses it.                                                    *)
\* A fault: the analysis is kept in memory only.
PutInMemory(file, k, a) == file

Put(file, k, a) == AppendLine(file, k, a)

\* remote_filter: the line is written when its answer is in, with --batch later.
SinkRemote(p) ==
  /\ job.pc = "classify" /\ p \in job.flight
  /\ \E v \in Verdicts :
       LET a == [asked |-> Asked(p), v |-> v]
           lines == job.results \cup {Classified(p, a)} IN
       /\ job' = [job EXCEPT !.flight = @ \ {p}, !.mem = With(@, Key(p), a), !.results = lines]
       /\ remoteCache' = Put(remoteCache, Key(p), a)
       /\ classified' = IF job.batch THEN classified ELSE lines
  /\ taken' = IF remoteCache.torn THEN taken \ {Asked(p)} ELSE taken \cup {Asked(p)}
  /\ UNCHANGED <<world, fitCache, input, out, verdict, bounds>>

SinkFit(p) ==
  /\ job.pc = "score" /\ p \in job.flight
  /\ LET a == [asked |-> Asked(p)] IN
       /\ job' = [job EXCEPT !.flight = @ \ {p}, !.mem = With(@, Key(p), a),
                             !.results = @ \cup {Scored(p, a)}]
       /\ fitCache' = Put(fitCache, Key(p), a)
  /\ taken' = IF fitCache.torn THEN taken \ {Asked(p)} ELSE taken \cup {Asked(p)}
  /\ UNCHANGED <<world, remoteCache, classified, input, out, verdict, bounds>>

(* No analysis after the retries, or none in the batch's output: the       *)
(* classifier skips the posting, skills_fit records the failure.           *)
Missed == misses < MaxMisses /\ misses' = misses + 1
          /\ UNCHANGED <<world, files, verdict, taken, attempt, faults>>

RemoteNone(p) ==
  /\ job.pc = "classify" /\ p \in job.flight /\ Missed
  /\ job' = [job EXCEPT !.flight = @ \ {p}]

FitNone(p) ==
  /\ job.pc = "score" /\ p \in job.flight /\ Missed
  /\ job' = [job EXCEPT !.flight = @ \ {p}, !.results = @ \cup {Scored(p, Failed)}]

Drained == Pooling /\ job.todo = {} /\ job.flight = {}

(* The batch runner writes its file when all its lines are parsed.         *)
EndBatch ==
  /\ job.pc = "classify" /\ Drained /\ job.batch
  /\ classified' = job.results
  /\ job' = [Down EXCEPT !.pc = "done"]
  /\ UNCHANGED <<world, remoteCache, fitCache, input, out, verdict, taken, bounds>>

-----------------------------------------------------------------------------
\* score_run

(* One SELECT: the users of the run's postings and their policies now.     *)
Requesting == {u \in UserSet : \E p \in Postings : u \in wanted[p]}
Resume(j) == [Down EXCEPT !.pc = IF j.users = {} THEN "done" ELSE "gate",
                         !.users = j.users, !.pol = j.pol]

EndClassify ==
  /\ job.pc = "classify" /\ Drained /\ ~job.batch
  /\ \E pol \in [UserSet -> Policies] :
       job' = Resume([users |-> Requesting, pol |-> pol])
  /\ UNCHANGED <<world, files, verdict, taken, bounds>>

(* A posting that is in the table and not in the file is not classified.   *)
ClassifiedFor(u) == {r \in classified : u \in wanted[r.p]}
Survivors(u) == {r.p : r \in {c \in ClassifiedFor(u) : Keeps(job.pol[u], c.ana.v)}}

(* load_tagged_inputs: the user's postings and those of the day's file     *)
(* data/local/<run date>/local_jobs.jsonl, if there is one.                *)
Inputs(u) == Survivors(u) \cup Locals

SkipUser ==
  /\ job.pc = "gate" /\ Survivors(User) = {}
  /\ verdict' = [verdict EXCEPT ![User] = "skipped"]
  /\ job' = Resume([job EXCEPT !.users = @ \ {User}])
  /\ UNCHANGED <<world, files, taken, bounds>>

(* load_existing_output_records and is_processed_output_record: whatever   *)
(* an earlier attempt wrote for a posting is taken over, failures too.     *)
Resumed(ps) == {r \in out[User] : r.p \in ps}

(* input.jsonl is written; the plan pass over it and the day's local file  *)
(* takes existing records, then hits, and leaves the rest to the pool.     *)
ScoreUser ==
  /\ job.pc = "gate" /\ Survivors(User) # {}
  /\ LET ps == Inputs(User)
         mem == Load(fitCache)
         resumed == Resumed(ps)
         rest == ps \ {r.p : r \in resumed}
         hits == HitPostings([p \in rest |-> FitKey(p)], mem) IN
     job' = [job EXCEPT !.pc = "score", !.mem = mem, !.todo = rest \ hits,
               !.results = resumed \cup {Scored(p, Get(mem, FitKey(p))) : p \in hits}]
  /\ input' = [input EXCEPT ![User] = Survivors(User)]
  /\ UNCHANGED <<world, remoteCache, fitCache, classified, out, verdict, taken, bounds>>

(* write_output opens the file with "w".                                   *)
\* A fault: it opens the file with "a".
Extend(old, records) == old \cup records

Overwrite(old, records) == records

WriteOutput ==
  /\ job.pc = "score" /\ Drained
  /\ out' = [out EXCEPT ![User] = Overwrite(@, job.results)]
  /\ job' = [job EXCEPT !.pc = "stamp"]
  /\ UNCHANGED <<world, remoteCache, fitCache, classified, input, verdict, taken, bounds>>

Stamped(u) == {[r EXCEPT !.stamp = u] : r \in out[u]}

StampUserEmail ==
  /\ job.pc = "stamp"
  /\ out' = [out EXCEPT ![User] = Stamped(User)]
  /\ verdict' = [verdict EXCEPT ![User] = "scored"]
  /\ job' = Resume([job EXCEPT !.users = @ \ {User}])
  /\ UNCHANGED <<world, remoteCache, fitCache, classified, input, taken, bounds>>

-----------------------------------------------------------------------------
\* Faults

Fault == faults < MaxFaults /\ faults' = faults + 1 /\ UNCHANGED <<world, attempt, misses>>
Running == job.pc \notin {"down", "done"}

(* A batch that is not completed raises; nothing is cached or written.     *)
BatchFails ==
  /\ Fault /\ job.batch /\ job.flight # {} /\ job.mem = Load(remoteCache)
  /\ job' = Down
  /\ UNCHANGED <<files, verdict, taken>>

(* A call raises (no API key), the cache cannot be written: the pool drops *)
(* what is queued and in flight.  The classifier's exception ends the run, *)
(* one user's is isolated; nothing of the results is written.              *)
CallRaises ==
  /\ Fault /\ Pooling /\ ~job.batch /\ job.flight # {}
  /\ IF job.pc = "classify" THEN job' = Down /\ UNCHANGED verdict
     ELSE /\ verdict' = [verdict EXCEPT ![User] = "failed"]
          /\ job' = Resume([job EXCEPT !.users = @ \ {User}])
  /\ UNCHANGED <<files, taken>>

(* The operator's interrupt: skills_fit writes what it has collected, and  *)
(* the interrupt ends the run.                                             *)
Interrupt ==
  /\ Fault /\ Running
  /\ job' = Down
  /\ out' = IF job.pc = "score" /\ job.todo \cup job.flight # {} /\ job.results # {}
            THEN [out EXCEPT ![User] = Overwrite(@, job.results)] ELSE out
  /\ UNCHANGED <<remoteCache, fitCache, classified, input, verdict, taken>>

(* Records are written in the order of their rank: those without a score   *)
(* come last.                                                              *)
Prefixes(records) ==
  {s \in SUBSET records : (\E r \in s : r.ana = Failed) =>
                            \A r \in records : r.ana # Failed => r \in s}

(* Killed, in the middle of a rewrite of the scored file or elsewhere.     *)
Die ==
  /\ Fault /\ Running
  /\ job' = Down
  /\ \/ UNCHANGED out
     \/ /\ Drained /\ job.pc = "score"
        /\ \E s \in Prefixes(Overwrite(out[User], job.results)) : out' = [out EXCEPT ![User] = s]
     \/ /\ job.pc = "stamp"
        /\ \E s \in Prefixes(Stamped(User)) : out' = [out EXCEPT ![User] = s]
  /\ UNCHANGED <<remoteCache, fitCache, classified, input, verdict, taken>>

(* The machine dies in an append to a cache.                               *)
DieInAppend ==
  /\ Fault /\ Pooling /\ job.flight # {}
  /\ job' = Down
  /\ IF job.pc = "classify" THEN remoteCache' = Tear(remoteCache) /\ UNCHANGED fitCache
     ELSE fitCache' = Tear(fitCache) /\ UNCHANGED remoteCache
  /\ UNCHANGED <<classified, input, out, verdict, taken>>

Next ==
  \/ \E fresh \in BOOLEAN : Start(fresh)
  \/ SubmitBatch \/ EndBatch \/ EndClassify \/ SkipUser \/ ScoreUser \/ WriteOutput \/ StampUserEmail
  \/ \E p \in Postings : \/ Submit(p) \/ SinkRemote(p) \/ RemoteNone(p)
                            \/ SinkFit(p) \/ FitNone(p)
  \/ BatchFails \/ CallRaises \/ Interrupt \/ Die \/ DieInAppend

Spec == Init /\ [][Next]_vars

-----------------------------------------------------------------------------
(* A scored user's file, whatever attempts it took, holds one record for   *)
(* each survivor of this attempt's gate and of the local file and no       *)
(* others, all stamped with the user's own address.                        *)
ScoredWhole ==
  \A u \in UserSet : verdict[u] = "scored" =>
    /\ {r.p : r \in out[u]} = input[u] \cup Locals
    /\ Cardinality(out[u]) = Cardinality(input[u] \cup Locals)
    /\ \A r \in out[u] : r.stamp = u

(* What this attempt classifies or scores, from the caches or not, was     *)
(* asked for the very posting, setup, search context and profile: users    *)
(* share both caches, and the setup, the contexts and the profiles change  *)
(* between attempts.                                                       *)
ServedRight ==
  /\ job.pc \in {"gate", "score", "stamp"} =>
       \A r \in classified : r.ana.asked = AskedRemote(r.p, union, setup)
  /\ \A u \in UserSet : verdict[u] = "scored" =>
       \A r \in out[u] : r.by = attempt /\ r.ana # Failed => r.ana.asked = AskedFit(r.p, u)

(* No call is made for what was answered before, by any user's scoring or  *)
(* in any attempt, interrupted or not, unless a torn append lost it.       *)
BoughtOnce == [][\A p \in job'.flight \ job.flight : Asked(p) \notin taken]_vars

-----------------------------------------------------------------------------
\* A promise the code does not keep, with the README's account of how.
\* No run checks it.

(* scoring.py: each user scores against their own materialized profile,    *)
(* "so the score embeds the right profile and records the right            *)
(* profile_version".                                                       *)
OwnProfile ==
  \A u \in UserSet : verdict[u] = "scored" =>
    \A r \in out[u] : r.ana # Failed => r.ana.asked[4] = profile[u]
=============================================================================
