--------------------------- MODULE PlanningProofs ---------------------------
(***************************************************************************)
(* What planning guarantees for any number of users, planners, run ids,    *)
(* searches and job boards, wherever planners die and however often a run  *)
(* id is planned.                                                          *)
(***************************************************************************)
EXTENDS Planning, FiniteSetTheorems, TLAPS

-----------------------------------------------------------------------------
(* The values of the state.                                                *)

Slugs == {p[2] : p \in UNION Worlds} \cup Names \cup {NoRow}
           \cup UNION {{Candidates(n)[i] : i \in DOMAIN Candidates(n)} : n \in Names}
Statuses == {"resolved", "needs_review", "unresolved"}
Results == [status : Statuses, board : Boards \cup {NoRow}, slug : Slugs]
AliasRows == [status : Statuses, board : Boards \cup {NoRow}, slug : Slugs, old : BOOLEAN]

Payloads == {PipelineSearch(s)[k] : s \in Searches, k \in Sources}
Artifacts == [search : {PipelineSearch(s) : s \in Searches} \cup {None, Torn},
              policies : {DerivePolicies(s) : s \in Searches} \cup {None, Torn},
              profile : {"whole", None, Torn}]
Snapshots == [profile : SUBSET UserSet, search : [UserSet -> Searches \cup {None}],
              enabled : [UserSet -> BOOLEAN]]

Resolving == {"lookup", "select", "upsert", "board"}
Delivering == {"policies", "profile", "enqueue"}
Positions == 0..(Len(Users) + 1)
Pcs == {"idle", "user"} \cup Resolving \cup Delivering
Processes ==
  [pc : Pcs, run : Runs \cup {None},
   snap : Snapshots \cup {None}, names : SUBSET Names, at : Positions,
   name : Names \cup {None}, result : Results \cup {None},
   existing : AliasRows \cup {NoRow, None}, file : Files \cup {None}, todo : SUBSET Sources]

\* Every variable has a value of its type.
TypeOK ==
  /\ live \subseteq Boards \X Slugs /\ verified \subseteq Boards \X Slugs
  /\ alias \in [Names -> AliasRows \cup {NoRow}]
  /\ companyBoards \subseteq (Boards \cup {NoRow}) \X Slugs
  /\ profile \subseteq UserSet /\ search \in [UserSet -> Searches \cup {None}]
  /\ enabled \in [UserSet -> BOOLEAN]
  /\ files \in [Runs \X UserSet -> Artifacts]
  /\ rows \in [Runs \X UserSet \X Sources -> Payloads \cup {None}]
  /\ planner \in [Planners -> Processes]
  /\ snaps \in [Runs -> SUBSET Snapshots] /\ finished \in [Runs -> SUBSET Snapshots]

-----------------------------------------------------------------------------
(* The inductive invariant.                                                *)

Confirmed(r) == r.status = "resolved" => <<r.board, r.slug>> \in verified

\* What is known of a company, in the table or on its way there, is confirmed.
Trusted ==
  /\ \A n \in Names : alias[n] # NoRow => Confirmed(alias[n])
  /\ \A p \in Planners : planner[p].pc \in {"select", "upsert", "board"} =>
       planner[p].name \in Names /\ planner[p].result \in Results /\ Confirmed(planner[p].result)

\* Some plan of the run has written the artifacts of the user from its snapshot;
\* since then they were written the same way or opened for it.
Written(r, u) ==
  \/ files[<<r, u>>].search = Torn
  \/ \E s \in snaps[r] : Eligible(s, u) /\ files[<<r, u>>].search = PipelineSearch(s.search[u])
Policied(r, u) ==
  \/ files[<<r, u>>].policies = Torn
  \/ \E s \in snaps[r] : Eligible(s, u) /\ files[<<r, u>>].policies = DerivePolicies(s.search[u])
Profiled(r, u) == files[<<r, u>>].profile \in {Torn, "whole"}

\* A row has come from a snapshot of its run, after the user's artifacts.
Sourced ==
  \A r \in Runs, u \in UserSet, k \in Sources : rows[<<r, u, k>>] # None =>
    /\ \E s \in snaps[r] : Eligible(s, u) /\ rows[<<r, u, k>>] = PipelineSearch(s.search[u])[k]
    /\ Written(r, u) /\ Policied(r, u) /\ Profiled(r, u)

Wants(snap, u) == SourcesFor(PipelineSearch(snap.search[u]))
Enqueued(r, u, ks) == \A k \in ks : rows[<<r, u, k>>] # None
Served(r, snap, u) == Eligible(snap, u) => Enqueued(r, u, Wants(snap, u))

\* A planner holds a snapshot of its run and has served the users before.
Behind(me) ==
  /\ me.run \in Runs /\ me.snap \in snaps[me.run]
  /\ me.pc \in Resolving => me.at = 0
  /\ me.pc \notin Resolving =>
       me.at >= 1 /\ \A i \in 1..(me.at - 1) : Served(me.run, me.snap, Users[i])

\* And is somewhere between the artifacts and the last row of one.
Amid(me) ==
  LET u == Users[me.at] IN
  /\ me.at <= Len(Users) /\ Eligible(me.snap, u) /\ Written(me.run, u)
  /\ me.pc \in {"profile", "enqueue"} => Policied(me.run, u)
  /\ me.pc = "enqueue" =>
       /\ Profiled(me.run, u) /\ me.todo # {} /\ me.todo \subseteq Wants(me.snap, u)
       /\ Enqueued(me.run, u, Wants(me.snap, u) \ me.todo)

\* It has no file open but the one that is due for a user it may not skip.
Opened(me) ==
  me.file # None =>
    /\ me.pc \in {"user", "policies", "profile"} /\ me.file = Due(me)
    /\ me.pc = "user" => me.at <= Len(Users) /\ Eligible(me.snap, Users[me.at])

Held(p) ==
  /\ planner[p].pc # "idle" => Behind(planner[p])
  /\ planner[p].pc \in Delivering => Amid(planner[p])
  /\ Opened(planner[p])
Placed == \A p \in Planners : Held(p)

\* One planner at a time, it finds in the table what it has read there.
Alone ==
  ~Overlap =>
    /\ \A p, q \in Planners : planner[p].pc # "idle" /\ planner[q].pc # "idle" => p = q
    /\ \A p \in Planners : planner[p].pc = "upsert" =>
         LET row == alias[planner[p].name] IN
         row # NoRow /\ row.status = "resolved" => planner[p].existing = row

\* A torn file is being written, or a planner has died at it.
Writing(r, u, file) ==
  \E p \in Planners : planner[p].run = r /\ Users[planner[p].at] = u /\ planner[p].file = file
Explained ==
  \A r \in Runs, u \in UserSet, file \in Files :
    files[<<r, u>>][file] = Torn => <<r, u, file>> \in cut \/ Writing(r, u, file)

Finite == \A r \in Runs : IsFiniteSet(snaps[r])

Inv ==
  /\ TypeOK /\ Trusted /\ Sourced /\ Placed /\ Alone /\ Explained /\ Finite
  /\ ScrapesVerified /\ PlanComplete

-----------------------------------------------------------------------------
(* The operators of the model.                                             *)

LEMMA SectionsTyped ==
    ASSUME NEW s \in Searches, NEW k \in Sources
    PROVE  /\ PipelineSearch(s)[k] \in Payloads /\ PipelineSearch(s)[k] # None
           /\ PipelineSearch(s)["companies"] \subseteq Names
<1>1. PipelineSearch(s)["companies"] \subseteq s.companies
  BY DEF PipelineSearch, Sources
<1> QED
  BY <1>1, PlanningAssumption DEF Payloads, Names

LEMMA UsersTyped ==
    /\ Len(Users) \in Nat
    /\ \A i \in 1..Len(Users) : Users[i] \in UserSet
    /\ \A u \in UserSet : \E i \in 1..Len(Users) : u = Users[i]
  BY PlanningAssumption DEF UserSet

LEMMA GatheredTyped ==
    ASSUME NEW snap \in Snapshots
    PROVE  Gathered(snap) \subseteq Names
<1>1. ASSUME NEW u \in UserSet, Eligible(snap, u)
      PROVE  snap.search[u] \in Searches
  BY <1>1 DEF Snapshots, Eligible
<1> QED
  BY <1>1 DEF Gathered, Names

LEMMA AnswersTyped ==
    ASSUME live \subseteq Boards \X Slugs, NEW slug, NEW lost
    PROVE  /\ Answers(slug, lost) \subseteq Boards \X Slugs
           /\ \A b \in Probe(slug, lost) : b \in Boards /\ <<b, slug>> \in Answers(slug, lost)
  BY DEF Answers, Probe

LEMMA CandidatesTyped ==
    ASSUME NEW n
    PROVE  DOMAIN Candidates(n) \subseteq 1..4
<1> DEFINE sig == Significant(n)
           tries == << n, Trimmed(n),
                       IF sig = << >> THEN << >> ELSE <<sig[1]>>,
                       IF sig = << >> THEN << >> ELSE <<"acronym">> \o sig >>
           first == {i \in DOMAIN tries : tries[i] # << >> /\ \A j \in 1..(i-1) : tries[j] # tries[i]}
<1>1. first \subseteq 1..4
  OBVIOUS
<1>2. IsFiniteSet(1..4) /\ Cardinality(1..4) = 4
  <2>1. /\ IsFiniteSet(1..4)
        /\ Cardinality(1..4) = IF 1 > 4 THEN 0 ELSE 4 - 1 + 1
    BY FS_Interval, 1 \in Int, 4 \in Int, Zenon
  <2> QED BY <2>1
<1>3. IsFiniteSet(first) /\ Cardinality(first) \in Nat /\ Cardinality(first) <= 4
  <2> HIDE DEF first
  <2> QED BY <1>1, <1>2, FS_Subset, FS_CardinalityType
<1>4. DOMAIN Candidates(n) = 1..Cardinality(first)
  BY DEF Candidates
<1> HIDE DEF first
<1> QED
  BY <1>3, <1>4

LEMMA ResolutionsTyped ==
    ASSUME live \subseteq Boards \X Slugs, NEW n \in Names, NEW lost,
           NEW r \in Resolutions(n, lost)
    PROVE  r \in Results /\ (r.status = "resolved" => <<r.board, r.slug>> \in Answers(r.slug, lost))
<1> DEFINE cs == Candidates(n)
           hits == {j \in DOMAIN cs : Probe(cs[j], lost) # {}}
           i == CHOOSE k \in hits : \A j \in hits : k <= j
<1>1. CASE hits # {}
  <2>1. \E k \in hits : \A j \in hits : k <= j
    <3>1. hits \subseteq 1..4
      BY CandidatesTyped
    <3> HIDE DEF hits
    <3>2. \/ 1 \in hits
          \/ 1 \notin hits /\ 2 \in hits
          \/ 1 \notin hits /\ 2 \notin hits /\ 3 \in hits
          \/ 1 \notin hits /\ 2 \notin hits /\ 3 \notin hits /\ 4 \in hits
      <4>1. PICK k \in hits : k \in 1..4
        BY <1>1, <3>1
      <4>2. k = 1 \/ k = 2 \/ k = 3 \/ k = 4
        BY <4>1
      <4> QED BY <4>1, <4>2
    <3> QED BY <3>1, <3>2
  <2>2. i \in DOMAIN cs
    BY <2>1
  <2>3. cs[i] \in Slugs
    <3>1. cs[i] \in {cs[j] : j \in DOMAIN cs}
      BY <2>2
    <3> HIDE DEF i
    <3> QED BY <3>1 DEF Slugs
  <2>4. \/ \E b \in Probe(cs[i], lost) : r = Result("resolved", b, cs[i])
        \/ r = Result("needs_review", NoRow, cs[i])
    BY <1>1 DEF Resolutions
  <2> HIDE DEF i, cs, hits
  <2>5. CASE r = Result("needs_review", NoRow, cs[i])
    BY <2>3, <2>5 DEF Result, Results, Statuses
  <2>6. ASSUME NEW b \in Probe(cs[i], lost), r = Result("resolved", b, cs[i])
        PROVE  /\ r \in Results
               /\ <<r.board, r.slug>> \in Answers(r.slug, lost)
    BY <2>3, <2>6, AnswersTyped DEF Result, Results, Statuses
  <2> QED BY <2>4, <2>5, <2>6 DEF Result
<1>2. CASE hits = {}
  <2>1. r = Unresolved \/ \E p \in SearchHits(lost) : r = Result("resolved", p[1], p[2])
    BY <1>2 DEF Resolutions
  <2> HIDE DEF hits
  <2>2. CASE r = Unresolved
    BY <2>2 DEF Unresolved, Result, Results, Statuses, Slugs
  <2>3. ASSUME NEW p \in SearchHits(lost), r = Result("resolved", p[1], p[2])
        PROVE  r \in Results /\ <<r.board, r.slug>> \in Answers(r.slug, lost)
    BY <2>3 DEF SearchHits, Answers, Result, Results, Statuses
  <2> QED BY <2>1, <2>2, <2>3
<1> QED
  BY <1>1, <1>2

\* What a write makes of a row: it is typed, and confirmed if what it was made
\* from is.
LEMMA WriteAliasTyped ==
    ASSUME alias \in [Names -> AliasRows \cup {NoRow}], NEW n \in Names, NEW existing,
           NEW r \in Results, WriteAlias(n, existing, r)
    PROVE  /\ alias' \in [Names -> AliasRows \cup {NoRow}]
           /\ \A m \in Names \ {n} : alias'[m] = alias[m]
           /\ alias'[n] # NoRow /\ alias'[n].status = "resolved" =>
                r.status = "resolved" /\ alias'[n].board = r.board /\ alias'[n].slug = r.slug
           /\ alias[n] # NoRow /\ Collides(existing, r) => alias'[n].status # "resolved"
           /\ ~Collides(existing, r) => alias'[n].status = r.status /\ alias'[n].slug = r.slug
<1>1. CASE Collides(existing, r) /\ alias[n] = NoRow
  BY <1>1 DEF WriteAlias
<1>2. CASE Collides(existing, r) /\ alias[n] # NoRow
  <2> DEFINE row == [alias[n] EXCEPT !.status = "needs_review", !.old = FALSE]
  <2>1. row \in AliasRows /\ row.status = "needs_review"
    BY <1>2 DEF AliasRows, Statuses
  <2>2. alias' = [alias EXCEPT ![n] = row]
    BY <1>2 DEF WriteAlias
  <2> HIDE DEF row
  <2> QED BY <1>2, <2>1, <2>2
<1>3. CASE ~Collides(existing, r)
  <2> DEFINE row == [status |-> r.status, board |-> r.board, slug |-> r.slug, old |-> FALSE]
  <2>1. row \in AliasRows /\ row.status = r.status /\ row.board = r.board /\ row.slug = r.slug
    BY DEF AliasRows, Results
  <2>2. alias' = [alias EXCEPT ![n] = row]
    BY <1>3 DEF WriteAlias
  <2> HIDE DEF row
  <2> QED BY <1>3, <2>1, <2>2
<1> QED
  BY <1>1, <1>2, <1>3

-----------------------------------------------------------------------------
(* Type correctness.                                                       *)

LEMMA PcsAre ==
    Pcs = {"idle", "lookup", "select", "upsert", "board", "user", "policies", "profile", "enqueue"}
  BY DEF Pcs, Resolving, Delivering

LEMMA IdleTyped == Idle \in Processes /\ Idle.pc = "idle"
<1>1. Len(Users) \in Nat
  BY UsersTyped
<1> QED
  BY <1>1, PcsAre DEF Idle, Processes, Positions

LEMMA InitType == Init => TypeOK
<1> SUFFICES ASSUME Init PROVE TypeOK
  OBVIOUS
<1>1. live \subseteq Boards \X Slugs
  BY PlanningAssumption DEF Init, Slugs
<1>2. alias \in [Names -> AliasRows \cup {NoRow}]
  BY DEF Init
<1>3. search \in [UserSet -> Searches \cup {None}] /\ enabled \in [UserSet -> BOOLEAN]
  BY PlanningAssumption DEF Init
<1>4. planner \in [Planners -> Processes]
  BY IdleTyped DEF Init
<1>5. NoFiles \in Artifacts
  BY DEF NoFiles, Artifacts
<1>6. /\ files \in [Runs \X UserSet -> Artifacts]
      /\ rows \in [Runs \X UserSet \X Sources -> Payloads \cup {None}]
  BY <1>5 DEF Init
<1> QED
  BY <1>1, <1>2, <1>3, <1>4, <1>6 DEF Init, TypeOK

LEMMA PlannerMoves ==
    ASSUME TypeOK, NEW p \in Planners, NEW new \in Processes, planner' = [planner EXCEPT ![p] = new]
    PROVE  /\ planner' \in [Planners -> Processes] /\ planner'[p] = new
           /\ \A q \in Planners \ {p} : planner'[q] = planner[q]
  BY DEF TypeOK

LEMMA PlannerTyped ==
    ASSUME TypeOK, NEW p \in Planners
    PROVE  planner[p] \in Processes
  BY DEF TypeOK

LEMMA SettingsType ==
    ASSUME TypeOK, NEW u \in UserSet, PutProfile(u) \/ PutSearch(u) \/ PutPipelineEnabled(u)
    PROVE  /\ profile' \subseteq UserSet
           /\ search' \in [UserSet -> Searches \cup {None}] /\ enabled' \in [UserSet -> BOOLEAN]
  BY DEF TypeOK, PutProfile, PutSearch, PutPipelineEnabled

LEMMA StartType ==
    ASSUME TypeOK, NEW p \in Planners, StartPlan(p)
    PROVE  /\ planner' \in [Planners -> Processes]
           /\ snaps' \in [Runs -> SUBSET Snapshots]
<1> DEFINE snap == [profile |-> profile, search |-> search, enabled |-> enabled]
<1>1. snap \in Snapshots
  BY DEF TypeOK, Snapshots
<1>2. Gathered(snap) \subseteq Names
  BY <1>1, GatheredTyped
<1>3. PICK r \in Runs :
        /\ planner' = [planner EXCEPT ![p] =
             [Idle EXCEPT !.pc = "lookup", !.run = r, !.snap = snap, !.names = Gathered(snap)]]
        /\ snaps' = [snaps EXCEPT ![r] = @ \cup {snap}]
  BY DEF StartPlan
<1> HIDE DEF snap
<1>4. [Idle EXCEPT !.pc = "lookup", !.run = r, !.snap = snap, !.names = Gathered(snap)] \in Processes
  BY <1>1, <1>2, IdleTyped, PcsAre DEF Processes, Idle
<1> QED
  BY <1>1, <1>3, <1>4 DEF TypeOK

LEMMA AdvanceTyped ==
    ASSUME TypeOK, NEW p \in Planners, planner[p].at <= Len(Users), planner' = Advance(p)
    PROVE  /\ planner' \in [Planners -> Processes]
           /\ planner'[p] = [planner[p] EXCEPT !.pc = "user", !.at = @ + 1, !.file = None, !.todo = {}]
           /\ \A q \in Planners \ {p} : planner'[q] = planner[q]
<1> DEFINE new == [planner[p] EXCEPT !.pc = "user", !.at = @ + 1, !.file = None, !.todo = {}]
<1>1. planner[p].at \in Positions
  BY PlannerTyped DEF Processes
<1>2. planner[p].at + 1 \in Positions
  BY <1>1, UsersTyped DEF Positions
<1>3. new \in Processes
  BY <1>2, PcsAre, PlannerTyped DEF Processes
<1>4. planner' = [planner EXCEPT ![p] = new]
  BY DEF Advance
<1> HIDE DEF new
<1>5. /\ planner' \in [Planners -> Processes] /\ planner'[p] = new
      /\ \A q \in Planners \ {p} : planner'[q] = planner[q]
  BY <1>3, <1>4, PlannerMoves
<1> QED
  BY <1>5 DEF new

LEMMA LookupType ==
    ASSUME TypeOK, NEW p \in Planners, Lookup(p)
    PROVE  planner' \in [Planners -> Processes] /\ verified' \subseteq Boards \X Slugs
<1> DEFINE n == CHOOSE m \in planner[p].names : TRUE
<1>0. planner[p].names \subseteq Names
  BY PlannerTyped DEF Processes
<1>1. n \in Names
  BY <1>0 DEF Lookup
<1>2. CASE Cached(n)
  <2>1. planner' = [planner EXCEPT ![p].names = @ \ {n}] /\ UNCHANGED verified
    BY <1>2 DEF Lookup
  <2> HIDE DEF n
  <2> DEFINE new == [planner[p] EXCEPT !.names = @ \ {n}]
  <2>2. new \in Processes
    BY PlannerTyped DEF Processes
  <2>3. planner' = [planner EXCEPT ![p] = new]
    BY <2>1
  <2> HIDE DEF new
  <2>4. planner' \in [Planners -> Processes]
    BY <2>2, <2>3, PlannerMoves
  <2> QED BY <2>1, <2>4 DEF TypeOK
<1>3. CASE ~Cached(n)
  <2>0. PICK lost \in SUBSET live : \E result \in Resolutions(n, lost) :
          /\ planner' = [planner EXCEPT ![p].pc = "select", ![p].name = n,
                           ![p].names = @ \ {n}, ![p].result = result]
          /\ verified' = verified \cup Answers(result.slug, lost)
    BY <1>3 DEF Lookup
  <2>1. PICK r \in Resolutions(n, lost) :
          /\ planner' = [planner EXCEPT ![p].pc = "select", ![p].name = n,
                           ![p].names = @ \ {n}, ![p].result = r]
          /\ verified' = verified \cup Answers(r.slug, lost)
    BY <2>0
  <2> HIDE DEF n
  <2>2. r \in Results
    BY <1>1, ResolutionsTyped DEF TypeOK
  <2> DEFINE new == [planner[p] EXCEPT !.pc = "select", !.name = n, !.names = @ \ {n}, !.result = r]
  <2>3. new \in Processes
    BY <1>1, <2>2, PcsAre, PlannerTyped DEF Processes
  <2>4. planner' = [planner EXCEPT ![p] = new]
    BY <2>1
  <2> HIDE DEF new
  <2>5. planner' \in [Planners -> Processes]
    BY <2>3, <2>4, PlannerMoves
  <2> QED BY <2>1, <2>5, AnswersTyped DEF TypeOK
<1> QED
  BY <1>2, <1>3

LEMMA TablesType ==
    ASSUME TypeOK, Trusted, NEW p \in Planners,
           WriteSelect(p) \/ WriteUpsert(p) \/ WriteBoard(p)
    PROVE  /\ planner' \in [Planners -> Processes]
           /\ alias' \in [Names -> AliasRows \cup {NoRow}]
           /\ companyBoards' \subseteq (Boards \cup {NoRow}) \X Slugs
<1>1. planner[p].pc \in {"select", "upsert", "board"}
  BY DEF WriteSelect, WriteUpsert, WriteBoard
<1>2. planner[p].name \in Names /\ planner[p].result \in Results
  BY <1>1 DEF Trusted
<1>3. ASSUME NEW pc \in Pcs, planner' = [planner EXCEPT ![p].pc = pc]
      PROVE  planner' \in [Planners -> Processes]
  <2> DEFINE new == [planner[p] EXCEPT !.pc = pc]
  <2>1. new \in Processes
    BY PlannerTyped DEF Processes
  <2>2. planner' = [planner EXCEPT ![p] = new]
    BY <1>3
  <2> HIDE DEF new
  <2> QED BY <2>1, <2>2, PlannerMoves
<1>4. CASE WriteSelect(p)
  <2> DEFINE row == alias[planner[p].name]
             new == [planner[p] EXCEPT !.pc = "upsert", !.existing = row]
  <2>1. row \in AliasRows \cup {NoRow}
    BY <1>2 DEF TypeOK
  <2>2. planner' = [planner EXCEPT ![p] = new]
    BY <1>4 DEF WriteSelect
  <2> HIDE DEF row
  <2>3. new \in Processes
    BY <2>1, PcsAre, PlannerTyped DEF Processes
  <2> HIDE DEF new
  <2> QED BY <1>4, <2>2, <2>3, PlannerMoves DEF WriteSelect, TypeOK, aliasVars
<1>5. CASE WriteUpsert(p)
  <2>1. PICK pc \in {"board", "lookup"} : planner' = [planner EXCEPT ![p].pc = pc]
    BY <1>5 DEF WriteUpsert
  <2>2. alias' \in [Names -> AliasRows \cup {NoRow}]
    BY <1>2, <1>5, WriteAliasTyped DEF WriteUpsert, TypeOK
  <2> QED BY <1>3, <1>5, <2>1, <2>2, PcsAre DEF WriteUpsert, TypeOK
<1>6. CASE WriteBoard(p)
  <2>1. planner' \in [Planners -> Processes]
    BY <1>3, <1>6, PcsAre DEF WriteBoard
  <2>2. planner[p].result.board \in Boards \cup {NoRow} /\ planner[p].result.slug \in Slugs
    BY <1>2 DEF Results
  <2> QED BY <1>6, <2>1, <2>2 DEF WriteBoard, TypeOK
<1> QED
  BY <1>4, <1>5, <1>6

LEMMA PlacedTyped ==
    ASSUME TypeOK, Placed, NEW p \in Planners, planner[p].pc # "idle"
    PROVE  /\ planner[p].run \in Runs /\ planner[p].snap \in Snapshots
           /\ planner[p].pc \in Resolving \cup Delivering => planner[p].at <= Len(Users)
           /\ planner[p].pc \in Delivering =>
                /\ Users[planner[p].at] \in UserSet
                /\ planner[p].snap.search[Users[planner[p].at]] \in Searches
<1>1. Behind(planner[p]) /\ (planner[p].pc \in Delivering => Amid(planner[p]))
  BY DEF Placed, Held
<1>2. planner[p].run \in Runs /\ planner[p].snap \in Snapshots
  BY <1>1 DEF Behind, TypeOK
<1>3. planner[p].pc \in Resolving => planner[p].at = 0
  BY <1>1 DEF Behind
<1>4. ASSUME planner[p].pc \in Delivering
      PROVE  /\ Users[planner[p].at] \in UserSet /\ planner[p].at <= Len(Users)
             /\ planner[p].snap.search[Users[planner[p].at]] \in Searches
  <2>1. planner[p].at <= Len(Users) /\ Eligible(planner[p].snap, Users[planner[p].at])
    BY <1>1, <1>4 DEF Amid
  <2>2. planner[p].at \in Positions /\ planner[p].at >= 1
    BY <1>1, <1>4, PlannerTyped DEF Processes, Behind, Delivering, Resolving
  <2>3. Users[planner[p].at] \in UserSet
    BY <2>1, <2>2, UsersTyped DEF Positions
  <2> QED BY <1>2, <2>1, <2>3 DEF Eligible, Snapshots
<1> QED
  BY <1>2, <1>3, <1>4, UsersTyped

\* The text an artifact gets from a plan that does not skip the user.
Puts(run, v, snap, file, text) ==
  /\ run \in Runs /\ v \in UserSet /\ snap \in snaps[run] /\ Eligible(snap, v)
  /\ snap.search[v] \in Searches
  /\ \/ file = "search" /\ text \in {Torn, PipelineSearch(snap.search[v])}
     \/ file = "policies" /\ text \in {Torn, DerivePolicies(snap.search[v])}
     \/ file = "profile" /\ text \in {Torn, "whole"}
  /\ files' = [files EXCEPT ![<<run, v>>][file] = text]

LEMMA PutsTyped ==
    ASSUME TypeOK, NEW run, NEW v, NEW snap, NEW file, NEW text, Puts(run, v, snap, file, text)
    PROVE  /\ files' \in [Runs \X UserSet -> Artifacts]
           /\ files'[<<run, v>>][file] = text
           /\ \A q \in Runs, u \in UserSet, f \in Files :
                q # run \/ u # v \/ f # file => files'[<<q, u>>][f] = files[<<q, u>>][f]
<1> DEFINE old == files[<<run, v>>]
           new == [old EXCEPT ![file] = text]
           Put == new \in Artifacts /\ new[file] = text /\ \A f \in Files : f # file => new[f] = old[f]
<1>1. old \in Artifacts /\ run \in Runs /\ v \in UserSet
  BY DEF Puts, TypeOK
<1>2. ASSUME file = "search"
      PROVE  Put
  <2>1. new = [old EXCEPT !.search = text] /\ text \in {PipelineSearch(s) : s \in Searches} \cup {Torn}
    BY <1>2 DEF Puts
  <2>2. new \in Artifacts
    BY <1>1, <2>1 DEF Artifacts
  <2>3. new.search = text /\ new.policies = old.policies /\ new.profile = old.profile
    BY <1>1, <2>1 DEF Artifacts
  <2> HIDE DEF new, old
  <2> QED BY <1>2, <2>2, <2>3 DEF Files
<1>3. ASSUME file = "policies"
      PROVE  Put
  <2>1. new = [old EXCEPT !.policies = text] /\ text \in {DerivePolicies(s) : s \in Searches} \cup {Torn}
    BY <1>3 DEF Puts
  <2>2. new \in Artifacts
    BY <1>1, <2>1 DEF Artifacts
  <2>3. new.policies = text /\ new.search = old.search /\ new.profile = old.profile
    BY <1>1, <2>1 DEF Artifacts
  <2> HIDE DEF new, old
  <2> QED BY <1>3, <2>2, <2>3 DEF Files
<1>4. ASSUME file = "profile"
      PROVE  Put
  <2>1. new = [old EXCEPT !.profile = text] /\ text \in {"whole", Torn}
    BY <1>4 DEF Puts
  <2>2. new \in Artifacts
    BY <1>1, <2>1 DEF Artifacts
  <2>3. new.profile = text /\ new.search = old.search /\ new.policies = old.policies
    BY <1>1, <2>1 DEF Artifacts
  <2> HIDE DEF new, old
  <2> QED BY <1>4, <2>2, <2>3 DEF Files
<1>5. Put
  <2> HIDE DEF Put
  <2> QED BY <1>2, <1>3, <1>4 DEF Puts
<1>6. files' = [files EXCEPT ![<<run, v>>] = new]
  BY DEF Puts
<1> HIDE DEF new, old
<1> QED
  BY <1>1, <1>5, <1>6 DEF old, TypeOK

LEMMA MaterializePuts ==
    ASSUME TypeOK, Placed, NEW p \in Planners,
           Truncate(p) \/ Materialize(p) \/ MaterializePolicies(p) \/ MaterializeProfile(p),
           NEW run, NEW v, NEW snap,
           run = planner[p].run, v = Users[planner[p].at], snap = planner[p].snap
    PROVE  /\ Truncate(p) => Puts(run, v, snap, Due(planner[p]), Torn)
           /\ Materialize(p) => Puts(run, v, snap, "search", PipelineSearch(snap.search[v]))
           /\ MaterializePolicies(p) => Puts(run, v, snap, "policies", DerivePolicies(snap.search[v]))
           /\ MaterializeProfile(p) => Puts(run, v, snap, "profile", "whole")
<1> DEFINE me == planner[p]
<1>1. /\ me.pc \in {"user", "policies", "profile"} /\ Behind(me)
      /\ me.pc # "user" => Amid(me)
  BY DEF Truncate, Materialize, MaterializePolicies, MaterializeProfile, Placed, Held, Delivering
<1>2. me.pc = "user" => me.at <= Len(Users) /\ Eligible(snap, v)
  <2>1. CASE Truncate(p)
    BY <2>1 DEF Truncate
  <2>2. CASE Materialize(p)
    BY <2>2, PlanningAssumption DEF Materialize, WriteText, Placed, Held, Opened, Files
  <2>3. CASE MaterializePolicies(p) \/ MaterializeProfile(p)
    BY <2>3 DEF MaterializePolicies, MaterializeProfile
  <2> QED BY <2>1, <2>2, <2>3
<1>3. me.at \in Positions /\ me.at >= 1 /\ me.at <= Len(Users) /\ Eligible(snap, v)
  BY <1>1, <1>2, PlannerTyped DEF Processes, Behind, Resolving, Amid
<1>4. run \in Runs /\ v \in UserSet /\ snap \in snaps[run] /\ snap \in Snapshots
  BY <1>1, <1>3, UsersTyped, PlacedTyped DEF Positions, Behind
<1>5. snap.search[v] \in Searches
  BY <1>3, <1>4 DEF Eligible, Snapshots
<1>6. ASSUME Truncate(p)
      PROVE  Puts(run, v, snap, Due(me), Torn)
  <2>1. Due(me) \in Files
    BY <1>1 DEF Due, Files
  <2>2. files' = [files EXCEPT ![<<run, v>>][Due(me)] = Torn]
    BY <1>6 DEF Truncate
  <2> QED BY <1>3, <1>4, <1>5, <2>1, <2>2 DEF Puts, Files
<1>7. ASSUME Materialize(p)
      PROVE  Puts(run, v, snap, "search", PipelineSearch(snap.search[v]))
  <2>1. files' = [files EXCEPT ![<<run, v>>]["search"] = PipelineSearch(snap.search[v])]
    BY <1>7 DEF Materialize, WriteText
  <2> QED BY <1>3, <1>4, <1>5, <2>1 DEF Puts
<1>8. ASSUME MaterializePolicies(p)
      PROVE  Puts(run, v, snap, "policies", DerivePolicies(snap.search[v]))
  <2>1. files' = [files EXCEPT ![<<run, v>>]["policies"] = DerivePolicies(snap.search[v])]
    BY <1>8 DEF MaterializePolicies, WriteText
  <2> QED BY <1>3, <1>4, <1>5, <2>1 DEF Puts
<1>9. ASSUME MaterializeProfile(p)
      PROVE  Puts(run, v, snap, "profile", "whole")
  <2>1. files' = [files EXCEPT ![<<run, v>>]["profile"] = "whole"]
    BY <1>9 DEF MaterializeProfile, WriteText
  <2> QED BY <1>3, <1>4, <1>5, <2>1 DEF Puts
<1> QED
  BY <1>6, <1>7, <1>8, <1>9

LEMMA DeliverType ==
    ASSUME TypeOK, Placed, NEW p \in Planners,
           \/ EndResolve(p) \/ SkipUser(p) \/ Truncate(p) \/ Materialize(p)
           \/ MaterializePolicies(p) \/ MaterializeProfile(p)
           \/ EnqueueSource(p) \/ EndPlan(p) \/ Die(p)
    PROVE  /\ planner' \in [Planners -> Processes]
           /\ files' \in [Runs \X UserSet -> Artifacts]
           /\ rows' \in [Runs \X UserSet \X Sources -> Payloads \cup {None}]
           /\ finished' \in [Runs -> SUBSET Snapshots]
<1> DEFINE me == planner[p]
           u == Users[me.at]
<1>1. me.pc # "idle"
  BY DEF EndResolve, SkipUser, Truncate, Materialize, MaterializePolicies, MaterializeProfile,
     EnqueueSource, EndPlan, Die
<1>2. ASSUME planner' = Advance(p), me.pc = "lookup" \/ me.pc \in Delivering \/ me.at <= Len(Users)
      PROVE  planner' \in [Planners -> Processes]
  BY <1>1, <1>2, PlacedTyped, AdvanceTyped DEF Resolving
<1>3. CASE EndResolve(p) \/ SkipUser(p)
  BY <1>2, <1>3 DEF EndResolve, SkipUser, TypeOK
<1>4. CASE Truncate(p) \/ Materialize(p) \/ MaterializePolicies(p) \/ MaterializeProfile(p)
  <2>1. files' \in [Runs \X UserSet -> Artifacts]
    <3>1. PICK run, v, snap : run = me.run /\ v = u /\ snap = me.snap
      OBVIOUS
    <3>2. \E file, text : Puts(run, v, snap, file, text)
      BY <1>4, <3>1, MaterializePuts
    <3> QED BY <3>2, PutsTyped
  <2>6. UNCHANGED <<rows, finished>>
    BY <1>4 DEF Truncate, Materialize, MaterializePolicies, MaterializeProfile, WriteText
  <2>2. PICK todo \in SUBSET Sources : todo = SourcesFor(PipelineSearch(me.snap.search[u]))
    BY DEF SourcesFor
  <2> DEFINE open == [me EXCEPT !.file = Due(me)]
             next(pc) == [me EXCEPT !.pc = pc, !.file = None]
             last == [me EXCEPT !.pc = "enqueue", !.file = None, !.todo = todo]
  <2>3. \/ Truncate(p) /\ planner' = [planner EXCEPT ![p] = open]
        \/ planner' = [planner EXCEPT ![p] = next("policies")]
        \/ planner' = [planner EXCEPT ![p] = next("profile")]
        \/ planner' = [planner EXCEPT ![p] = last]
        \/ planner' = Advance(p) /\ me.pc \in Delivering
    BY <1>4, <2>2 DEF Truncate, Materialize, MaterializePolicies, MaterializeProfile, Delivering
  <2>4. next("policies") \in Processes /\ next("profile") \in Processes /\ last \in Processes
    BY PlannerTyped, PcsAre DEF Processes
  <2>5. Truncate(p) => open \in Processes
    BY PlannerTyped DEF Processes, Truncate, Due, Files
  <2> HIDE DEF open, next, last
  <2> QED BY <1>2, <2>1, <2>3, <2>4, <2>5, <2>6, PlannerMoves DEF TypeOK
<1>6. CASE EnqueueSource(p)
  <2>1. u \in UserSet /\ me.run \in Runs /\ me.snap.search[u] \in Searches /\ Amid(me) /\ me.pc = "enqueue"
    BY <1>1, <1>6, PlacedTyped DEF EnqueueSource, Delivering, Placed, Held
  <2> DEFINE k == CHOOSE s \in me.todo : TRUE
             new == [me EXCEPT !.todo = @ \ {k}]
             row == IF rows[<<me.run, u, k>>] = None THEN PipelineSearch(me.snap.search[u])[k]
                    ELSE rows[<<me.run, u, k>>]
  <2>2. k \in Sources /\ new \in Processes
    <3>1. me.todo # {}
      BY <2>1 DEF Amid
    <3>2. k \in me.todo
      BY <3>1
    <3> HIDE DEF k
    <3> QED BY <3>2, PlannerTyped DEF Processes
  <2>3. rows' = [rows EXCEPT ![<<me.run, u, k>>] = row]
    BY <1>6 DEF EnqueueSource
  <2>4. row \in Payloads \cup {None}
    BY <2>1, <2>2, SectionsTyped DEF TypeOK
  <2>5. planner' = Advance(p) \/ planner' = [planner EXCEPT ![p] = new]
    BY <1>6 DEF EnqueueSource
  <2>6. UNCHANGED <<files, finished>>
    BY <1>6 DEF EnqueueSource
  <2> HIDE DEF k, new, row
  <2> QED BY <1>2, <2>1, <2>2, <2>3, <2>4, <2>5, <2>6, PlannerMoves DEF TypeOK, Delivering
<1>7. CASE EndPlan(p)
  BY <1>1, <1>7, IdleTyped, PlannerMoves, PlacedTyped DEF EndPlan, TypeOK
<1>8. CASE Die(p)
  BY <1>8, IdleTyped, PlannerMoves DEF Die, TypeOK
<1> QED
  BY <1>3, <1>4, <1>6, <1>7, <1>8

LEMMA DiscoverWrites ==
    ASSUME TypeOK, NEW n \in Names, Discover(n)
    PROVE  \E lost \in SUBSET live : \E r \in Results :
             /\ WriteAlias(n, alias[n], r)
             /\ verified' = verified \cup Answers(n, lost)
             /\ r.status = "resolved" => <<r.board, r.slug>> \in Answers(n, lost)
             /\ companyBoards' \subseteq companyBoards \cup {<<r.board, n>>}
<1>1. PICK lost \in SUBSET live :
       LET found == Probe(n, lost)
           result == IF Cardinality(found) = 1
                     THEN Result("resolved", CHOOSE b \in found : TRUE, n)
                     ELSE Result("needs_review", NoRow, n) IN
       /\ found # {}
       /\ WriteAlias(n, alias[n], result)
       /\ companyBoards' = IF result.status = "resolved" /\ ~Collides(alias[n], result)
                           THEN companyBoards \cup {<<result.board, n>>} ELSE companyBoards
       /\ verified' = verified \cup Answers(n, lost)
  BY DEF Discover
<1> DEFINE found == Probe(n, lost)
           b == CHOOSE x \in found : TRUE
           r == IF Cardinality(found) = 1 THEN Result("resolved", b, n)
                ELSE Result("needs_review", NoRow, n)
<1>2. b \in found
  BY <1>1
<1>3. b \in Boards /\ <<b, n>> \in Answers(n, lost) /\ n \in Slugs
  BY <1>2, AnswersTyped DEF TypeOK, Slugs
<1> HIDE DEF b
<1>4. r \in Results /\ (r.status = "resolved" => <<r.board, r.slug>> \in Answers(n, lost))
  BY <1>3 DEF Result, Results, Statuses
<1>5. /\ WriteAlias(n, alias[n], r) /\ verified' = verified \cup Answers(n, lost)
      /\ companyBoards' \subseteq companyBoards \cup {<<r.board, n>>}
  BY <1>1 DEF b
<1> QED
  BY <1>4, <1>5

LEMMA WorldType ==
    ASSUME TypeOK, NEW n \in Names, Discover(n) \/ Move \/ Age(n)
    PROVE  /\ live' \subseteq Boards \X Slugs /\ verified' \subseteq Boards \X Slugs
           /\ alias' \in [Names -> AliasRows \cup {NoRow}]
           /\ companyBoards' \subseteq (Boards \cup {NoRow}) \X Slugs
<1>1. CASE Discover(n)
  <2>1. PICK lost \in SUBSET live : \E x \in Results :
             /\ WriteAlias(n, alias[n], x)
             /\ verified' = verified \cup Answers(n, lost)
             /\ companyBoards' \subseteq companyBoards \cup {<<x.board, n>>}
    BY <1>1, DiscoverWrites
  <2>2. PICK r \in Results :
             /\ WriteAlias(n, alias[n], r)
             /\ verified' = verified \cup Answers(n, lost)
             /\ companyBoards' \subseteq companyBoards \cup {<<r.board, n>>}
    BY <2>1
  <2>3. alias' \in [Names -> AliasRows \cup {NoRow}]
    BY <2>2, WriteAliasTyped DEF TypeOK
  <2>4. verified' \subseteq Boards \X Slugs
    BY <2>2, AnswersTyped DEF TypeOK
  <2>5. r.board \in Boards \cup {NoRow} /\ n \in Slugs
    BY DEF Results, Slugs
  <2>6. UNCHANGED live
    BY <1>1 DEF Discover
  <2> QED BY <2>2, <2>3, <2>4, <2>5, <2>6 DEF TypeOK
<1>2. CASE Move
  <2>1. PICK m \in Names : \E i \in DOMAIN Candidates(m) : \E b \in Boards :
          live' \subseteq live \cup {<<b, Candidates(m)[i]>>}
    BY <1>2 DEF Move
  <2>2. PICK i \in DOMAIN Candidates(m) : \E b \in Boards :
          live' \subseteq live \cup {<<b, Candidates(m)[i]>>}
    BY <2>1
  <2>3. Candidates(m)[i] \in {Candidates(m)[j] : j \in DOMAIN Candidates(m)}
    OBVIOUS
  <2>4. Candidates(m)[i] \in Slugs
    BY <2>3 DEF Slugs
  <2> QED BY <1>2, <2>2, <2>4 DEF Move, TypeOK
<1>3. CASE Age(n)
  <2>1. alias[n] \in AliasRows
    BY <1>3 DEF Age, TypeOK
  <2> DEFINE row == [alias[n] EXCEPT !.old = TRUE]
  <2>2. row \in AliasRows /\ alias' = [alias EXCEPT ![n] = row]
    BY <1>3, <2>1 DEF Age, AliasRows
  <2> HIDE DEF row
  <2> QED BY <1>3, <2>2 DEF Age, TypeOK
<1> QED
  BY <1>1, <1>2, <1>3

LEMMA TypeStep ==
    ASSUME TypeOK, Trusted, Placed, [Next]_vars
    PROVE  TypeOK'
<1>1. ASSUME NEW u \in UserSet, PutProfile(u) \/ PutSearch(u) \/ PutPipelineEnabled(u)
      PROVE  TypeOK'
  BY <1>1, SettingsType
     DEF PutProfile, PutSearch, PutPipelineEnabled, Save, TypeOK, aliasVars
<1>2. ASSUME NEW p \in Planners, StartPlan(p)
      PROVE  TypeOK'
  BY <1>2, StartType DEF StartPlan, TypeOK, aliasVars, settings
<1>3. ASSUME NEW p \in Planners, Lookup(p)
      PROVE  TypeOK'
  BY <1>3, LookupType DEF Lookup, TypeOK, settings
<1>4. ASSUME NEW p \in Planners, WriteSelect(p) \/ WriteUpsert(p) \/ WriteBoard(p)
      PROVE  TypeOK'
  BY <1>4, TablesType DEF WriteSelect, WriteUpsert, WriteBoard, TypeOK, settings, aliasVars
<1>5. ASSUME NEW p \in Planners,
             \/ EndResolve(p) \/ SkipUser(p) \/ Truncate(p) \/ Materialize(p)
             \/ MaterializePolicies(p) \/ MaterializeProfile(p)
             \/ EnqueueSource(p) \/ EndPlan(p) \/ Die(p)
      PROVE  TypeOK'
  <2>1. UNCHANGED <<aliasVars, settings, snaps>>
    BY <1>5 DEF EndResolve, SkipUser, Truncate, Materialize, MaterializePolicies, MaterializeProfile,
       WriteText, EnqueueSource, EndPlan, Die
  <2> QED BY <1>5, <2>1, DeliverType DEF TypeOK, settings, aliasVars
<1>6. ASSUME NEW n \in Names, Discover(n) \/ Age(n) \/ Move
      PROVE  TypeOK'
  BY <1>6, WorldType DEF Discover, Age, Move, TypeOK, settings
<1>7. CASE Move
  <2>1. PICK n \in Names : TRUE
    BY <1>7 DEF Move
  <2> QED BY <1>6, <1>7, <2>1
<1>8. ASSUME NEW job \in DOMAIN rows, Scrape(job)
      PROVE  TypeOK'
  BY <1>8 DEF Scrape, TypeOK, settings, aliasVars
<1>9. CASE UNCHANGED vars
  BY <1>9 DEF vars, TypeOK, settings, aliasVars
<1> QED
  BY <1>1, <1>2, <1>3, <1>4, <1>5, <1>6, <1>7, <1>8, <1>9 DEF Next, Plan

-----------------------------------------------------------------------------
(* What only grows.                                                        *)

\* Probes, snapshots, artifacts and rows: a later step takes none of them back.
Grows ==
  /\ verified \subseteq verified' /\ \A r \in Runs : snaps[r] \subseteq snaps'[r]
  /\ \A r \in Runs, u \in UserSet, k \in Sources :
       rows[<<r, u, k>>] # None => rows'[<<r, u, k>>] = rows[<<r, u, k>>]
  /\ \A r \in Runs, u \in UserSet :
       /\ (Written(r, u) => Written(r, u)') /\ (Policied(r, u) => Policied(r, u)')
       /\ (Profiled(r, u) => Profiled(r, u)')

LEMMA GrowsQuiet ==
    ASSUME verified \subseteq verified', \A r \in Runs : snaps[r] \subseteq snaps'[r],
           UNCHANGED <<rows, files>>
    PROVE  Grows
  BY DEF Grows, Written, Policied, Profiled, Eligible

\* A put leaves the artifacts of a user the plan's, or torn.
LEMMA PutsGrows ==
    ASSUME TypeOK, NEW run, NEW v, NEW snap, NEW file, NEW text, Puts(run, v, snap, file, text),
           UNCHANGED <<verified, snaps, rows>>
    PROVE  /\ Grows
           /\ file = "search" => Written(run, v)'
           /\ file = "policies" => Policied(run, v)'
           /\ file = "profile" => Profiled(run, v)'
<1>1. /\ files'[<<run, v>>][file] = text
      /\ \A q \in Runs, u \in UserSet, f \in Files :
           q # run \/ u # v \/ f # file => files'[<<q, u>>][f] = files[<<q, u>>][f]
  BY PutsTyped
<1>2. run \in Runs /\ v \in UserSet /\ snap \in snaps'[run] /\ Eligible(snap, v)
  BY DEF Puts
<1>3. file = "search" => Written(run, v)'
  BY <1>1, <1>2 DEF Puts, Written, Eligible
<1>4. file = "policies" => Policied(run, v)'
  BY <1>1, <1>2 DEF Puts, Policied, Eligible
<1>5. file = "profile" => Profiled(run, v)'
  BY <1>1, <1>2 DEF Puts, Profiled
<1>6. ASSUME NEW r \in Runs, NEW u \in UserSet
      PROVE  /\ (Written(r, u) => Written(r, u)') /\ (Policied(r, u) => Policied(r, u)')
             /\ (Profiled(r, u) => Profiled(r, u)')
  <2>1. Written(r, u) => Written(r, u)'
    <3>1. CASE r = run /\ u = v /\ file = "search"
      BY <1>3, <3>1
    <3>2. CASE ~(r = run /\ u = v /\ file = "search")
      <4>1. files'[<<r, u>>].search = files[<<r, u>>].search
        BY <1>1, <3>2 DEF Files
      <4> QED BY <4>1 DEF Written, Eligible
    <3> QED BY <3>1, <3>2
  <2>2. Policied(r, u) => Policied(r, u)'
    <3>1. CASE r = run /\ u = v /\ file = "policies"
      BY <1>4, <3>1
    <3>2. CASE ~(r = run /\ u = v /\ file = "policies")
      <4>1. files'[<<r, u>>].policies = files[<<r, u>>].policies
        BY <1>1, <3>2 DEF Files
      <4> QED BY <4>1 DEF Policied, Eligible
    <3> QED BY <3>1, <3>2
  <2>3. Profiled(r, u) => Profiled(r, u)'
    <3>1. CASE r = run /\ u = v /\ file = "profile"
      BY <1>5, <3>1
    <3>2. CASE ~(r = run /\ u = v /\ file = "profile")
      <4>1. files'[<<r, u>>].profile = files[<<r, u>>].profile
        BY <1>1, <3>2 DEF Files
      <4> QED BY <4>1 DEF Profiled
    <3> QED BY <3>1, <3>2
  <2> QED BY <2>1, <2>2, <2>3
<1> QED
  BY <1>2, <1>3, <1>4, <1>5, <1>6 DEF Grows

LEMMA MaterializeGrows ==
    ASSUME TypeOK, Placed, NEW p \in Planners,
           Truncate(p) \/ Materialize(p) \/ MaterializePolicies(p) \/ MaterializeProfile(p),
           NEW run, NEW v, run = planner[p].run, v = Users[planner[p].at]
    PROVE  /\ Grows
           /\ Materialize(p) => Written(run, v)'
           /\ MaterializePolicies(p) => Policied(run, v)'
           /\ MaterializeProfile(p) => Profiled(run, v)'
<1>1. PICK snap : snap = planner[p].snap
  OBVIOUS
<1>2. UNCHANGED <<verified, snaps, rows>>
  BY DEF Truncate, Materialize, MaterializePolicies, MaterializeProfile, WriteText, aliasVars
<1>3. Truncate(p) => Grows
  BY <1>1, <1>2, MaterializePuts, PutsGrows
<1>4. Materialize(p) => Grows /\ Written(run, v)'
  BY <1>1, <1>2, MaterializePuts, PutsGrows
<1>5. MaterializePolicies(p) => Grows /\ Policied(run, v)'
  BY <1>1, <1>2, MaterializePuts, PutsGrows
<1>6. MaterializeProfile(p) => Grows /\ Profiled(run, v)'
  BY <1>1, <1>2, MaterializePuts, PutsGrows
<1> QED
  BY <1>3, <1>4, <1>5, <1>6

\* The row a step of the enqueueing writes.
Delivers(run, v, snap, k) ==
  /\ run \in Runs /\ v \in UserSet /\ k \in Sources
  /\ snap \in snaps[run] /\ Eligible(snap, v)
  /\ Written(run, v) /\ Policied(run, v) /\ Profiled(run, v)
  /\ \A r \in Runs, u \in UserSet, l \in Sources :
       r # run \/ u # v \/ l # k => rows'[<<r, u, l>>] = rows[<<r, u, l>>]
  /\ rows'[<<run, v, k>>] # None
  /\ rows[<<run, v, k>>] = None => rows'[<<run, v, k>>] = PipelineSearch(snap.search[v])[k]

LEMMA EnqueueWrites ==
    ASSUME TypeOK, Placed, NEW p \in Planners, EnqueueSource(p),
           NEW run, NEW v, NEW snap, NEW k,
           run = planner[p].run, v = Users[planner[p].at], snap = planner[p].snap,
           k = CHOOSE s \in planner[p].todo : TRUE
    PROVE  Grows /\ k \in planner[p].todo /\ Delivers(run, v, snap, k)
<1>1. planner[p].pc = "enqueue" /\ Behind(planner[p]) /\ Amid(planner[p])
  BY DEF EnqueueSource, Placed, Held, Delivering
<1>2. run \in Runs /\ v \in UserSet /\ snap.search[v] \in Searches /\ snap \in snaps[run]
  BY <1>1, PlacedTyped DEF Delivering, Behind
<1>3. /\ Eligible(snap, v) /\ Written(run, v) /\ Policied(run, v) /\ Profiled(run, v)
      /\ k \in planner[p].todo
  BY <1>1 DEF Amid
<1>4. k \in Sources
  BY <1>3, PlannerTyped DEF Processes
<1>5. rows' = [rows EXCEPT ![<<run, v, k>>] =
                 IF rows[<<run, v, k>>] = None THEN PipelineSearch(snap.search[v])[k]
                 ELSE rows[<<run, v, k>>]]
  BY DEF EnqueueSource
<1>6. PipelineSearch(snap.search[v])[k] # None
  BY <1>2, <1>4, SectionsTyped
<1>7. /\ \A r \in Runs, u \in UserSet, l \in Sources :
           r # run \/ u # v \/ l # k => rows'[<<r, u, l>>] = rows[<<r, u, l>>]
      /\ rows'[<<run, v, k>>] # None
      /\ rows[<<run, v, k>>] # None => rows'[<<run, v, k>>] = rows[<<run, v, k>>]
      /\ rows[<<run, v, k>>] = None => rows'[<<run, v, k>>] = PipelineSearch(snap.search[v])[k]
  BY <1>2, <1>4, <1>5, <1>6 DEF TypeOK
<1>8. UNCHANGED <<verified, snaps, files>>
  BY DEF EnqueueSource, aliasVars
<1>9. \A r \in Runs, u \in UserSet :
        /\ (Written(r, u) => Written(r, u)') /\ (Policied(r, u) => Policied(r, u)')
        /\ (Profiled(r, u) => Profiled(r, u)')
  BY <1>8 DEF Written, Policied, Profiled, Eligible
<1> QED
  BY <1>2, <1>3, <1>4, <1>7, <1>8, <1>9 DEF Grows, Delivers

LEMMA GrowsStep ==
    ASSUME TypeOK, Placed, [Next]_vars
    PROVE  Grows
<1>1. ASSUME NEW p \in Planners,
             \/ Truncate(p) \/ Materialize(p) \/ MaterializePolicies(p) \/ MaterializeProfile(p)
             \/ EnqueueSource(p)
      PROVE  Grows
  <2>1. CASE EnqueueSource(p)
    BY <2>1, EnqueueWrites
  <2>2. CASE Truncate(p) \/ Materialize(p) \/ MaterializePolicies(p) \/ MaterializeProfile(p)
    BY <2>2, MaterializeGrows
  <2> QED BY <1>1, <2>1, <2>2
<1>2. ASSUME NEW p \in Planners,
             \/ Lookup(p) \/ WriteSelect(p) \/ WriteUpsert(p) \/ WriteBoard(p) \/ EndResolve(p)
             \/ SkipUser(p) \/ EndPlan(p) \/ StartPlan(p) \/ Die(p)
      PROVE  Grows
  <2>1. UNCHANGED <<rows, files>> /\ verified \subseteq verified'
    BY <1>2 DEF Lookup, WriteSelect, WriteUpsert, WriteBoard, EndResolve, SkipUser, EndPlan,
       StartPlan, Die, aliasVars
  <2>2. \A r \in Runs : snaps[r] \subseteq snaps'[r]
    BY <1>2 DEF Lookup, WriteSelect, WriteUpsert, WriteBoard, EndResolve, SkipUser, EndPlan,
       StartPlan, Die, TypeOK
  <2> QED BY <2>1, <2>2, GrowsQuiet
<1>3. ASSUME NEW u \in UserSet, PutProfile(u) \/ PutSearch(u) \/ PutPipelineEnabled(u)
      PROVE  Grows
  BY <1>3, GrowsQuiet DEF PutProfile, PutSearch, PutPipelineEnabled, Save, aliasVars
<1>4. ASSUME NEW n \in Names, Discover(n) \/ Age(n)
      PROVE  Grows
  BY <1>4, GrowsQuiet DEF Discover, Age
<1>5. ASSUME Move \/ (\E job \in DOMAIN rows : Scrape(job)) \/ UNCHANGED vars
      PROVE  Grows
  BY <1>5, GrowsQuiet DEF Move, Scrape, vars, aliasVars
<1> QED
  BY <1>1, <1>2, <1>3, <1>4, <1>5 DEF Next, Plan

-----------------------------------------------------------------------------
(* Where the planners are.                                                 *)

LEMMA OthersStay ==
    ASSUME TypeOK, NEW p \in Planners, StartPlan(p) \/ Plan(p) \/ Die(p)
    PROVE  \A q \in Planners \ {p} : planner'[q] = planner[q]
  BY DEF TypeOK, StartPlan, Plan, Die, Lookup, WriteSelect, WriteUpsert, WriteBoard, EndResolve,
     SkipUser, Truncate, Materialize, MaterializePolicies, MaterializeProfile, EnqueueSource, EndPlan,
     Advance

LEMMA EnqueuedStays ==
    ASSUME Grows, NEW r \in Runs, NEW u \in UserSet, NEW ks \in SUBSET Sources,
           Enqueued(r, u, ks)
    PROVE  Enqueued(r, u, ks)'
  BY DEF Grows, Enqueued

LEMMA WantsTyped ==
    ASSUME NEW snap, NEW u
    PROVE  Wants(snap, u) \subseteq Sources
  BY DEF Wants, SourcesFor

\* What planner p has seen to is seen to for good.
LEMMA ServedStays ==
    ASSUME Grows, NEW r \in Runs, NEW snap, NEW n \in 0..Len(Users),
           \A i \in 1..n : Served(r, snap, Users[i])
    PROVE  \A i \in 1..n : Served(r, snap, Users[i])'
<1> SUFFICES ASSUME NEW i \in 1..n PROVE Served(r, snap, Users[i])'
  OBVIOUS
<1>1. i \in 1..Len(Users) /\ Served(r, snap, Users[i])
  BY UsersTyped
<1>2. PICK u \in UserSet : u = Users[i]
  BY <1>1, UsersTyped
<1>3. PICK ks \in SUBSET Sources : ks = Wants(snap, u)
  BY WantsTyped
<1>4. Eligible(snap, u) => Enqueued(r, u, ks)
  BY <1>1, <1>2, <1>3 DEF Served
<1>5. Eligible(snap, u) => Enqueued(r, u, ks)'
  BY <1>4, EnqueuedStays
<1> QED
  BY <1>2, <1>3, <1>5 DEF Served, Enqueued, Eligible, Wants, SourcesFor

LEMMA HeldStays ==
    ASSUME TypeOK, Placed, Grows, NEW q \in Planners, planner'[q] = planner[q]
    PROVE  Held(q)'
<1> DEFINE me == planner[q]
<1>1. Held(q)
  BY DEF Placed
<1>2. ASSUME me.pc # "idle"
      PROVE  Behind(me)'
  <2>1. PICK r \in Runs, snap \in Snapshots, at \in Positions :
          r = me.run /\ snap = me.snap /\ at = me.at
    BY <1>2, PlacedTyped, PlannerTyped DEF Processes
  <2>2. /\ snap \in snaps[r] /\ (me.pc \in Resolving => at = 0)
        /\ me.pc \notin Resolving => at >= 1 /\ \A i \in 1..(at - 1) : Served(r, snap, Users[i])
    BY <1>1, <1>2, <2>1 DEF Held, Behind
  <2>3. ASSUME me.pc \notin Resolving
        PROVE  \A i \in 1..(at - 1) : Served(r, snap, Users[i])'
    <3>1. at - 1 \in 0..Len(Users)
      BY <2>2, <2>3, UsersTyped DEF Positions
    <3> QED BY <2>2, <2>3, <3>1, ServedStays
  <2>4. snap \in snaps'[r]
    BY <2>2 DEF Grows
  <2> QED BY <2>1, <2>2, <2>3, <2>4 DEF Behind
<1>3. ASSUME me.pc \in Delivering
      PROVE  Amid(me)'
  <2>1. PICK r \in Runs, u \in UserSet, snap \in Snapshots, todo \in SUBSET Sources, at \in Positions :
          r = me.run /\ u = Users[at] /\ snap = me.snap /\ todo = me.todo /\ at = me.at
    BY <1>3, PlacedTyped, PlannerTyped DEF Processes, Delivering
  <2>2. /\ at <= Len(Users) /\ Eligible(snap, u) /\ Written(r, u)
        /\ me.pc \in {"profile", "enqueue"} => Policied(r, u)
        /\ me.pc = "enqueue" => /\ Profiled(r, u) /\ todo # {} /\ todo \subseteq Wants(snap, u)
                               /\ Enqueued(r, u, Wants(snap, u) \ todo)
    BY <1>1, <1>3, <2>1 DEF Held, Amid
  <2>3. Written(r, u)' /\ (Policied(r, u) => Policied(r, u)') /\ (Profiled(r, u) => Profiled(r, u)')
    BY <2>2 DEF Grows
  <2>4. PICK ks \in SUBSET Sources : ks = Wants(snap, u)
    BY WantsTyped
  <2>5. Enqueued(r, u, ks \ todo) => Enqueued(r, u, ks \ todo)'
    BY EnqueuedStays
  <2>6. /\ planner'[q].run = r /\ planner'[q].snap = snap /\ planner'[q].todo = todo
        /\ planner'[q].at = at /\ Users[at] = u /\ planner'[q].pc = me.pc
    BY <2>1
  <2>7. Written(r, u)' /\ at <= Len(Users) /\ Eligible(snap, u)
    BY <2>2, <2>3
  <2>8. /\ me.pc \in {"profile", "enqueue"} => Policied(r, u)'
        /\ me.pc = "enqueue" => /\ Profiled(r, u)' /\ todo # {} /\ todo \subseteq ks
                             /\ Enqueued(r, u, ks \ todo)'
    BY <2>2, <2>3, <2>4, <2>5
  <2>9. Wants(snap, u)' = ks
    BY <2>4 DEF Wants, SourcesFor
  <2> QED BY <2>6, <2>7, <2>8, <2>9
          DEF Amid, Written, Policied, Profiled, Enqueued, Eligible, Wants, SourcesFor
<1>4. Opened(me)'
  BY <1>1 DEF Held, Opened, Due, Eligible
<1> QED
  BY <1>1, <1>2, <1>3, <1>4 DEF Held

LEMMA ResolvingHeld ==
    ASSUME Placed, Grows, NEW p \in Planners, planner[p].pc \in Resolving,
           planner'[p].pc \in Resolving, planner'[p].run = planner[p].run,
           planner'[p].snap = planner[p].snap, planner'[p].at = planner[p].at,
           planner'[p].file = planner[p].file
    PROVE  Held(p)'
<1>1. Behind(planner[p])
  BY DEF Placed, Held, Resolving
<1>2. planner'[p].run \in Runs /\ planner'[p].snap \in snaps'[planner'[p].run] /\ planner'[p].at = 0
  BY <1>1 DEF Behind, Grows
<1>3. planner'[p].file = None
  BY DEF Placed, Held, Opened, Resolving
<1> QED
  BY <1>2, <1>3 DEF Held, Behind, Opened, Resolving, Delivering

LEMMA DeliveringHeld ==
    ASSUME TypeOK, Placed, Grows, NEW p \in Planners, planner[p].pc # "idle",
           NEW run, NEW snap, NEW at, NEW new, new = planner'[p],
           run = planner[p].run, snap = planner[p].snap, at = new.at,
           new.run = run, new.snap = snap, new.pc \in {"user"} \cup Delivering,
           at \in {planner[p].at, planner[p].at + 1}, planner[p].pc \in Resolving => at = 1,
           at = planner[p].at \/ planner[p].at <= Len(Users),
           at = planner[p].at + 1 /\ at > 1 => Served(run, snap, Users[at - 1])'
    PROVE  Behind(planner[p])'
<1>1. Behind(planner[p]) /\ run \in Runs /\ planner[p].at \in Positions
  BY PlacedTyped, PlannerTyped DEF Placed, Held, Processes
<1>2. at \in Nat /\ at >= 1 /\ planner[p].at <= Len(Users) + 1
  BY <1>1, UsersTyped DEF Behind, Positions
<1>3. snap \in snaps'[run]
  BY <1>1 DEF Behind, Grows
<1>4. \A i \in 1..(at - 1) : Served(run, snap, Users[i])'
  <2>1. CASE planner[p].pc \in Resolving
    BY <2>1
  <2>2. CASE planner[p].pc \notin Resolving
    <3> DEFINE n == planner[p].at - 1
    <3>1. n \in 0..Len(Users) /\ \A i \in 1..n : Served(run, snap, Users[i])
      BY <1>1, <2>2, UsersTyped DEF Behind, Positions
    <3>2. \A i \in 1..n : Served(run, snap, Users[i])'
      BY <1>1, <3>1, ServedStays
    <3>3. at = planner[p].at => n = at - 1
      OBVIOUS
    <3>4. at = planner[p].at + 1 => n = at - 2
      BY <1>1 DEF Positions
    <3>5. at = planner[p].at \/ at = planner[p].at + 1
      BY <1>1, <1>2 DEF Positions
    <3> HIDE DEF n
    <3>6. CASE at = planner[p].at
      BY <3>2, <3>3, <3>6
    <3>7. CASE at = planner[p].at + 1
      <4>1. n = at - 2
        BY <3>4, <3>7
      <4>2. ASSUME NEW i \in 1..(at - 1) PROVE Served(run, snap, Users[i])'
        <5>1. CASE i = at - 1
          BY <1>2, <3>7, <5>1
        <5>2. CASE i # at - 1
          BY <1>2, <3>2, <4>1, <5>2
        <5> QED BY <5>1, <5>2
      <4> QED BY <4>2
    <3> QED BY <3>5, <3>6, <3>7
  <2> QED BY <2>1, <2>2
<1> QED
  BY <1>1, <1>2, <1>3, <1>4 DEF Behind, Resolving, Delivering

LEMMA AdvanceHeld ==
    ASSUME TypeOK, Placed, Grows, NEW p \in Planners, planner[p].pc # "idle",
           planner[p].at <= Len(Users), planner' = Advance(p),
           NEW run, NEW snap, NEW u,
           run = planner[p].run, snap = planner[p].snap, u = Users[planner[p].at],
           planner[p].pc \notin Resolving => Served(run, snap, u)'
    PROVE  Held(p)'
<1> DEFINE new == [planner[p] EXCEPT !.pc = "user", !.at = @ + 1, !.file = None, !.todo = {}]
<1>0. PICK at : at = planner[p].at + 1
  OBVIOUS
<1>1. planner'[p] = new
  BY AdvanceTyped
<1>2. new.pc = "user" /\ new.run = run /\ new.snap = snap /\ new.at = at /\ new.file = None
  BY <1>0, PlannerTyped DEF Processes
<1>3. planner[p].at \in Nat /\ (planner[p].pc \in Resolving => at = 1)
  BY <1>0, PlannerTyped, UsersTyped DEF Processes, Positions, Placed, Held, Behind
<1>4. at > 1 => planner[p].pc \notin Resolving
  BY <1>0, <1>3
<1>5. at - 1 = planner[p].at
  BY <1>0, <1>3
<1>6. at > 1 => Served(run, snap, Users[at - 1])'
  BY <1>4, <1>5
<1> HIDE DEF new
<1>7. Behind(planner[p])'
  BY <1>0, <1>1, <1>2, <1>3, <1>6, DeliveringHeld
<1> QED
  BY <1>1, <1>2, <1>7 DEF Held, Opened, Delivering

LEMMA TablesHeld ==
    ASSUME TypeOK, Placed, Grows, NEW p \in Planners,
           Lookup(p) \/ WriteSelect(p) \/ WriteUpsert(p) \/ WriteBoard(p)
    PROVE  Held(p)'
<1>1. planner[p].pc \in Resolving /\ planner[p] \in Processes
  BY PlannerTyped DEF Lookup, WriteSelect, WriteUpsert, WriteBoard, Resolving
<1>2. /\ planner'[p].run = planner[p].run /\ planner'[p].snap = planner[p].snap
      /\ planner'[p].at = planner[p].at /\ planner'[p].pc \in Resolving
      /\ planner'[p].file = planner[p].file
  <2>1. CASE Lookup(p)
    <3>1. PICK n : n = CHOOSE m \in planner[p].names : TRUE
      OBVIOUS
    <3>2. \/ planner' = [planner EXCEPT ![p].names = @ \ {n}]
          \/ \E r : planner' = [planner EXCEPT ![p].pc = "select", ![p].name = n,
                               ![p].names = @ \ {n}, ![p].result = r]
      BY <2>1, <3>1 DEF Lookup
    <3>3. planner[p].pc = "lookup"
      BY <2>1 DEF Lookup
    <3> QED BY <1>1, <3>2, <3>3 DEF TypeOK, Processes, Resolving
  <2>2. CASE WriteSelect(p)
    BY <1>1, <2>2 DEF WriteSelect, TypeOK, Processes, Resolving
  <2>3. CASE WriteUpsert(p)
    <3>1. PICK pc \in {"board", "lookup"} : planner' = [planner EXCEPT ![p].pc = pc]
      BY <2>3 DEF WriteUpsert
    <3> QED BY <1>1, <3>1 DEF TypeOK, Processes, Resolving
  <2>4. CASE WriteBoard(p)
    BY <1>1, <2>4 DEF WriteBoard, TypeOK, Processes, Resolving
  <2> QED BY <2>1, <2>2, <2>3, <2>4
<1> QED
  BY <1>1, <1>2, ResolvingHeld

LEMMA UserHeld ==
    ASSUME TypeOK, Placed, Grows, NEW p \in Planners,
           EndResolve(p) \/ SkipUser(p)
    PROVE  Held(p)'
<1>1. CASE EndResolve(p)
  <2>1. planner[p].pc \in Resolving /\ planner[p].pc # "idle" /\ planner' = Advance(p)
    BY <1>1 DEF EndResolve, Resolving
  <2> QED BY <2>1, PlacedTyped, AdvanceHeld
<1>2. CASE SkipUser(p)
  <2>1. PICK run, snap, u :
          run = planner[p].run /\ snap = planner[p].snap /\ u = Users[planner[p].at]
    OBVIOUS
  <2>2. planner[p].pc # "idle" /\ planner[p].at <= Len(Users) /\ planner' = Advance(p)
        /\ ~Eligible(snap, u)
    BY <1>2, <2>1 DEF SkipUser
  <2>3. Served(run, snap, u)'
    BY <2>2 DEF Served, Eligible
  <2> QED BY <2>1, <2>2, <2>3, AdvanceHeld
<1> QED
  BY <1>1, <1>2

LEMMA TruncateHeld ==
    ASSUME TypeOK, Placed, Grows, NEW p \in Planners, Truncate(p)
    PROVE  Held(p)'
<1>1. PICK run, snap, at, u, file :
        /\ run = planner[p].run /\ snap = planner[p].snap /\ at = planner[p].at
        /\ u = Users[at] /\ file = Due(planner[p])
  OBVIOUS
<1>2. /\ planner[p].pc \in {"user", "policies", "profile"}
      /\ planner[p].pc = "user" => at <= Len(Users) /\ Eligible(snap, u)
  BY <1>1 DEF Truncate
<1> DEFINE new == [planner[p] EXCEPT !.file = file]
<1>3. planner'[p] = new
  BY <1>1 DEF Truncate, TypeOK
<1>4. /\ new.pc = planner[p].pc /\ new.run = run /\ new.snap = snap /\ new.at = at
      /\ new.file = file /\ Due(new) = file
  BY <1>1, PlannerTyped DEF Processes, Due
<1> HIDE DEF new
<1>5. Behind(planner[p])'
  <2>1. at \in Nat
    BY <1>1, PlannerTyped, UsersTyped DEF Processes, Positions
  <2> QED BY <1>1, <1>2, <1>3, <1>4, <2>1, DeliveringHeld DEF Delivering, Resolving
<1>6. ASSUME planner[p].pc \in {"policies", "profile"}
      PROVE  Amid(planner[p])'
  <2>1. /\ run \in Runs /\ u \in UserSet /\ at <= Len(Users) /\ Eligible(snap, u) /\ Written(run, u)
        /\ planner[p].pc = "profile" => Policied(run, u)
    BY <1>1, <1>6, PlacedTyped DEF Placed, Held, Delivering, Amid
  <2>2. Written(run, u)' /\ (planner[p].pc = "profile" => Policied(run, u)')
    BY <2>1 DEF Grows
  <2>3. planner'[p].pc # "enqueue"
    BY <1>3, <1>4, <1>6
  <2>4. /\ planner'[p].run = run /\ planner'[p].snap = snap /\ planner'[p].at = at
        /\ Users[at] = u /\ planner'[p].pc = planner[p].pc
    BY <1>1, <1>3, <1>4
  <2> QED BY <1>6, <2>1, <2>2, <2>3, <2>4 DEF Amid, Written, Policied, Eligible
<1>7. Opened(planner[p])'
  BY <1>1, <1>2, <1>3, <1>4 DEF Opened, Eligible, Due
<1> QED
  BY <1>2, <1>3, <1>4, <1>5, <1>6, <1>7 DEF Held, Delivering

LEMMA MaterializeHeld ==
    ASSUME TypeOK, Placed, Grows, NEW p \in Planners, Materialize(p) \/ MaterializePolicies(p)
    PROVE  Held(p)'
<1>1. PICK run, snap, at, u :
        /\ run = planner[p].run /\ snap = planner[p].snap /\ at = planner[p].at
        /\ u = Users[at]
  OBVIOUS
<1>2. PICK pc \in {"policies", "profile"} : pc = IF planner[p].pc = "user" THEN "policies" ELSE "profile"
  OBVIOUS
<1> DEFINE new == [planner[p] EXCEPT !.pc = pc, !.file = None]
<1>3. /\ planner[p].pc \in {"user", "policies"}
      /\ planner[p].pc = "user" => Materialize(p)
      /\ planner[p].pc = "policies" => MaterializePolicies(p)
  BY DEF Materialize, MaterializePolicies
<1>4. run \in Runs /\ u \in UserSet /\ Eligible(snap, u) /\ at <= Len(Users)
  <2>1. run \in Runs /\ u \in UserSet /\ Eligible(snap, u)
    BY <1>1, MaterializePuts DEF Puts
  <2>2. planner[p].pc = "policies" => at <= Len(Users)
    BY <1>1, PlacedTyped DEF Delivering
  <2>3. planner[p].pc = "user" => at <= Len(Users)
    BY <1>1, <1>3, PlanningAssumption DEF Materialize, WriteText, Placed, Held, Opened, Files
  <2> QED BY <1>3, <2>1, <2>2, <2>3
<1>5. planner'[p] = new
  BY <1>2 DEF Materialize, MaterializePolicies, TypeOK
<1>6. new.pc = pc /\ new.run = run /\ new.snap = snap /\ new.at = at /\ new.file = None
  BY <1>1, PlannerTyped DEF Processes
<1> HIDE DEF new
<1>7. Written(run, u)' /\ (pc = "profile" => Policied(run, u)')
  <2>1. pc = "policies" => Written(run, u)'
    BY <1>1, <1>2, <1>3, MaterializeGrows
  <2>2. pc = "profile" => MaterializePolicies(p)
    BY <1>2, <1>3
  <2>3. pc = "profile" => Written(run, u) /\ Policied(run, u)'
    BY <1>1, <2>2, MaterializeGrows DEF MaterializePolicies, Placed, Held, Delivering, Amid
  <2> QED BY <1>4, <2>1, <2>3 DEF Grows
<1>8. Behind(planner[p])'
  <2>1. at \in Nat
    BY <1>1, PlannerTyped, UsersTyped DEF Processes, Positions
  <2> QED BY <1>1, <1>3, <1>5, <1>6, <2>1, DeliveringHeld DEF Delivering, Resolving
<1>9. Amid(planner[p])'
  BY <1>1, <1>4, <1>5, <1>6, <1>7 DEF Amid, Written, Policied, Eligible
<1> QED
  BY <1>5, <1>6, <1>8, <1>9 DEF Held, Opened

LEMMA ProfileHeld ==
    ASSUME TypeOK, Placed, Grows, NEW p \in Planners, MaterializeProfile(p)
    PROVE  Held(p)'
<1>1. PICK run, snap, at, u :
          /\ run = planner[p].run /\ snap = planner[p].snap /\ at = planner[p].at
          /\ u = Users[at]
  OBVIOUS
<1>2. /\ planner[p].pc = "profile" /\ Behind(planner[p]) /\ at <= Len(Users) /\ Eligible(snap, u)
      /\ Written(run, u) /\ Policied(run, u)
  BY <1>1 DEF MaterializeProfile, Placed, Held, Delivering, Amid
<1>3. PICK todo \in SUBSET Sources : todo = Wants(snap, u)
  BY WantsTyped
<1>4. CASE todo = {}
  <2>1. planner' = Advance(p)
    BY <1>1, <1>3, <1>4 DEF MaterializeProfile, Wants
  <2>2. Served(run, snap, u)'
    BY <1>3, <1>4 DEF Served, Enqueued, Wants, SourcesFor, Eligible
  <2> QED BY <1>1, <1>2, <2>1, <2>2, AdvanceHeld
<1>5. CASE todo # {}
  <2> DEFINE new == [planner[p] EXCEPT !.pc = "enqueue", !.file = None, !.todo = todo]
  <2>1. planner'[p] = new
    BY <1>1, <1>3, <1>5 DEF MaterializeProfile, TypeOK, Wants
  <2>2. /\ new.pc = "enqueue" /\ new.run = run /\ new.snap = snap /\ new.at = at /\ new.todo = todo
        /\ new.file = None
    BY <1>1, PlannerTyped DEF Processes
  <2> HIDE DEF new
  <2>3. Written(run, u)' /\ Policied(run, u)' /\ Profiled(run, u)'
    <3>1. run \in Runs /\ u \in UserSet
      BY <1>1, <1>2, PlacedTyped DEF Delivering
    <3> QED BY <1>1, <1>2, <3>1, MaterializeGrows DEF Grows
  <2>4. Behind(planner[p])'
    <3>1. at \in Nat
      BY <1>1, PlannerTyped, UsersTyped DEF Processes, Positions
    <3> QED BY <1>1, <1>2, <2>1, <2>2, <3>1, DeliveringHeld DEF Delivering, Resolving
  <2>5. Amid(planner[p])'
    <3>1. /\ planner'[p].run = run /\ planner'[p].snap = snap /\ planner'[p].at = at
          /\ Users[at] = u /\ planner'[p].pc = "enqueue" /\ planner'[p].todo = todo
      BY <1>1, <2>1, <2>2
    <3>2. at <= Len(Users) /\ Eligible(snap, u) /\ todo # {} /\ Wants(snap, u)' = todo
      BY <1>2, <1>3, <1>5 DEF Wants, SourcesFor
    <3>3. Enqueued(run, u, todo \ todo)'
      BY DEF Enqueued
    <3> QED BY <2>3, <3>1, <3>2, <3>3
       DEF Amid, Written, Policied, Profiled, Eligible, Enqueued, Wants, SourcesFor
  <2> QED BY <2>1, <2>2, <2>4, <2>5 DEF Held, Opened
<1> QED
  BY <1>4, <1>5

LEMMA EnqueueHeld ==
    ASSUME TypeOK, Placed, Grows, NEW p \in Planners, EnqueueSource(p)
    PROVE  Held(p)'
<1>1. PICK run, snap, at, u :
          /\ run = planner[p].run /\ snap = planner[p].snap /\ at = planner[p].at
          /\ u = Users[at]
  OBVIOUS
<1>2. PICK todo \in SUBSET Sources : todo = planner[p].todo
  BY PlannerTyped DEF Processes
<1>3. PICK k : k = CHOOSE s \in planner[p].todo : TRUE
  OBVIOUS
<1>4. PICK ks \in SUBSET Sources : ks = Wants(snap, u)
  BY WantsTyped
<1>5. /\ planner[p].pc = "enqueue" /\ at <= Len(Users) /\ Eligible(snap, u)
      /\ Written(run, u) /\ Policied(run, u) /\ Profiled(run, u)
      /\ todo \subseteq ks /\ Enqueued(run, u, ks \ todo)
  BY <1>1, <1>2, <1>4 DEF EnqueueSource, Placed, Held, Delivering, Amid
<1>6. run \in Runs /\ u \in UserSet /\ k \in todo /\ rows'[<<run, u, k>>] # None
  BY <1>1, <1>2, <1>3, EnqueueWrites DEF Delivers
<1>7. Enqueued(run, u, ks \ (todo \ {k}))'
  <2>1. Enqueued(run, u, ks \ todo)'
    BY <1>5, <1>6, EnqueuedStays
  <2> QED BY <1>6, <2>1 DEF Enqueued
<1>8. CASE todo = {k}
  <2>1. planner' = Advance(p)
    BY <1>2, <1>3, <1>8 DEF EnqueueSource
  <2>2. Enqueued(run, u, ks)'
    BY <1>7, <1>8 DEF Enqueued
  <2>3. Served(run, snap, u)'
    BY <1>4, <2>2 DEF Served, Enqueued, Wants, SourcesFor, Eligible
  <2> QED BY <1>1, <1>5, <2>1, <2>3, AdvanceHeld
<1>9. CASE todo # {k}
  <2> DEFINE new == [planner[p] EXCEPT !.todo = todo \ {k}]
  <2>1. planner'[p] = new
    BY <1>2, <1>3, <1>9 DEF EnqueueSource, TypeOK
  <2>2. /\ new.pc = "enqueue" /\ new.run = run /\ new.snap = snap /\ new.at = at
        /\ new.todo = todo \ {k} /\ new.file = planner[p].file
    BY <1>1, <1>5, PlannerTyped DEF Processes
  <2> HIDE DEF new
  <2>3. Written(run, u)' /\ Policied(run, u)' /\ Profiled(run, u)'
    BY <1>5, <1>6 DEF Grows
  <2>4. Behind(planner[p])'
    <3>1. at \in Nat
      BY <1>1, PlannerTyped, UsersTyped DEF Processes, Positions
    <3> QED BY <1>1, <1>5, <2>1, <2>2, <3>1, DeliveringHeld DEF Delivering, Resolving
  <2>5. Amid(planner[p])'
    <3>1. /\ planner'[p].run = run /\ planner'[p].snap = snap /\ planner'[p].at = at
          /\ Users[at] = u /\ planner'[p].pc = "enqueue" /\ planner'[p].todo = todo \ {k}
      BY <1>1, <2>1, <2>2
    <3>2. /\ at <= Len(Users) /\ Eligible(snap, u) /\ todo \ {k} # {} /\ todo \ {k} \subseteq ks
          /\ Wants(snap, u)' = ks
      BY <1>4, <1>5, <1>6, <1>9 DEF Wants, SourcesFor
    <3> QED BY <1>7, <2>3, <3>1, <3>2
       DEF Amid, Written, Policied, Profiled, Eligible, Enqueued, Wants, SourcesFor
  <2>6. planner[p].file = None
    BY <1>5 DEF Placed, Held, Opened
  <2> QED BY <2>1, <2>2, <2>4, <2>5, <2>6 DEF Held, Opened
<1> QED
  BY <1>8, <1>9

LEMMA IdleHeld ==
    ASSUME NEW p \in Planners, planner'[p] = Idle
    PROVE  Held(p)'
  BY DEF Held, Opened, Idle, Delivering

LEMMA StartHeld ==
    ASSUME TypeOK, NEW p \in Planners, StartPlan(p)
    PROVE  Held(p)'
<1>1. PICK snap : snap = [profile |-> profile, search |-> search, enabled |-> enabled]
  OBVIOUS
<1>2. PICK r \in Runs :
       /\ planner' = [planner EXCEPT ![p] =
            [Idle EXCEPT !.pc = "lookup", !.run = r, !.snap = snap, !.names = Gathered(snap)]]
       /\ snaps' = [snaps EXCEPT ![r] = @ \cup {snap}]
  BY <1>1 DEF StartPlan
<1>3. snap \in snaps'[r]
  BY <1>2 DEF TypeOK
<1>4. planner'[p] = [Idle EXCEPT !.pc = "lookup", !.run = r, !.snap = snap, !.names = Gathered(snap)]
  BY <1>2 DEF TypeOK
<1>5. /\ planner'[p].pc = "lookup" /\ planner'[p].run = r /\ planner'[p].snap = snap
      /\ planner'[p].at = 0 /\ planner'[p].file = None
  BY <1>4 DEF Idle
<1> QED
  BY <1>3, <1>5 DEF Held, Behind, Opened, Resolving, Delivering

LEMMA PlacedStep ==
    ASSUME TypeOK, Placed, Grows, [Next]_vars
    PROVE  Placed'
<1>1. ASSUME NEW p \in Planners, StartPlan(p) \/ Plan(p) \/ Die(p)
      PROVE  Placed'
  <2>1. \A q \in Planners \ {p} : Held(q)'
    BY <1>1, OthersStay, HeldStays
  <2>2. ASSUME EndPlan(p) \/ Die(p)
        PROVE  Held(p)'
    BY <2>2, IdleTyped, IdleHeld DEF EndPlan, Die, TypeOK
  <2>3. Held(p)'
    BY <1>1, <2>2, StartHeld, TablesHeld, UserHeld, TruncateHeld, MaterializeHeld,
       ProfileHeld, EnqueueHeld DEF Plan
  <2> QED BY <2>1, <2>3 DEF Placed
<1>2. CASE UNCHANGED planner
  BY <1>2, HeldStays DEF Placed
<1>3. \/ \E p \in Planners : StartPlan(p) \/ Plan(p) \/ Die(p)
      \/ UNCHANGED planner
  BY DEF Next, vars, PutProfile, PutSearch, PutPipelineEnabled, Save, Scrape, Discover, Age, Move
<1> QED
  BY <1>1, <1>2, <1>3

-----------------------------------------------------------------------------
(* Rows, artifacts and finished plans.                                     *)

LEMMA SourcedStep ==
    ASSUME TypeOK, Placed, Sourced, Grows, [Next]_vars
    PROVE  Sourced'
<1>1. ASSUME NEW r \in Runs, NEW u \in UserSet, NEW k \in Sources, rows[<<r, u, k>>] # None
      PROVE  /\ \E s \in snaps'[r] : Eligible(s, u) /\ rows'[<<r, u, k>>] = PipelineSearch(s.search[u])[k]
             /\ Written(r, u)' /\ Policied(r, u)' /\ Profiled(r, u)'
  BY <1>1 DEF Sourced, Grows
<1>2. ASSUME NEW p \in Planners, EnqueueSource(p)
      PROVE  Sourced'
  <2>1. PICK run, v, snap, l :
          /\ run = planner[p].run /\ v = Users[planner[p].at] /\ snap = planner[p].snap
          /\ l = CHOOSE s \in planner[p].todo : TRUE
    OBVIOUS
  <2>2. Delivers(run, v, snap, l)
    BY <1>2, <2>1, EnqueueWrites
  <2>3. ASSUME NEW r \in Runs, NEW u \in UserSet, NEW k \in Sources,
               rows'[<<r, u, k>>] # None, rows[<<r, u, k>>] = None
        PROVE  /\ \E s \in snaps'[r] : Eligible(s, u) /\ rows'[<<r, u, k>>] = PipelineSearch(s.search[u])[k]
               /\ Written(r, u)' /\ Policied(r, u)' /\ Profiled(r, u)'
    <3>1. r = run /\ u = v /\ k = l
      BY <2>2, <2>3 DEF Delivers
    <3>2. rows'[<<r, u, k>>] = PipelineSearch(snap.search[u])[k] /\ snap \in snaps[r] /\ Eligible(snap, u)
          /\ Written(r, u) /\ Policied(r, u) /\ Profiled(r, u)
      BY <2>2, <2>3, <3>1 DEF Delivers
    <3> QED BY <3>2 DEF Grows
  <2>4. ASSUME NEW r \in Runs, NEW u \in UserSet, NEW k \in Sources, rows'[<<r, u, k>>] # None
        PROVE  /\ \E s \in snaps'[r] : Eligible(s, u) /\ rows'[<<r, u, k>>] = PipelineSearch(s.search[u])[k]
               /\ Written(r, u)' /\ Policied(r, u)' /\ Profiled(r, u)'
    BY <1>1, <2>3, <2>4
  <2> QED BY <2>4 DEF Sourced, Eligible
<1>3. CASE UNCHANGED rows
  BY <1>1, <1>3 DEF Sourced, Eligible
<1>4. (\E p \in Planners : EnqueueSource(p)) \/ UNCHANGED rows
  BY DEF Next, Plan, vars, PutProfile, PutSearch, PutPipelineEnabled, Save, Scrape, Discover, Age, Move,
     StartPlan, Die, Lookup, WriteSelect, WriteUpsert, WriteBoard, EndResolve, SkipUser,
     Truncate, Materialize, MaterializePolicies, MaterializeProfile, WriteText, EndPlan
<1> QED
  BY <1>2, <1>3, <1>4

LEMMA CompleteStep ==
    ASSUME TypeOK, Placed, PlanComplete, Grows, [Next]_vars
    PROVE  PlanComplete'
<1>1. ASSUME NEW r \in Runs, NEW snap \in finished[r], NEW u \in UserSet, Eligible(snap, u)
      PROVE  Enqueued(r, u, Wants(snap, u))'
  <2>1. PICK ks \in SUBSET Sources : ks = Wants(snap, u)
    BY WantsTyped
  <2>2. Enqueued(r, u, ks)
    BY <1>1, <2>1 DEF PlanComplete, Enqueued, Wants
  <2>3. Enqueued(r, u, ks)'
    BY <2>2, EnqueuedStays
  <2> QED BY <2>1, <2>3 DEF Enqueued, Wants, SourcesFor
<1>2. ASSUME NEW p \in Planners, EndPlan(p)
      PROVE  PlanComplete'
  <2>1. PICK run, new : run = planner[p].run /\ new = planner[p].snap
    OBVIOUS
  <2>2. planner[p].pc = "user" /\ planner[p].at > Len(Users) /\ Behind(planner[p])
    BY <1>2 DEF EndPlan, Placed, Held
  <2>3. planner[p].at - 1 = Len(Users)
    BY <2>2, PlannerTyped, UsersTyped DEF Processes, Positions
  <2>4. run \in Runs /\ \A i \in 1..Len(Users) : Served(run, new, Users[i])
    BY <2>1, <2>2, <2>3 DEF Behind, Resolving
  <2>5. \A u \in UserSet : Served(run, new, u)
    BY <2>4, UsersTyped
  <2>6. ASSUME NEW u \in UserSet, Eligible(new, u)
        PROVE  Enqueued(run, u, Wants(new, u))'
    <3>1. PICK ks \in SUBSET Sources : ks = Wants(new, u)
      BY WantsTyped
    <3>2. Enqueued(run, u, ks)'
      BY <2>4, <2>5, <2>6, <3>1, EnqueuedStays DEF Served
    <3> QED BY <3>1, <3>2 DEF Enqueued, Wants, SourcesFor
  <2>7. \A r \in Runs : finished'[r] \subseteq IF r = run THEN finished[r] \cup {new} ELSE finished[r]
    BY <1>2, <2>1 DEF EndPlan, TypeOK
  <2>8. ASSUME NEW r \in Runs, NEW snap \in finished'[r], NEW u \in UserSet, Eligible(snap, u)
        PROVE  Enqueued(r, u, Wants(snap, u))'
    BY <1>1, <2>6, <2>7, <2>8
  <2> QED BY <2>8 DEF PlanComplete, Enqueued, Wants, Eligible
<1>3. CASE UNCHANGED finished
  BY <1>1, <1>3 DEF PlanComplete, Enqueued, Wants, Eligible
<1>4. (\E p \in Planners : EndPlan(p)) \/ UNCHANGED finished
  BY DEF Next, Plan, vars, PutProfile, PutSearch, PutPipelineEnabled, Save, Scrape, Discover, Age, Move,
     StartPlan, Die, Lookup, WriteSelect, WriteUpsert, WriteBoard, EndResolve, SkipUser,
     Truncate, Materialize, MaterializePolicies, MaterializeProfile, WriteText, EnqueueSource
<1> QED
  BY <1>2, <1>3, <1>4

\* A planner that is not at an artifact has no file open.
LEMMA NothingOpen ==
    ASSUME TypeOK, Placed, NEW p \in Planners,
           \/ StartPlan(p) \/ Lookup(p) \/ WriteSelect(p) \/ WriteUpsert(p) \/ WriteBoard(p)
           \/ EndResolve(p) \/ SkipUser(p) \/ Truncate(p) \/ EnqueueSource(p) \/ EndPlan(p)
    PROVE  planner[p].file = None
<1>1. Opened(planner[p])
  BY DEF Placed, Held
<1>2. CASE \/ StartPlan(p) \/ Lookup(p) \/ WriteSelect(p) \/ WriteUpsert(p) \/ WriteBoard(p)
           \/ EndResolve(p) \/ EnqueueSource(p)
  <2>1. planner[p].pc \in {"idle", "enqueue"} \cup Resolving
    BY <1>2 DEF StartPlan, Lookup, WriteSelect, WriteUpsert, WriteBoard, EndResolve, EnqueueSource,
       Resolving
  <2> QED BY <1>1, <2>1 DEF Opened, Resolving
<1>3. CASE SkipUser(p)
  BY <1>1, <1>3 DEF Opened, SkipUser
<1>4. CASE Truncate(p)
  BY <1>4 DEF Truncate
<1>5. CASE EndPlan(p)
  <2>1. planner[p].pc = "user" /\ ~(planner[p].at <= Len(Users))
    BY <1>5, UsersTyped, PlannerTyped DEF EndPlan, Processes, Positions
  <2> QED BY <1>1, <2>1 DEF Opened
<1> QED
  BY <1>2, <1>3, <1>4, <1>5

LEMMA ExplainedStep ==
    ASSUME TypeOK, Placed, Explained, [Next]_vars
    PROVE  Explained'
<1> DEFINE At(q, r, u, f) == planner[q].run = r /\ Users[planner[q].at] = u /\ planner[q].file = f
<1>1. ASSUME NEW p \in Planners, StartPlan(p) \/ Plan(p) \/ Die(p),
             NEW r \in Runs, NEW u \in UserSet, NEW f \in Files, Writing(r, u, f), ~At(p, r, u, f)
      PROVE  Writing(r, u, f)'
  <2>1. PICK q \in Planners : At(q, r, u, f)
    BY <1>1 DEF Writing
  <2>2. q # p
    BY <1>1, <2>1
  <2> QED BY <1>1, <2>1, <2>2, OthersStay DEF Writing
<1>2. ASSUME NEW p \in Planners,
             \/ StartPlan(p) \/ Lookup(p) \/ WriteSelect(p) \/ WriteUpsert(p) \/ WriteBoard(p)
             \/ EndResolve(p) \/ SkipUser(p) \/ EnqueueSource(p) \/ EndPlan(p)
      PROVE  Explained'
  <2>1. UNCHANGED <<files, cut>>
    BY <1>2 DEF StartPlan, Lookup, WriteSelect, WriteUpsert, WriteBoard, EndResolve, SkipUser,
       EnqueueSource, EndPlan
  <2>2. \A r \in Runs, u \in UserSet, f \in Files : ~At(p, r, u, f)
    BY <1>2, NothingOpen, PlanningAssumption
  <2>3. StartPlan(p) \/ Plan(p) \/ Die(p)
    BY <1>2 DEF Plan
  <2>4. ASSUME NEW r \in Runs, NEW u \in UserSet, NEW f \in Files, files'[<<r, u>>][f] = Torn
        PROVE  <<r, u, f>> \in cut' \/ Writing(r, u, f)'
    <3>1. <<r, u, f>> \in cut \/ Writing(r, u, f)
      BY <2>1, <2>4 DEF Explained
    <3> QED BY <1>1, <2>1, <2>2, <2>3, <3>1
  <2> QED BY <2>4 DEF Explained, Writing
<1>3. ASSUME NEW p \in Planners, Truncate(p)
      PROVE  Explained'
  <2>1. PICK run, v, snap, file :
          run = planner[p].run /\ v = Users[planner[p].at] /\ snap = planner[p].snap
          /\ file = Due(planner[p])
    OBVIOUS
  <2>2. Puts(run, v, snap, file, Torn)
    BY <1>3, <2>1, MaterializePuts
  <2>3. /\ planner' = [planner EXCEPT ![p].file = file] /\ UNCHANGED cut
        /\ \A r \in Runs, u \in UserSet, f \in Files : ~At(p, r, u, f)
    BY <1>3, <2>1, NothingOpen, PlanningAssumption DEF Truncate
  <2>4. planner'[p].run = run /\ Users[planner'[p].at] = v /\ planner'[p].file = file
    BY <2>1, <2>3, PlannerTyped DEF TypeOK, Processes
  <2>6. /\ files'[<<run, v>>][file] = Torn
        /\ \A q \in Runs, w \in UserSet, f \in Files :
             q # run \/ w # v \/ f # file => files'[<<q, w>>][f] = files[<<q, w>>][f]
    BY <2>2, PutsTyped
  <2>5. ASSUME NEW r \in Runs, NEW u \in UserSet, NEW f \in Files, files'[<<r, u>>][f] = Torn
        PROVE  <<r, u, f>> \in cut' \/ Writing(r, u, f)'
    <3>1. CASE r = run /\ u = v /\ f = file
      BY <2>4, <3>1 DEF Writing
    <3>2. CASE ~(r = run /\ u = v /\ f = file)
      <4>1. files[<<r, u>>][f] = Torn
        BY <2>5, <2>6, <3>2
      <4>2. <<r, u, f>> \in cut \/ Writing(r, u, f)
        BY <4>1 DEF Explained
      <4> QED BY <1>1, <1>3, <2>3, <4>2 DEF Plan
    <3> QED BY <3>1, <3>2
  <2> QED BY <2>5 DEF Explained, Writing
<1>4. ASSUME NEW p \in Planners, Materialize(p) \/ MaterializePolicies(p) \/ MaterializeProfile(p)
      PROVE  Explained'
  <2>1. PICK run, v, snap :
          run = planner[p].run /\ v = Users[planner[p].at] /\ snap = planner[p].snap
    OBVIOUS
  <2>2. PICK file, text : /\ Puts(run, v, snap, file, text) /\ text # Torn
                          /\ planner[p].file = file /\ cut' = cut \ {<<run, v, file>>}
    <3>1. ASSUME NEW s \in Searches
          PROVE  PipelineSearch(s) # Torn /\ DerivePolicies(s) # Torn
      BY PlanningAssumption
    <3>2. Torn # "whole"
      BY PlanningAssumption
    <3>3. snap.search[v] \in Searches
      BY <1>4, <2>1, MaterializePuts DEF Puts
    <3>4. CASE Materialize(p)
      <4>1. planner[p].file = "search" /\ cut' = cut \ {<<run, v, "search">>}
        BY <2>1, <3>4 DEF Materialize, WriteText
      <4> QED BY <2>1, <3>1, <3>3, <3>4, <4>1, MaterializePuts
    <3>5. CASE MaterializePolicies(p)
      <4>1. planner[p].file = "policies" /\ cut' = cut \ {<<run, v, "policies">>}
        BY <2>1, <3>5 DEF MaterializePolicies, WriteText
      <4> QED BY <2>1, <3>1, <3>3, <3>5, <4>1, MaterializePuts
    <3>6. CASE MaterializeProfile(p)
      <4>1. planner[p].file = "profile" /\ cut' = cut \ {<<run, v, "profile">>}
        BY <2>1, <3>6 DEF MaterializeProfile, WriteText
      <4> QED BY <2>1, <3>2, <3>6, <4>1, MaterializePuts
    <3> QED BY <1>4, <3>4, <3>5, <3>6
  <2>4. /\ files'[<<run, v>>][file] = text
        /\ \A q \in Runs, w \in UserSet, f \in Files :
             q # run \/ w # v \/ f # file => files'[<<q, w>>][f] = files[<<q, w>>][f]
    BY <2>2, PutsTyped
  <2>3. ASSUME NEW r \in Runs, NEW u \in UserSet, NEW f \in Files, files'[<<r, u>>][f] = Torn
        PROVE  <<r, u, f>> \in cut' \/ Writing(r, u, f)'
    <3>1. ~(r = run /\ u = v /\ f = file)
      BY <2>2, <2>3, <2>4
    <3>2. files[<<r, u>>][f] = Torn
      BY <2>3, <2>4, <3>1
    <3>3. <<r, u, f>> \in cut \/ Writing(r, u, f)
      BY <3>2 DEF Explained
    <3>4. ~At(p, r, u, f)
      BY <2>1, <2>2, <3>1
    <3> QED BY <1>1, <1>4, <2>2, <3>1, <3>3, <3>4 DEF Plan
  <2> QED BY <2>3 DEF Explained, Writing
<1>5. ASSUME NEW p \in Planners, Die(p)
      PROVE  Explained'
  <2>1. /\ UNCHANGED files
        /\ planner[p].file # None =>
             cut' = cut \cup {<<planner[p].run, Users[planner[p].at], planner[p].file>>}
        /\ planner[p].file = None => cut' = cut
    BY <1>5 DEF Die
  <2>2. ASSUME NEW r \in Runs, NEW u \in UserSet, NEW f \in Files, files'[<<r, u>>][f] = Torn
        PROVE  <<r, u, f>> \in cut' \/ Writing(r, u, f)'
    <3>1. <<r, u, f>> \in cut \/ Writing(r, u, f)
      BY <2>1, <2>2 DEF Explained
    <3>2. CASE At(p, r, u, f)
      BY <2>1, <3>2, PlanningAssumption
    <3>3. CASE ~At(p, r, u, f)
      BY <1>1, <1>5, <2>1, <3>1, <3>3
    <3> QED BY <3>2, <3>3
  <2> QED BY <2>2 DEF Explained, Writing
<1>6. CASE UNCHANGED <<planner, files, cut>>
  BY <1>6 DEF Explained, Writing
<1>7. \/ \E p \in Planners : StartPlan(p) \/ Plan(p) \/ Die(p)
      \/ UNCHANGED <<planner, files, cut>>
  BY DEF Next, vars, PutProfile, PutSearch, PutPipelineEnabled, Save, Scrape, Discover, Age, Move
<1> QED
  BY <1>2, <1>3, <1>4, <1>5, <1>6, <1>7 DEF Plan

LEMMA PlainMoves ==
    ASSUME TypeOK, NEW p \in Planners,
           \/ StartPlan(p) \/ WriteBoard(p) \/ EndResolve(p) \/ SkipUser(p) \/ Truncate(p)
           \/ Materialize(p) \/ MaterializePolicies(p) \/ MaterializeProfile(p) \/ EnqueueSource(p) \/ EndPlan(p) \/ Die(p)
    PROVE  planner'[p].pc \notin {"select", "upsert", "board"}
<1>1. CASE StartPlan(p) \/ EndPlan(p) \/ Die(p)
  <2>1. CASE StartPlan(p)
    <3>1. PICK snap : snap = [profile |-> profile, search |-> search, enabled |-> enabled]
      OBVIOUS
    <3>2. PICK run \in Runs : planner' = [planner EXCEPT ![p] =
            [Idle EXCEPT !.pc = "lookup", !.run = run, !.snap = snap, !.names = Gathered(snap)]]
      BY <2>1, <3>1 DEF StartPlan
    <3> QED BY <3>2 DEF Idle, TypeOK
  <2>2. CASE EndPlan(p) \/ Die(p)
    BY <2>2, IdleTyped DEF EndPlan, Die, TypeOK
  <2> QED BY <1>1, <2>1, <2>2
<1>2. CASE ~(StartPlan(p) \/ EndPlan(p) \/ Die(p))
  <2>1. ASSUME WriteBoard(p) \/ EndResolve(p) \/ SkipUser(p)
        PROVE  planner'[p].pc \in {"lookup", "user"}
    <3>1. planner' = Advance(p) \/ planner' = [planner EXCEPT ![p].pc = "lookup"]
      BY <2>1 DEF WriteBoard, EndResolve, SkipUser
    <3> QED BY <3>1, PlannerTyped DEF Advance, TypeOK, Processes
  <2>2. ASSUME Truncate(p)
        PROVE  planner'[p].pc \in {"user", "policies", "profile"}
    <3>1. PICK file : planner' = [planner EXCEPT ![p].file = file]
      BY <2>2 DEF Truncate
    <3> QED BY <2>2, <3>1, PlannerTyped DEF Truncate, TypeOK, Processes
  <2>3. ASSUME Materialize(p) \/ MaterializePolicies(p) \/ MaterializeProfile(p)
        PROVE  planner'[p].pc \in {"policies", "profile", "enqueue", "user"}
    <3>1. PICK todo : \/ planner' = [planner EXCEPT ![p].pc = "policies", ![p].file = None]
                      \/ planner' = [planner EXCEPT ![p].pc = "profile", ![p].file = None]
                      \/ planner' = [planner EXCEPT ![p].pc = "enqueue", ![p].file = None, ![p].todo = todo]
                      \/ planner' = Advance(p)
      BY <2>3 DEF Materialize, MaterializePolicies, MaterializeProfile
    <3> QED BY <3>1, PlannerTyped DEF Advance, TypeOK, Processes
  <2>4. ASSUME EnqueueSource(p)
        PROVE  planner'[p].pc \in {"enqueue", "user"}
    <3>1. PICK todo : planner' = Advance(p) \/ planner' = [planner EXCEPT ![p].todo = todo]
      BY <2>4 DEF EnqueueSource
    <3> QED BY <2>4, <3>1, PlannerTyped DEF EnqueueSource, Advance, TypeOK, Processes
  <2> QED BY <1>2, <2>1, <2>2, <2>3, <2>4
<1> QED
  BY <1>1, <1>2

LEMMA LookupMoves ==
    ASSUME TypeOK, NEW p \in Planners, Lookup(p) \/ WriteUpsert(p)
    PROVE  planner'[p].pc # "upsert"
<1>1. CASE Lookup(p)
  <2>1. PICK n : n = CHOOSE m \in planner[p].names : TRUE
    OBVIOUS
  <2>2. \/ planner' = [planner EXCEPT ![p].names = @ \ {n}]
        \/ \E r : planner' = [planner EXCEPT ![p].pc = "select", ![p].name = n,
                             ![p].names = @ \ {n}, ![p].result = r]
    BY <1>1, <2>1 DEF Lookup
  <2>3. planner[p].pc = "lookup" /\ planner[p] \in Processes
    BY <1>1, PlannerTyped DEF Lookup
  <2> QED BY <2>2, <2>3 DEF TypeOK, Processes
<1>2. CASE WriteUpsert(p)
  <2>1. PICK pc \in {"board", "lookup"} : planner' = [planner EXCEPT ![p].pc = pc]
    BY <1>2 DEF WriteUpsert
  <2> QED BY <2>1, PlannerTyped DEF TypeOK, Processes
<1> QED
  BY <1>1, <1>2

-----------------------------------------------------------------------------
(* The alias table and the scrapers.                                       *)

\* Confirmed, after the step.
WillBe(r) == r.status = "resolved" => <<r.board, r.slug>> \in verified'

LEMMA LookupTrusted ==
    ASSUME TypeOK, NEW p \in Planners, Lookup(p), planner'[p].pc # "lookup"
    PROVE  /\ planner'[p].pc = "select" /\ planner'[p].name \in Names
           /\ planner'[p].result \in Results /\ WillBe(planner'[p].result)
<1>1. PICK n : n = CHOOSE m \in planner[p].names : TRUE
  OBVIOUS
<1>2. planner[p].names \subseteq Names /\ planner[p].names # {} /\ planner[p].pc = "lookup"
  BY PlannerTyped DEF Processes, Lookup
<1>3. n \in Names
  BY <1>1, <1>2
<1>4. ~Cached(n)
  <2> SUFFICES ASSUME Cached(n) PROVE FALSE
    OBVIOUS
  <2>1. planner' = [planner EXCEPT ![p].names = @ \ {n}]
    BY <1>1 DEF Lookup
  <2> QED BY <1>2, <2>1, PlannerTyped DEF TypeOK, Processes
<1>5. PICK lost \in SUBSET live : \E r \in Resolutions(n, lost) :
        /\ planner' = [planner EXCEPT ![p].pc = "select", ![p].name = n,
                         ![p].names = @ \ {n}, ![p].result = r]
        /\ verified' = verified \cup Answers(r.slug, lost)
  BY <1>1, <1>4 DEF Lookup
<1>6. PICK r \in Resolutions(n, lost) :
        /\ planner' = [planner EXCEPT ![p].pc = "select", ![p].name = n,
                         ![p].names = @ \ {n}, ![p].result = r]
        /\ verified' = verified \cup Answers(r.slug, lost)
  BY <1>5
<1>7. r \in Results /\ (r.status = "resolved" => <<r.board, r.slug>> \in Answers(r.slug, lost))
  BY <1>3, ResolutionsTyped DEF TypeOK
<1>8. planner'[p].pc = "select" /\ planner'[p].name = n /\ planner'[p].result = r
  BY <1>6, PlannerTyped DEF TypeOK, Processes
<1> QED
  BY <1>3, <1>6, <1>7, <1>8 DEF Confirmed, WillBe

\* Where a row of the table may come from.
LEMMA AliasChanges ==
    ASSUME TypeOK, Trusted, NEW n \in Names, alias'[n] # NoRow, [Next]_vars, verified \subseteq verified'
    PROVE  /\ WillBe(alias'[n])
           /\ \/ alias'[n] = alias[n]
              \/ alias'[n].status # "resolved"
              \/ \E p \in Planners : WriteUpsert(p) /\ n = planner[p].name
              \/ Discover(n)
<1>1. CASE UNCHANGED alias
  BY <1>1 DEF Trusted, Confirmed, WillBe
<1>2. ASSUME NEW p \in Planners, WriteUpsert(p)
      PROVE  /\ WillBe(alias'[n])
             /\ n # planner[p].name => alias'[n] = alias[n]
  <2>1. PICK name, x, r : name = planner[p].name /\ x = planner[p].existing /\ r = planner[p].result
    OBVIOUS
  <2>2. name \in Names /\ r \in Results /\ Confirmed(r) /\ WriteAlias(name, x, r)
    BY <1>2, <2>1 DEF WriteUpsert, Trusted
  <2>3. CASE n # name
    BY <2>1, <2>2, <2>3, WriteAliasTyped DEF TypeOK, Trusted, Confirmed, WillBe
  <2>4. CASE n = name
    <3>1. alias'[n].status = "resolved" =>
            r.status = "resolved" /\ alias'[n].board = r.board /\ alias'[n].slug = r.slug
      BY <2>2, <2>4, WriteAliasTyped DEF TypeOK
    <3> QED BY <2>1, <2>2, <2>4, <3>1 DEF Confirmed, WillBe
  <2> QED BY <2>3, <2>4
<1>3. ASSUME NEW m \in Names, Discover(m)
      PROVE  /\ WillBe(alias'[n])
             /\ n # m => alias'[n] = alias[n]
  <2>1. PICK lost \in SUBSET live : \E r \in Results :
             /\ WriteAlias(m, alias[m], r)
             /\ verified' = verified \cup Answers(m, lost)
             /\ r.status = "resolved" => <<r.board, r.slug>> \in Answers(m, lost)
    BY <1>3, DiscoverWrites
  <2>2. PICK r \in Results :
             /\ WriteAlias(m, alias[m], r)
             /\ verified' = verified \cup Answers(m, lost)
             /\ r.status = "resolved" => <<r.board, r.slug>> \in Answers(m, lost)
    BY <2>1
  <2>3. PICK x : x = alias[m]
    OBVIOUS
  <2>4. /\ \A k \in Names \ {m} : alias'[k] = alias[k]
        /\ alias'[m] # NoRow /\ alias'[m].status = "resolved" =>
                r.status = "resolved" /\ alias'[m].board = r.board /\ alias'[m].slug = r.slug
    BY <2>2, <2>3, WriteAliasTyped DEF TypeOK
  <2>5. CASE n # m
    BY <2>4, <2>5 DEF Trusted, Confirmed, WillBe
  <2>6. CASE n = m
    BY <2>2, <2>4, <2>6 DEF Confirmed, WillBe
  <2> QED BY <2>4, <2>5, <2>6
<1>4. ASSUME NEW m \in Names, Age(m)
      PROVE  /\ WillBe(alias'[n])
             /\ alias'[n] = alias[n] \/ alias'[n].status # "resolved"
  <2>1. alias[m] \in AliasRows /\ alias[m].status = "unresolved"
        /\ alias' = [alias EXCEPT ![m].old = TRUE]
    BY <1>4 DEF Age, TypeOK
  <2>2. alias'[m].status = "unresolved" /\ (n # m => alias'[n] = alias[n])
    BY <2>1 DEF TypeOK, AliasRows
  <2> QED BY <2>2 DEF Trusted, Confirmed, WillBe
<1>5. \/ UNCHANGED alias \/ \E p \in Planners : WriteUpsert(p)
      \/ \E m \in Names : Discover(m) \/ Age(m)
  BY DEF Next, Plan, vars, PutProfile, PutSearch, PutPipelineEnabled, Save, Scrape, Move,
     StartPlan, Die, Lookup, WriteSelect, WriteBoard, EndResolve, SkipUser,
     Truncate, Materialize, MaterializePolicies, MaterializeProfile, WriteText, EnqueueSource, EndPlan,
     aliasVars
<1> QED
  BY <1>1, <1>2, <1>3, <1>4, <1>5

LEMMA TrustedStep ==
    ASSUME TypeOK, Trusted, Grows, [Next]_vars
    PROVE  Trusted'
<1>1. verified \subseteq verified'
  BY DEF Grows
<1>2. \A n \in Names : alias'[n] # NoRow => WillBe(alias'[n])
  BY <1>1, AliasChanges
<1> DEFINE Carries(q) == planner[q].pc \in {"select", "upsert", "board"} =>
      planner[q].name \in Names /\ planner[q].result \in Results /\ Confirmed(planner[q].result)
<1>3. ASSUME NEW q \in Planners, planner'[q] = planner[q]
      PROVE  Carries(q)'
  BY <1>1, <1>3 DEF Trusted, Confirmed, WillBe
<1>4. ASSUME NEW p \in Planners, WriteSelect(p) \/ WriteUpsert(p)
      PROVE  Carries(p)'
  <2>1. planner'[p].name = planner[p].name /\ planner'[p].result = planner[p].result
        /\ planner[p].pc \in {"select", "upsert"}
    <3>1. CASE WriteSelect(p)
      BY <3>1, PlannerTyped DEF WriteSelect, TypeOK, Processes
    <3>2. CASE WriteUpsert(p)
      <4>1. PICK pc \in {"board", "lookup"} : planner' = [planner EXCEPT ![p].pc = pc]
        BY <3>2 DEF WriteUpsert
      <4> QED BY <3>2, <4>1, PlannerTyped DEF WriteUpsert, TypeOK, Processes
    <3> QED BY <1>4, <3>1, <3>2
  <2> QED BY <1>1, <2>1 DEF Trusted, Confirmed, WillBe
<1>5. ASSUME NEW p \in Planners, Lookup(p)
      PROVE  Carries(p)'
  <2>1. planner'[p].pc # "lookup" => Carries(p)'
    BY <1>5, LookupTrusted DEF Confirmed, WillBe
  <2> QED BY <2>1
<1>6. ASSUME NEW p \in Planners,
             \/ StartPlan(p) \/ WriteBoard(p) \/ EndResolve(p) \/ SkipUser(p) \/ Truncate(p)
             \/ Materialize(p) \/ MaterializePolicies(p) \/ MaterializeProfile(p) \/ EnqueueSource(p) \/ EndPlan(p) \/ Die(p)
      PROVE  planner'[p].pc \notin {"select", "upsert", "board"}
  BY <1>6, PlainMoves
<1>7. ASSUME NEW p \in Planners, StartPlan(p) \/ Plan(p) \/ Die(p)
      PROVE  \A q \in Planners : Carries(q)'
  <2>1. \A q \in Planners \ {p} : Carries(q)'
    BY <1>3, <1>7, OthersStay
  <2>2. Carries(p)'
    BY <1>4, <1>5, <1>6, <1>7 DEF Plan
  <2> QED BY <2>1, <2>2
<1>8. \/ \E p \in Planners : StartPlan(p) \/ Plan(p) \/ Die(p)
      \/ UNCHANGED planner
  BY DEF Next, vars, PutProfile, PutSearch, PutPipelineEnabled, Save, Scrape, Discover, Age, Move
<1>9. \A q \in Planners : Carries(q)'
  <2>1. CASE UNCHANGED planner
    BY <1>3, <2>1
  <2> HIDE DEF Carries
  <2> QED BY <1>7, <1>8, <2>1
<1> QED
  BY <1>2, <1>9 DEF Trusted, Confirmed, WillBe

LEMMA ScrapesStep ==
    ASSUME TypeOK, Trusted, Sourced, ScrapesVerified, Grows, [Next]_vars
    PROVE  ScrapesVerified'
<1>1. ASSUME NEW job \in DOMAIN rows, Scrape(job)
      PROVE  ScrapesVerified'
  <2>1. PICK r \in Runs, u \in UserSet : job = <<r, u, "companies">> /\ rows[job] # None
    BY <1>1 DEF Scrape, TypeOK
  <2>2. PICK snap \in snaps[r] : Eligible(snap, u) /\ rows[job] = PipelineSearch(snap.search[u])["companies"]
    BY <2>1 DEF Sourced, Sources
  <2>3. snap \in Snapshots
    BY <2>2 DEF TypeOK
  <2>4. snap.search[u] \in Searches
    BY <2>1, <2>2, <2>3 DEF Eligible, Snapshots
  <2>5. rows[job] \subseteq Names
    BY <2>2, <2>4, SectionsTyped DEF Sources
  <2>6. \A n \in Names : Target(n) \subseteq verified
    BY DEF Trusted, Confirmed, WillBe, Target
  <2> QED BY <1>1, <2>5, <2>6 DEF Scrape, ScrapesVerified, aliasVars
<1>2. CASE UNCHANGED scraped
  BY <1>2 DEF ScrapesVerified, Grows
<1>3. (\E job \in DOMAIN rows : Scrape(job)) \/ UNCHANGED scraped
  BY DEF Next, Plan, vars, PutProfile, PutSearch, PutPipelineEnabled, Save, Discover, Age, Move,
     StartPlan, Die, Lookup, WriteSelect, WriteUpsert, WriteBoard, EndResolve, SkipUser,
     Truncate, Materialize, MaterializePolicies, MaterializeProfile, WriteText, EnqueueSource, EndPlan
<1> QED
  BY <1>1, <1>2, <1>3

-----------------------------------------------------------------------------
(* One planner at a time.                                                  *)

Single == \A p, q \in Planners : planner[p].pc # "idle" /\ planner[q].pc # "idle" => p = q
Faithful(p) ==
  planner[p].pc = "upsert" =>
    LET row == alias[planner[p].name] IN
    row # NoRow /\ row.status = "resolved" => planner[p].existing = row

LEMMA AloneIs == Alone <=> (Overlap \/ (Single /\ \A p \in Planners : Faithful(p)))
  BY PlanningAssumption DEF Alone, Single, Faithful

LEMMA SingleStep ==
    ASSUME TypeOK, ~Overlap, Single, [Next]_vars
    PROVE  Single'
<1>1. ASSUME NEW p \in Planners, StartPlan(p) \/ Plan(p) \/ Die(p)
      PROVE  Single'
  <2>1. \A q \in Planners \ {p} : planner[q].pc = "idle"
    <3>1. CASE StartPlan(p)
      BY <3>1 DEF StartPlan
    <3>2. CASE Plan(p) \/ Die(p)
      <4>1. planner[p].pc # "idle"
        BY <3>2 DEF Plan, Die, Lookup, WriteSelect, WriteUpsert, WriteBoard, EndResolve, SkipUser,
           Truncate, Materialize, MaterializePolicies, MaterializeProfile, WriteText, EnqueueSource, EndPlan
      <4> QED BY <4>1 DEF Single
    <3> QED BY <1>1, <3>1, <3>2
  <2>2. \A q \in Planners \ {p} : planner'[q].pc = "idle"
    BY <1>1, <2>1, OthersStay
  <2> QED BY <2>2 DEF Single
<1>2. CASE UNCHANGED planner
  BY <1>2 DEF Single
<1>3. \/ \E p \in Planners : StartPlan(p) \/ Plan(p) \/ Die(p)
      \/ UNCHANGED planner
  BY DEF Next, vars, PutProfile, PutSearch, PutPipelineEnabled, Save, Scrape, Discover, Age, Move
<1> QED
  BY <1>1, <1>2, <1>3

LEMMA SelectReads ==
    ASSUME TypeOK, Trusted, NEW p \in Planners, WriteSelect(p)
    PROVE  Faithful(p)'
<1>1. PICK n : n = planner[p].name
  OBVIOUS
<1>2. planner'[p].name = n /\ planner'[p].existing = alias[n] /\ UNCHANGED alias
  BY <1>1, PlannerTyped DEF WriteSelect, TypeOK, Processes, aliasVars
<1> QED
  BY <1>2 DEF Faithful

LEMMA FaithfulStep ==
    ASSUME TypeOK, Trusted, ~Overlap, Single, \A p \in Planners : Faithful(p), [Next]_vars,
           verified \subseteq verified',
           NEW q \in Planners
    PROVE  Faithful(q)'
<1> SUFFICES ASSUME planner'[q].pc = "upsert"
             PROVE  Faithful(q)'
  BY DEF Faithful
<1>1. CASE \E p \in Planners : WriteSelect(p)
  <2>1. PICK p \in Planners : WriteSelect(p)
    BY <1>1
  <2>2. CASE q = p
    BY <2>1, <2>2, SelectReads
  <2>3. CASE q # p
    <3>1. planner'[q] = planner[q] /\ planner[p].pc = "select"
      BY <2>1, <2>3, OthersStay DEF Plan, WriteSelect
    <3> QED BY <2>3, <3>1 DEF Single
  <2> QED BY <2>2, <2>3
<1>2. ASSUME NEW p \in Planners, StartPlan(p) \/ Plan(p) \/ Die(p), ~WriteSelect(p)
      PROVE  FALSE
  <2>1. ASSUME q # p
        PROVE  FALSE
    <3>1. planner[q].pc = "upsert"
      BY <1>2, <2>1, OthersStay
    <3>2. StartPlan(p) => planner[q].pc = "idle"
      BY DEF StartPlan
    <3>3. ~StartPlan(p) => planner[p].pc # "idle"
      BY <1>2 DEF Plan, Die, Lookup, WriteSelect, WriteUpsert, WriteBoard, EndResolve, SkipUser,
         Truncate, Materialize, MaterializePolicies, MaterializeProfile, WriteText, EnqueueSource, EndPlan
    <3> QED BY <2>1, <3>1, <3>2, <3>3 DEF Single
  <2>2. planner'[p].pc # "upsert"
    BY <1>2, PlainMoves, LookupMoves DEF Plan
  <2> QED BY <2>1, <2>2
<1>3. CASE UNCHANGED planner
  <2>1. PICK n : n = planner[q].name
    OBVIOUS
  <2>2. planner[q].pc = "upsert" /\ planner'[q].name = n /\ n \in Names
        /\ planner'[q].existing = planner[q].existing
    BY <1>3, <2>1 DEF Trusted
  <2>3. ASSUME alias'[n] # NoRow, alias'[n].status = "resolved"
        PROVE  alias'[n] = alias[n]
    <3>1. ~Discover(n)
      BY <2>2 DEF Discover
    <3>2. ~\E p \in Planners : WriteUpsert(p)
      <4> SUFFICES ASSUME NEW p \in Planners, WriteUpsert(p) PROVE FALSE
        OBVIOUS
      <4> QED BY <1>2, <1>3, <2>2 DEF Plan, WriteUpsert, WriteSelect
    <3> QED BY <2>2, <2>3, <3>1, <3>2, AliasChanges
  <2>4. alias[n] # NoRow /\ alias[n].status = "resolved" => planner[q].existing = alias[n]
    BY <2>1, <2>2 DEF Faithful
  <2> QED BY <2>2, <2>3, <2>4 DEF Faithful
<1>4. \/ \E p \in Planners : StartPlan(p) \/ Plan(p) \/ Die(p)
      \/ UNCHANGED planner
  BY DEF Next, vars, PutProfile, PutSearch, PutPipelineEnabled, Save, Scrape, Discover, Age, Move
<1> QED
  BY <1>1, <1>2, <1>3, <1>4

LEMMA AloneStep ==
    ASSUME TypeOK, Trusted, Alone, Grows, [Next]_vars
    PROVE  Alone'
<1>1. CASE Overlap
  BY <1>1 DEF Alone
<1>2. CASE ~Overlap
  <2>1. Single /\ (\A p \in Planners : Faithful(p)) /\ verified \subseteq verified'
    BY <1>2, AloneIs DEF Grows
  <2>2. Single'
    BY <1>2, <2>1, SingleStep
  <2>3. \A p \in Planners : Faithful(p)'
    BY <1>2, <2>1, FaithfulStep
  <2> QED BY <2>2, <2>3 DEF Alone, Single, Faithful
<1> QED
  BY <1>1, <1>2

\* A write that knows the row does not give a resolved name another slug.
LEMMA WriteKeepsSlug ==
    ASSUME alias \in [Names -> AliasRows \cup {NoRow}], NEW n \in Names, NEW r \in Results,
           alias[n] # NoRow, alias[n].status = "resolved", alias'[n].status = "resolved",
           NEW row, row = alias[n], WriteAlias(n, row, r)
    PROVE  alias'[n].slug = alias[n].slug
<1>1. ~Collides(row, r) /\ alias'[n].status = r.status /\ alias'[n].slug = r.slug
  BY WriteAliasTyped
<1> QED
  BY <1>1 DEF Collides

LEMMA FiniteStep ==
    ASSUME TypeOK, Finite, [Next]_vars
    PROVE  Finite'
<1>1. ASSUME NEW p \in Planners, StartPlan(p)
      PROVE  Finite'
  <2>1. PICK snap : snap = [profile |-> profile, search |-> search, enabled |-> enabled]
    OBVIOUS
  <2>2. PICK r \in Runs : snaps' = [snaps EXCEPT ![r] = @ \cup {snap}]
    BY <1>1, <2>1 DEF StartPlan
  <2>3. IsFiniteSet(snaps[r] \cup {snap})
    BY FS_AddElement DEF Finite
  <2> QED BY <2>2, <2>3 DEF Finite, TypeOK
<1>2. CASE UNCHANGED snaps
  BY <1>2 DEF Finite
<1>3. (\E p \in Planners : StartPlan(p)) \/ UNCHANGED snaps
  BY DEF Next, Plan, vars, PutProfile, PutSearch, PutPipelineEnabled, Save, Scrape, Discover, Age, Move,
     Die, Lookup, WriteSelect, WriteUpsert, WriteBoard, EndResolve, SkipUser,
     Truncate, Materialize, MaterializePolicies, MaterializeProfile, WriteText, EnqueueSource, EndPlan
<1> QED
  BY <1>1, <1>2, <1>3

-----------------------------------------------------------------------------
(* The theorems.                                                           *)

LEMMA InitInv == Init => Inv
<1> SUFFICES ASSUME Init PROVE Inv
  OBVIOUS
<1>1. TypeOK
  BY InitType
<1>2. \A p \in Planners : planner[p].pc = "idle"
  BY DEF Init, Idle
<1>3. Trusted
  BY <1>2 DEF Init, Trusted
<1>4. Sourced
  BY DEF Init, Sourced
<1>5. Placed
  BY <1>2 DEF Init, Idle, Placed, Held, Opened, Delivering
<1>6. Alone
  BY <1>2 DEF Alone
<1>7. Finite
  BY FS_EmptySet DEF Init, Finite
<1>9. Explained
  BY PlanningAssumption DEF Init, NoFiles, Explained, Files
<1>8. ScrapesVerified /\ PlanComplete
  BY DEF Init, ScrapesVerified, PlanComplete
<1> QED
  BY <1>1, <1>3, <1>4, <1>5, <1>6, <1>7, <1>8, <1>9 DEF Inv

LEMMA InvStep == Inv /\ [Next]_vars => Inv'
<1> SUFFICES ASSUME Inv, [Next]_vars PROVE Inv'
  OBVIOUS
<1>1. /\ TypeOK /\ Trusted /\ Sourced /\ Placed /\ Alone /\ Explained /\ Finite
      /\ ScrapesVerified /\ PlanComplete
  BY DEF Inv
<1>2. Grows
  BY <1>1, GrowsStep
<1> QED
  BY <1>1, <1>2, TypeStep, TrustedStep, SourcedStep, PlacedStep, AloneStep, ExplainedStep, FiniteStep,
     ScrapesStep, CompleteStep DEF Inv

\* Types, provenance and the planners' places hold throughout: the settings
\* page, the alias table, the artifacts, the rows and the planners stay what
\* the code takes them for, whatever dies.
THEOREM InvHolds == Spec => []Inv
  BY InitInv, InvStep, PTL DEF Spec

\* No board is scraped for a slug no probe has confirmed (AliasCache.write and
\* resolve on one side, load_config and default_scrape_fn on the other).
THEOREM ScrapesVerifiedHolds == Spec => []ScrapesVerified
<1>1. Inv => ScrapesVerified
  BY DEF Inv
<1> QED
  BY <1>1, InvHolds, PTL

\* A plan that finishes has a row for each section of each user it found
\* eligible (plan_run), after any number of plans that did not.
THEOREM PlanCompleteHolds == Spec => []PlanComplete
<1>1. Inv => PlanComplete
  BY DEF Inv
<1> QED
  BY <1>1, InvHolds, PTL

\* Under one snapshot, the rows of a user and the artifacts beside them come from
\* the same search, and a file that is torn beside them is being written or was
\* left so by a planner that died there (_materialize_user, enqueue).
THEOREM RowsMatchFilesHolds == Spec => []RowsMatchFiles
<1>1. ASSUME Inv, NEW r \in Runs, Cardinality(snaps[r]) = 1, NEW u \in UserSet,
             \E k \in Sources : rows[<<r, u, k>>] # None
      PROVE  /\ files[<<r, u>>].profile \in {Torn, "whole"}
             /\ \E s \in Searches :
                  /\ files[<<r, u>>].search \in {Torn, PipelineSearch(s)}
                  /\ files[<<r, u>>].policies \in {Torn, DerivePolicies(s)}
                  /\ \A k \in Sources : rows[<<r, u, k>>] \in {None, PipelineSearch(s)[k]}
  <2>1. IsFiniteSet(snaps[r])
    BY <1>1 DEF Inv, Finite
  <2>2. PICK snap : snaps[r] = {snap}
    BY <1>1, <2>1, FS_Singleton
  <2>3. /\ Eligible(snap, u) /\ Written(r, u) /\ Policied(r, u) /\ Profiled(r, u)
        /\ \A k \in Sources : rows[<<r, u, k>>] \in {None, PipelineSearch(snap.search[u])[k]}
    BY <1>1, <2>2 DEF Inv, Sourced
  <2>4. snap.search[u] \in Searches
    BY <1>1, <2>2, <2>3 DEF Inv, TypeOK, Snapshots, Eligible
  <2>5. /\ files[<<r, u>>].search \in {Torn, PipelineSearch(snap.search[u])}
        /\ files[<<r, u>>].policies \in {Torn, DerivePolicies(snap.search[u])}
    BY <2>2, <2>3 DEF Written, Policied
  <2> QED BY <2>3, <2>4, <2>5 DEF Profiled
<1>2. Inv => RowsMatchFiles
  BY <1>1 DEF RowsMatchFiles, Inv, Explained, Writing
<1> QED
  BY <1>2, InvHolds, PTL

\* While no two planners and no discovery overlap, a name resolved to one slug is
\* not resolved to another by one write (AliasCache.write flags it); a planner
\* that reads before another's write and writes after it could do so.
THEOREM NoRepointHolds ==
    ASSUME ~Overlap
    PROVE  Spec => NoRepoint
<1> DEFINE Keeps(n) ==
      (alias[n] # NoRow /\ alias[n].status = "resolved"
         /\ alias'[n].status = "resolved") => alias'[n].slug = alias[n].slug
<1>1. ASSUME Inv, [Next]_vars, NEW n \in Names
      PROVE  Keeps(n)
  <2> SUFFICES ASSUME alias[n] # NoRow, alias[n].status = "resolved", alias'[n].status = "resolved"
               PROVE  alias'[n].slug = alias[n].slug
    OBVIOUS
  <2>1. TypeOK /\ Trusted /\ \A p \in Planners : Faithful(p)
    BY <1>1, AloneIs DEF Inv
  <2>2. ASSUME NEW p \in Planners, WriteUpsert(p)
        PROVE  alias'[n].slug = alias[n].slug
    <3>1. PICK name, x, r : name = planner[p].name /\ x = planner[p].existing /\ r = planner[p].result
      OBVIOUS
    <3>2. /\ name \in Names /\ r \in Results /\ WriteAlias(name, x, r)
          /\ alias[name] # NoRow /\ alias[name].status = "resolved" => x = alias[name]
      BY <2>1, <2>2, <3>1 DEF WriteUpsert, Trusted, Faithful
    <3>3. CASE n = name
      BY <2>1, <3>2, <3>3, WriteKeepsSlug DEF TypeOK
    <3>4. CASE n # name
      BY <2>1, <3>2, <3>4, WriteAliasTyped DEF TypeOK
    <3> QED BY <3>3, <3>4
  <2>3. ASSUME NEW m \in Names, Discover(m)
        PROVE  alias'[n].slug = alias[n].slug
    <3>1. PICK row : row = alias[m]
      OBVIOUS
    <3>2. PICK r \in Results : WriteAlias(m, row, r)
      BY <2>1, <2>3, <3>1, DiscoverWrites
    <3>3. CASE n = m
      BY <2>1, <3>1, <3>2, <3>3, WriteKeepsSlug DEF TypeOK
    <3>4. CASE n # m
      BY <2>1, <3>2, <3>4, WriteAliasTyped DEF TypeOK
    <3> QED BY <3>3, <3>4
  <2>4. ASSUME NEW m \in Names, Age(m)
        PROVE  alias'[n].slug = alias[n].slug
    <3>1. n # m /\ alias' = [alias EXCEPT ![m].old = TRUE]
      BY <2>4 DEF Age
    <3> QED BY <2>1, <3>1 DEF TypeOK
  <2>5. \/ UNCHANGED alias \/ \E p \in Planners : WriteUpsert(p)
        \/ \E m \in Names : Discover(m) \/ Age(m)
    BY <1>1 DEF Next, Plan, vars, PutProfile, PutSearch, PutPipelineEnabled, Save, Scrape, Move,
       StartPlan, Die, Lookup, WriteSelect, WriteBoard, EndResolve, SkipUser,
       Truncate, Materialize, MaterializePolicies, MaterializeProfile, WriteText, EnqueueSource, EndPlan,
     aliasVars
  <2> QED BY <2>2, <2>3, <2>4, <2>5
<1>2. Inv /\ [Next]_vars => [\A n \in Names : Keeps(n)]_vars
  BY <1>1
<1> QED
  BY <1>2, InvHolds, PTL DEF Spec, NoRepoint
=============================================================================
