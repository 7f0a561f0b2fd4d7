---------------------------- MODULE ScoringProofs ---------------------------
(***************************************************************************)
(* What classification and scoring guarantee for any number of users,      *)
(* postings, attempts and threads, and wherever an attempt ends.           *)
(***************************************************************************)
EXTENDS Scoring, FiniteSetTheorems, WellFoundedInduction, TLAPS

-----------------------------------------------------------------------------
(* The values of the state.                                                *)

Pcs == {"down", "classify", "gate", "score", "stamp", "done"}
Serving == {"gate", "score", "stamp"}

IsFile(file) == file = [entries |-> file.entries, torn |-> file.torn]
IsRecord(r) ==
  /\ r = [p |-> r.p, ana |-> r.ana, by |-> r.by, stamp |-> r.stamp]
  /\ r.p \in Postings /\ r.by \in Nat

\* Every variable has a value of its type.
TypeOK ==
  /\ job = [pc |-> job.pc, batch |-> job.batch, mem |-> job.mem, todo |-> job.todo,
            flight |-> job.flight, results |-> job.results, users |-> job.users, pol |-> job.pol]
  /\ job.pc \in Pcs /\ job.todo \subseteq Postings /\ job.flight \subseteq Postings
  /\ job.users \subseteq UserSet /\ (job.pc = "score" => \A r \in job.results : IsRecord(r))
  /\ IsFile(remoteCache) /\ IsFile(fitCache)
  /\ \A r \in classified : r.p \in Postings
  /\ input \in [UserSet -> SUBSET Postings] /\ out = [u \in UserSet |-> out[u]]
  /\ \A u \in UserSet : \A r \in out[u] : IsRecord(r)
  /\ verdict \in [UserSet -> {"none", "skipped", "scored", "failed"}]
  /\ attempt \in Nat

-----------------------------------------------------------------------------
(* The inductive invariant.                                                *)

\* What is cached under a key was asked for that key.
Honest(entries, kind) == \A e \in entries : e[1][1] = kind /\ e[2].asked = e[1]
Caches ==
  /\ Honest(remoteCache.entries, "remote") /\ Honest(fitCache.entries, "fit")
  /\ job.pc = "classify" => Honest(job.mem, "remote")
  /\ job.pc = "score" => Honest(job.mem, "fit")

\* What has been answered is in its cache, and not to be asked again.
Bought ==
  /\ \A k \in taken : Hit(remoteCache.entries, k) \/ Hit(fitCache.entries, k)
  /\ Pooling => \A p \in job.todo : Asked(p) \notin taken

\* The classification is of this attempt's union.
OfUnion(lines) == \A r \in lines : r.p \in Postings /\ r.ana.asked = AskedRemote(r.p, union, setup)
Lines ==
  /\ job.pc = "classify" => OfUnion(job.results) /\ (job.batch \/ classified = job.results)
  /\ job.pc \in Serving => OfUnion(classified)

\* A set of records has one for a posting, and those of this attempt are u's.
OneEach(records) == \A r, s \in records : r.p = s.p => r = s
Own(records, u) ==
  \A r \in records : /\ r.by <= attempt
                     /\ r.by = attempt /\ r.ana # Failed => r.ana.asked = AskedFit(r.p, u)
Of(records) == {r.p : r \in records}

Records == \A u \in UserSet : OneEach(out[u]) /\ Own(out[u], u)

\* The posting of a user being scored is to do, in flight or a record; a
\* batch is all to do or all in flight.
Pool ==
  /\ job.todo \cap job.flight = {} /\ (Pooling \/ job.flight = {})
  /\ job.batch => job.pc \notin Serving /\ (job.todo = {} \/ job.flight = {})
  /\ job.pc = "score" =>
       /\ OneEach(job.results) /\ Own(job.results, User)
       /\ Of(job.results) \cap (job.todo \cup job.flight) = {}
       /\ Of(job.results) \cup job.todo \cup job.flight = input[User] \cup Locals
  /\ job.pc = "stamp" => Of(out[User]) = input[User] \cup Locals

\* Who is not through yet has no verdict, who has been scored a whole file.
Waiting ==
  /\ job.pc \in Serving => job.users # {}
  /\ job.pc \in Serving => \A u \in job.users : verdict[u] = "none"
  /\ job.pc = "classify" => \A u \in UserSet : verdict[u] = "none"
Served ==
  \A u \in UserSet : verdict[u] = "scored" =>
    Of(out[u]) = input[u] \cup Locals /\ \A r \in out[u] : r.stamp = u

Inv == TypeOK /\ Caches /\ Bought /\ Lines /\ Records /\ Pool /\ Waiting /\ Served

-----------------------------------------------------------------------------
(* Lemmas about the operators.                                             *)

LEMMA LeastExists ==
  ASSUME NEW T \in SUBSET Nat, T # {}
  PROVE  \E x \in T : \A y \in T : x <= y
<1>1. PICK R : IsWellFoundedOn(R, Nat) /\ \A x, y \in Nat : <<y, x>> \in R <=> y < x
  <2> DEFINE Less == OpToRel(<, Nat)
  <2>1. IsWellFoundedOn(Less, Nat)
    BY NatLessThanWellFounded
  <2>2. \A x, y \in Nat : <<y, x>> \in Less <=> y < x
    BY DEF OpToRel
  <2> HIDE DEF Less
  <2> QED
    BY <2>1, <2>2
<1>2. \E x \in T : \A y \in T : ~ (<<y, x>> \in R)
  BY <1>1, WFMin
<1>3. PICK x \in T : \A y \in T : ~ (<<y, x>> \in R)
  BY <1>2
<1>4. ASSUME NEW y \in T PROVE x <= y
  <2>1. x \in Nat /\ y \in Nat
    OBVIOUS
  <2>2. ~(y < x)
    BY <1>1, <1>3, <2>1
  <2> QED
    BY <2>1, <2>2
<1> QED
  BY <1>4

(* Of some users there is always a first.                                  *)
LEMMA EarliestIn ==
  ASSUME NEW us \in SUBSET UserSet, us # {}
  PROVE  Earliest(us) \in us
<1> DEFINE T == {i \in DOMAIN Users : Users[i] \in us}
<1>1. DOMAIN Users = 1..Len(Users) /\ Len(Users) \in Nat
  BY ScoringAssumption
<1>2. T \in SUBSET Nat /\ T # {}
  BY <1>1 DEF UserSet
<1>3. PICK i \in T : \A j \in T : i <= j
  <2> HIDE DEF T
  <2> QED
    BY <1>2, LeastExists
<1>4. \A j \in 1..(i-1) : Users[j] \notin us
  BY <1>1, <1>3
<1>5. \E k \in DOMAIN Users : Users[k] \in us /\ \A j \in 1..(k-1) : Users[j] \notin us
  BY <1>3, <1>4
<1> QED
  BY <1>5 DEF Earliest

LEMMA UserIn ==
  ASSUME job.users \subseteq UserSet, job.users # {}
  PROVE  User \in job.users /\ User \in UserSet
BY EarliestIn DEF User

(* A put keeps every other key, and a cache honest.                        *)
LEMMA HitWith ==
  ASSUME NEW E, NEW k, NEW a, NEW x
  PROVE  Hit(With(E, k, a), x) <=> Hit(E, x) \/ x = k
<1>1. ASSUME Hit(E, x), x # k PROVE Hit(With(E, k, a), x)
  <2>1. PICK e \in E : e[1] = x
    BY <1>1 DEF Hit
  <2>2. e \in With(E, k, a)
    BY <1>1, <2>1 DEF With
  <2> QED
    BY <2>1, <2>2 DEF Hit
<1>2. ASSUME x = k PROVE Hit(With(E, k, a), x)
  <2>1. <<k, a>> \in With(E, k, a) /\ <<k, a>>[1] = k
    BY DEF With
  <2> QED
    BY <1>2, <2>1 DEF Hit
<1>3. ASSUME Hit(With(E, k, a), x) PROVE Hit(E, x) \/ x = k
  <2>1. PICK e \in With(E, k, a) : e[1] = x
    BY <1>3 DEF Hit
  <2>2. CASE e \in E
    BY <2>1, <2>2 DEF Hit
  <2>3. CASE e = <<k, a>>
    BY <2>1, <2>3
  <2> QED
    BY <2>1, <2>2, <2>3 DEF With
<1> QED
  BY <1>1, <1>2, <1>3

LEMMA HonestWith ==
  ASSUME NEW E, NEW kind, Honest(E, kind), NEW k, NEW a, k[1] = kind, a.asked = k
  PROVE  Honest(With(E, k, a), kind)
<1> SUFFICES ASSUME NEW e \in With(E, k, a)
             PROVE  e[1][1] = kind /\ e[2].asked = e[1]
  BY DEF Honest
<1>1. CASE e \in E
  BY <1>1 DEF Honest
<1>2. CASE e = <<k, a>>
  <2>1. e[1] = k /\ e[2] = a
    BY <1>2
  <2> QED
    BY <2>1
<1> QED
  BY <1>1, <1>2 DEF With

LEMMA GetRight ==
  ASSUME NEW E, NEW kind, Honest(E, kind), NEW k, Hit(E, k)
  PROVE  Get(E, k).asked = k
<1> DEFINE e == CHOOSE d \in E : d[1] = k
<1>1. e \in E /\ e[1] = k
  BY DEF Hit
<1>2. e[2].asked = k
  BY <1>1 DEF Honest
<1> QED
  BY <1>2 DEF Get

LEMMA KindOfHit ==
  ASSUME NEW E, NEW kind, Honest(E, kind), NEW k, Hit(E, k)
  PROVE  k[1] = kind
BY DEF Hit, Honest

(* What is put is in the file, unless the file ends in part of a line.     *)
LEMMA PutKeeps ==
  ASSUME NEW file, IsFile(file), NEW k, NEW a, NEW kind, Honest(file.entries, kind),
         k[1] = kind, a.asked = k
  PROVE  /\ IsFile(Put(file, k, a)) /\ Honest(Put(file, k, a).entries, kind)
         /\ \A x : Hit(file.entries, x) => Hit(Put(file, k, a).entries, x)
         /\ ~file.torn => Hit(Put(file, k, a).entries, k)
<1>1. CASE file.torn
  <2>1. Put(file, k, a) = [entries |-> file.entries, torn |-> FALSE]
    BY <1>1 DEF Put, AppendLine, IsFile
  <2> QED
    BY <1>1, <2>1 DEF IsFile
<1>2. CASE ~file.torn
  <2> DEFINE after == With(file.entries, k, a)
  <2>1. Put(file, k, a) = [entries |-> after, torn |-> file.torn]
    BY <1>2 DEF Put, AppendLine, IsFile
  <2>2. Honest(after, kind) /\ Hit(after, k) /\ \A x : Hit(file.entries, x) => Hit(after, x)
    BY HonestWith, HitWith
  <2> HIDE DEF after
  <2> QED
    BY <2>1, <2>2 DEF IsFile
<1> QED
  BY <1>1, <1>2

-----------------------------------------------------------------------------
(* The start of an attempt, and its end, wherever it is.                   *)

LEMMA InitHolds ==
  Init => Inv
<1> SUFFICES ASSUME Init PROVE Inv
  OBVIOUS
<1>1. TypeOK
  BY DEF Init, TypeOK, Down, Pcs, IsFile, Empty
<1>2. Caches /\ Bought
  BY DEF Init, Caches, Bought, Down, Empty, Honest, Pooling
<1>3. Lines /\ Pool /\ Waiting
  BY DEF Init, Lines, Pool, Waiting, Down, Pooling, Serving
<1>4. Records /\ Served
  BY DEF Init, Records, Served, OneEach, Own
<1> QED
  BY <1>1, <1>2, <1>3, <1>4 DEF Inv

(* Records that were one's own are still, in this attempt or the next.     *)
LEMMA OwnStays ==
  ASSUME NEW records, NEW u, Own(records, u), UNCHANGED <<setup, profile, attempt>>
  PROVE  Own(records, u)'
BY DEF Own, AskedFit

LEMMA RecordsStay ==
  ASSUME Records, UNCHANGED <<setup, profile, attempt, out>>
  PROVE  Records'
BY OwnStays DEF Records, Own, AskedFit

(* An old record's attempt is over.                                        *)
LEMMA Outdated ==
  ASSUME TypeOK, Records, attempt' = attempt + 1,
         \A u \in UserSet : out'[u] = out[u] \/ out'[u] = {}
  PROVE  Records'
<1> SUFFICES ASSUME NEW u \in UserSet
             PROVE  OneEach(out'[u]) /\ \A r \in out'[u] : r.by <= attempt' /\ r.by # attempt'
  BY DEF Records, Own
<1>1. CASE out'[u] = out[u]
  <2>1. attempt \in Nat /\ \A r \in out[u] : r.by \in Nat /\ r.by <= attempt
    BY DEF TypeOK, IsRecord, Records, Own
  <2> QED
    BY <1>1, <2>1 DEF Records
<1>2. CASE out'[u] = {}
  BY <1>2 DEF OneEach
<1> QED
  BY <1>1, <1>2

LEMMA StartStep ==
  ASSUME Inv, NEW fresh \in BOOLEAN, Start(fresh)
  PROVE  Inv'
<1> DEFINE keys == [p \in Described(union') |-> RemoteKey(p, union', setup')]
           hits == HitPostings(keys, remoteCache.entries)
           lines == {Classified(p, Get(remoteCache.entries, keys[p])) : p \in hits}
<1>1. PICK batch \in Batches : Classify(union', setup', batch)
  BY DEF Start
<1>2. /\ job' = [Down EXCEPT !.pc = "classify", !.batch = batch, !.mem = remoteCache.entries,
                             !.todo = Described(union') \ hits, !.results = lines]
      /\ batch \/ classified' = lines
  BY <1>1 DEF Classify, Load
<1>3. hits \subseteq Described(union') /\ Described(union') \subseteq Postings
  BY DEF HitPostings, Described, Found
<1>4. \A p \in hits : Hit(remoteCache.entries, AskedRemote(p, union', setup'))
  BY DEF HitPostings, RemoteKey
<1>5. \A r \in lines : r.p \in Postings /\ r.ana.asked = AskedRemote(r.p, union', setup')
  <2> SUFFICES ASSUME NEW p \in hits
               PROVE  LET r == Classified(p, Get(remoteCache.entries, keys[p])) IN
                        r.p \in Postings /\ r.ana.asked = AskedRemote(r.p, union', setup')
    OBVIOUS
  <2>1. keys[p] = AskedRemote(p, union', setup')
    BY <1>3 DEF RemoteKey
  <2>2. Get(remoteCache.entries, keys[p]).asked = keys[p]
    BY <1>4, <2>1, GetRight DEF Inv, Caches
  <2> HIDE DEF keys
  <2> QED
    BY <1>3, <2>1, <2>2 DEF Classified
<1>6. \A p \in Described(union') \ hits : ~ Hit(remoteCache.entries, AskedRemote(p, union', setup'))
  BY DEF HitPostings, RemoteKey
<1> HIDE DEF hits, lines
<1>7. /\ job'.pc = "classify" /\ job'.batch = batch /\ job'.mem = remoteCache.entries
      /\ job'.todo = Described(union') \ hits /\ job'.flight = {} /\ job'.results = lines
      /\ job'.users = {} /\ job' = [pc |-> job'.pc, batch |-> job'.batch, mem |-> job'.mem,
           todo |-> job'.todo, flight |-> job'.flight, results |-> job'.results,
           users |-> job'.users, pol |-> job'.pol]
  BY <1>2 DEF Down
<1>8. /\ UNCHANGED <<remoteCache, fitCache, taken>> /\ attempt' = attempt + 1
      /\ verdict' = [u \in UserSet |-> "none"]
      /\ input' \in [UserSet -> SUBSET Postings]
      /\ out' = [u \in UserSet |-> out'[u]]
      /\ \A u \in UserSet : out'[u] = out[u] \/ out'[u] = {}
  BY DEF Start, Inv, TypeOK
<1>9. TypeOK'
  <2>1. \A r \in classified' : r.p \in Postings
    <3>1. classified' = classified \/ classified' = lines
      BY <1>1 DEF Classify, Load, lines, hits
    <3> QED
      BY <3>1, <1>5 DEF Inv, TypeOK
  <2>2. \A u \in UserSet : \A r \in out'[u] : IsRecord(r)
    BY <1>8 DEF Inv, TypeOK
  <2>3. IsFile(remoteCache') /\ IsFile(fitCache')
    BY <1>8 DEF Inv, TypeOK
  <2>4. job'.pc \in Pcs /\ job'.pc # "score" /\ job'.todo \subseteq Postings
    BY <1>3, <1>7 DEF Pcs
  <2>5. attempt' \in Nat /\ verdict' \in [UserSet -> {"none", "skipped", "scored", "failed"}]
    BY <1>8 DEF Inv, TypeOK
  <2> QED
    BY <1>7, <1>8, <2>1, <2>2, <2>3, <2>4, <2>5 DEF TypeOK
<1>10. Caches'
  BY <1>7, <1>8 DEF Inv, Caches
<1>11. Bought'
  <2>1. ASSUME NEW p \in job'.todo PROVE Asked(p)' \notin taken
    <3>1. Asked(p)' = AskedRemote(p, union', setup') /\ Asked(p)'[1] = "remote"
      BY <1>7 DEF Asked, AskedRemote
    <3>2. ~ Hit(remoteCache.entries, Asked(p)')
      BY <1>6, <1>7, <2>1, <3>1
    <3>3. ~ Hit(fitCache.entries, Asked(p)')
      BY <3>1, KindOfHit DEF Inv, Caches
    <3> QED
      BY <3>2, <3>3 DEF Inv, Bought
  <2> QED
    BY <1>8, <2>1 DEF Inv, Bought
<1>12. Lines'
  BY <1>2, <1>5, <1>7 DEF Lines, OfUnion, Serving
<1>13. Records'
  BY <1>8, Outdated DEF Inv
<1>14. Pool' /\ Waiting' /\ Served'
  BY <1>7, <1>8 DEF Pool, Waiting, Served, Serving
<1> QED
  BY <1>9, <1>10, <1>11, <1>12, <1>13, <1>14 DEF Inv

-----------------------------------------------------------------------------
(* The pool.                                                               *)

\* Calls move into flight, those of a batch together, and nothing else.
Takes(ps) ==
  /\ Pooling /\ ps \subseteq job.todo /\ (job.batch => ps = job.todo)
  /\ job' = [job EXCEPT !.todo = @ \ ps, !.flight = @ \cup ps]
  /\ UNCHANGED <<world, files, verdict, taken, bounds>>

LEMMA SubmitTakes ==
  ASSUME Inv, NEW p, Submit(p)
  PROVE  Takes({p})
BY DEF Submit, Takes

LEMMA BatchTakes ==
  ASSUME Inv, SubmitBatch
  PROVE  Takes(job.todo)
<1>1. job.flight = {}
  BY DEF SubmitBatch, Inv, Pool
<1>2. [job EXCEPT !.todo = {}, !.flight = job.todo]
        = [job EXCEPT !.todo = @ \ job.todo, !.flight = @ \cup job.todo]
  BY <1>1
<1> QED
  BY <1>2 DEF SubmitBatch, Takes

LEMMA TakesStep ==
  ASSUME Inv, NEW ps, Takes(ps)
  PROVE  Inv'
<1>1. /\ job'.pc = job.pc /\ job'.batch = job.batch /\ job'.mem = job.mem
      /\ job'.todo = job.todo \ ps /\ job'.flight = job.flight \cup ps
      /\ job'.results = job.results /\ job'.users = job.users
      /\ job' = [pc |-> job'.pc, batch |-> job'.batch, mem |-> job'.mem,
           todo |-> job'.todo, flight |-> job'.flight, results |-> job'.results,
           users |-> job'.users, pol |-> job'.pol]
  BY DEF Takes, Inv, TypeOK
<1>2. /\ UNCHANGED <<union, wanted, profile, setup, remoteCache, fitCache, classified, input, out>>
      /\ UNCHANGED <<verdict, taken, attempt>>
  BY DEF Takes, world, files, bounds
<1>3. User' = User /\ \A p : Asked(p)' = Asked(p)
  BY <1>1, <1>2 DEF User, Asked, AskedFit, AskedRemote
<1>4. ps \subseteq job.todo /\ Pooling /\ Pooling'
  BY <1>1 DEF Takes, Pooling
<1>5. TypeOK'
  BY <1>1, <1>2, <1>4 DEF Inv, TypeOK
<1>6. Caches' /\ Lines'
  BY <1>1, <1>2 DEF Inv, Caches, Lines, OfUnion
<1>7. Bought'
  BY <1>1, <1>2, <1>3, <1>4 DEF Inv, Bought
<1>8. Records' /\ Served'
  BY <1>2, RecordsStay DEF Inv, Served
<1>9. Pool'
  <2>1. Own(job.results, User) => Own(job.results, User)'
    BY <1>1, <1>2, <1>3 DEF Own, AskedFit
  <2>2. job.batch => ps = job.todo
    BY DEF Takes
  <2> QED
    BY <1>1, <1>2, <1>3, <1>4, <2>1, <2>2 DEF Inv, Pool
<1>10. Waiting'
  BY <1>1, <1>2 DEF Inv, Waiting
<1> QED
  BY <1>5, <1>6, <1>7, <1>8, <1>9, <1>10 DEF Inv

(* An answer leaves the call's posting out of flight.                      *)
LEMMA SinkRemoteStep ==
  ASSUME Inv, NEW p \in Postings, SinkRemote(p)
  PROVE  Inv'
<1>1. PICK v \in Verdicts :
        LET a == [asked |-> Asked(p), v |-> v]
            lines == job.results \cup {Classified(p, a)} IN
        /\ job' = [job EXCEPT !.flight = @ \ {p}, !.mem = With(@, Key(p), a), !.results = lines]
        /\ remoteCache' = Put(remoteCache, Key(p), a)
        /\ classified' = IF job.batch THEN classified ELSE lines
  BY DEF SinkRemote
<1> DEFINE k == AskedRemote(p, union, setup)
           a == [asked |-> k, v |-> v]
           lines == job.results \cup {Classified(p, a)}
<1>2. job.pc = "classify" /\ p \in job.flight /\ p \notin job.todo
  BY DEF SinkRemote, Inv, Pool, Pooling
<1>3. Asked(p) = k /\ Key(p) = k /\ k[1] = "remote" /\ a.asked = k
  BY <1>2 DEF Asked, Key, RemoteKey, AskedRemote
<1>4. /\ job'.pc = job.pc /\ job'.batch = job.batch /\ job'.mem = With(job.mem, k, a)
      /\ job'.todo = job.todo /\ job'.flight = job.flight \ {p}
      /\ job'.results = lines /\ job'.users = job.users
      /\ job' = [pc |-> job'.pc, batch |-> job'.batch, mem |-> job'.mem,
           todo |-> job'.todo, flight |-> job'.flight, results |-> job'.results,
           users |-> job'.users, pol |-> job'.pol]
  BY <1>1, <1>3 DEF Inv, TypeOK
<1>5. /\ UNCHANGED <<union, wanted, profile, setup, fitCache, input, out, verdict, attempt>>
      /\ taken' = IF remoteCache.torn THEN taken \ {k} ELSE taken \cup {k}
  BY <1>3 DEF SinkRemote, world, bounds
<1>6. /\ IsFile(remoteCache') /\ Honest(remoteCache'.entries, "remote")
      /\ \A x : Hit(remoteCache.entries, x) => Hit(remoteCache'.entries, x)
      /\ ~remoteCache.torn => Hit(remoteCache'.entries, k)
  <2>1. remoteCache' = Put(remoteCache, k, a)
    BY <1>1, <1>3
  <2> HIDE DEF k, a
  <2>2. IsFile(remoteCache) /\ Honest(remoteCache.entries, "remote")
    BY DEF Inv, TypeOK, Caches
  <2> QED
    BY <1>3, <2>1, <2>2, PutKeeps
<1>7. \A r \in lines : r.p \in Postings /\ r.ana.asked = AskedRemote(r.p, union, setup)
  BY <1>2 DEF Inv, Lines, OfUnion, Classified
<1>8. job.batch \/ classified' = lines
  BY <1>1, <1>3
<1>9. \A r \in classified' : r.p \in Postings
  BY <1>1, <1>3, <1>7 DEF Inv, TypeOK
<1>10. Honest(job'.mem, "remote")
  <2> HIDE DEF k, a
  <2> QED
    BY <1>2, <1>3, <1>4, HonestWith DEF Inv, Caches
<1> HIDE DEF a, lines
<1>11. TypeOK'
  BY <1>2, <1>4, <1>5, <1>6, <1>9 DEF Inv, TypeOK
<1>12. Caches'
  BY <1>2, <1>4, <1>5, <1>6, <1>10 DEF Inv, Caches
<1>13. Bought'
  <2>1. \A x \in taken' : Hit(remoteCache'.entries, x) \/ Hit(fitCache'.entries, x)
    BY <1>5, <1>6 DEF Inv, Bought
  <2>2. ASSUME NEW q \in job.todo PROVE Asked(q)' \notin taken'
    <3>1. Asked(q)' = AskedRemote(q, union, setup) /\ Asked(q) = AskedRemote(q, union, setup)
      BY <1>2, <1>4, <1>5 DEF Asked, AskedRemote
    <3>2. AskedRemote(q, union, setup) # k
      BY <1>2, <2>2 DEF AskedRemote
    <3>3. Asked(q) \notin taken
      BY <1>2 DEF Inv, Bought, Pooling
    <3> QED
      BY <1>5, <3>1, <3>2, <3>3
  <2> QED
    BY <1>4, <2>1, <2>2 DEF Bought
<1>14. Lines'
  BY <1>2, <1>4, <1>5, <1>7, <1>8 DEF Lines, OfUnion, AskedRemote, Serving
<1>15. Records' /\ Served'
  BY <1>5, RecordsStay DEF Inv, Served
<1>16. Pool' /\ Waiting'
  BY <1>2, <1>4, <1>5 DEF Inv, Pool, Waiting, Pooling, Serving
<1> QED
  BY <1>11, <1>12, <1>13, <1>14, <1>15, <1>16 DEF Inv

LEMMA RemoteNoneStep ==
  ASSUME Inv, NEW p \in Postings, RemoteNone(p)
  PROVE  Inv'
<1>1. job.pc = "classify"
  BY DEF RemoteNone
<1>2. /\ job'.pc = job.pc /\ job'.batch = job.batch /\ job'.mem = job.mem
      /\ job'.todo = job.todo /\ job'.flight = job.flight \ {p}
      /\ job'.results = job.results /\ job'.users = job.users
      /\ job' = [pc |-> job'.pc, batch |-> job'.batch, mem |-> job'.mem,
           todo |-> job'.todo, flight |-> job'.flight, results |-> job'.results,
           users |-> job'.users, pol |-> job'.pol]
  BY DEF RemoteNone, Inv, TypeOK
<1>3. /\ UNCHANGED <<union, wanted, profile, setup, remoteCache, fitCache, classified, input, out>>
      /\ UNCHANGED <<verdict, taken, attempt>>
  BY DEF RemoteNone, Missed, world, files
<1>4. TypeOK' /\ Caches' /\ Lines'
  BY <1>2, <1>3 DEF Inv, TypeOK, Caches, Lines, OfUnion, AskedRemote
<1>5. Bought'
  BY <1>1, <1>2, <1>3 DEF Inv, Bought, Pooling, Asked, AskedRemote
<1>6. Records' /\ Served'
  BY <1>3, RecordsStay DEF Inv, Served
<1>7. Pool' /\ Waiting'
  BY <1>1, <1>2, <1>3 DEF Inv, Pool, Waiting, Pooling, Serving
<1> QED
  BY <1>4, <1>5, <1>6, <1>7 DEF Inv

(* The answer to a call of a user's scoring, or its failure, is the one    *)
(* record of its posting.                                                  *)
LEMMA OneMore ==
  ASSUME NEW records, OneEach(records), NEW r, r.p \notin Of(records)
  PROVE  OneEach(records \cup {r})
BY DEF OneEach, Of

LEMMA PoolCollects ==
  ASSUME Inv, job.pc = "score", NEW p \in job.flight, NEW ana,
         ana # Failed => ana.asked = AskedFit(p, User),
         UNCHANGED <<profile, setup, attempt, input, out>>,
         job'.pc = job.pc, job'.batch = job.batch, job'.users = job.users,
         job'.todo = job.todo, job'.flight = job.flight \ {p},
         job'.results = job.results \cup {Scored(p, ana)}
  PROVE  Pool' /\ \A r \in job'.results : IsRecord(r)
<1> DEFINE new == Scored(p, ana)
<1>1. new.p = p /\ new.ana = ana /\ new.by = attempt /\ IsRecord(new)
  BY DEF Scored, IsRecord, Inv, TypeOK
<1> HIDE DEF new
<1>2. User' = User /\ attempt \in Nat /\ p \in Postings
  BY DEF User, Inv, TypeOK
<1>3. /\ OneEach(job.results) /\ Own(job.results, User)
      /\ Of(job.results) \cap (job.todo \cup job.flight) = {}
      /\ Of(job.results) \cup job.todo \cup job.flight = input[User] \cup Locals
      /\ job.todo \cap job.flight = {} /\ ~job.batch
  BY DEF Inv, Pool, Pooling, Serving
<1>4. job'.results = job.results \cup {new}
  BY DEF new
<1>5. OneEach(job'.results)
  <2>1. new.p \notin Of(job.results)
    BY <1>1, <1>3
  <2> QED
    BY <1>3, <1>4, <2>1, OneMore
<1>6. Own(job.results, User)'
  <2>1. ASSUME NEW r \in job'.results
        PROVE  /\ r.by <= attempt
               /\ r.by = attempt /\ r.ana # Failed => r.ana.asked = AskedFit(r.p, User)
    BY <1>1, <1>2, <1>3, <1>4 DEF Own
  <2>2. \A q : AskedFit(q, User)' = AskedFit(q, User)
    BY <1>2 DEF AskedFit
  <2> QED
    BY <2>1, <2>2 DEF Own
<1>7. Of(job.results)' = Of(job.results) \cup {p}
  BY <1>1, <1>4 DEF Of
<1>8. \A r \in job'.results : IsRecord(r)
  BY <1>1, <1>4 DEF Inv, TypeOK
<1>9. Of(job.results)' \cap (job'.todo \cup job'.flight) = {}
  BY <1>3, <1>7
<1>10. Of(job.results)' \cup job'.todo \cup job'.flight = (input[User] \cup Locals)'
  BY <1>2, <1>3, <1>7
<1> QED
  BY <1>3, <1>5, <1>6, <1>8, <1>9, <1>10 DEF Pool, Pooling

LEMMA SinkFitStep ==
  ASSUME Inv, NEW p \in Postings, SinkFit(p)
  PROVE  Inv'
<1> DEFINE k == AskedFit(p, User)
           a == [asked |-> k]
<1>1. job.pc = "score" /\ p \in job.flight /\ p \notin job.todo
  BY DEF SinkFit, Inv, Pool, Pooling
<1>2. Asked(p) = k /\ Key(p) = k /\ k[1] = "fit" /\ a.asked = k
  BY <1>1 DEF Asked, Key, FitKey, AskedFit
<1>3. /\ job'.pc = job.pc /\ job'.batch = job.batch /\ job'.mem = With(job.mem, k, a)
      /\ job'.todo = job.todo /\ job'.flight = job.flight \ {p}
      /\ job'.results = job.results \cup {Scored(p, a)} /\ job'.users = job.users
      /\ job' = [pc |-> job'.pc, batch |-> job'.batch, mem |-> job'.mem,
           todo |-> job'.todo, flight |-> job'.flight, results |-> job'.results,
           users |-> job'.users, pol |-> job'.pol]
      /\ fitCache' = Put(fitCache, k, a)
  BY <1>2 DEF SinkFit, Inv, TypeOK
<1>4. /\ UNCHANGED <<union, wanted, profile, setup, remoteCache, classified, input, out>>
      /\ UNCHANGED <<verdict, attempt>>
      /\ taken' = IF fitCache.torn THEN taken \ {k} ELSE taken \cup {k}
  BY <1>2 DEF SinkFit, world, bounds
<1> HIDE DEF k, a
<1>5. /\ IsFile(fitCache') /\ Honest(fitCache'.entries, "fit")
      /\ \A x : Hit(fitCache.entries, x) => Hit(fitCache'.entries, x)
      /\ ~fitCache.torn => Hit(fitCache'.entries, k)
  <2>1. IsFile(fitCache) /\ Honest(fitCache.entries, "fit")
    BY DEF Inv, TypeOK, Caches
  <2> QED
    BY <1>2, <1>3, <2>1, PutKeeps
<1>6. Honest(job'.mem, "fit")
  BY <1>1, <1>2, <1>3, HonestWith DEF Inv, Caches
<1>7. Pool' /\ \A r \in job'.results : IsRecord(r)
  <2>1. a.asked = AskedFit(p, User)
    BY <1>2 DEF k
  <2> QED
    BY <1>1, <1>3, <1>4, <2>1, PoolCollects
<1>8. TypeOK'
  BY <1>1, <1>3, <1>4, <1>5, <1>7 DEF Inv, TypeOK
<1>9. Caches'
  BY <1>1, <1>3, <1>4, <1>5, <1>6 DEF Inv, Caches
<1>10. Bought'
  <2>1. \A x \in taken' : Hit(remoteCache'.entries, x) \/ Hit(fitCache'.entries, x)
    BY <1>4, <1>5 DEF Inv, Bought
  <2>2. ASSUME NEW q \in job.todo PROVE Asked(q)' \notin taken'
    <3>1. Asked(q)' = AskedFit(q, User) /\ Asked(q) = AskedFit(q, User)
      BY <1>1, <1>3, <1>4 DEF Asked, AskedFit, User
    <3>2. AskedFit(q, User) # k
      BY <1>1, <2>2 DEF AskedFit, k
    <3>3. Asked(q) \notin taken
      BY <1>1 DEF Inv, Bought, Pooling
    <3> QED
      BY <1>4, <3>1, <3>2, <3>3
  <2> QED
    BY <1>3, <2>1, <2>2 DEF Bought
<1>11. Lines' /\ Waiting'
  BY <1>1, <1>3, <1>4 DEF Inv, Lines, OfUnion, AskedRemote, Waiting, Serving
<1>12. Records' /\ Served'
  BY <1>4, RecordsStay DEF Inv, Served
<1> QED
  BY <1>7, <1>8, <1>9, <1>10, <1>11, <1>12 DEF Inv

LEMMA FitNoneStep ==
  ASSUME Inv, NEW p \in Postings, FitNone(p)
  PROVE  Inv'
<1>1. job.pc = "score" /\ p \in job.flight
  BY DEF FitNone
<1>2. /\ job'.pc = job.pc /\ job'.batch = job.batch /\ job'.mem = job.mem
      /\ job'.todo = job.todo /\ job'.flight = job.flight \ {p}
      /\ job'.results = job.results \cup {Scored(p, Failed)} /\ job'.users = job.users
      /\ job' = [pc |-> job'.pc, batch |-> job'.batch, mem |-> job'.mem,
           todo |-> job'.todo, flight |-> job'.flight, results |-> job'.results,
           users |-> job'.users, pol |-> job'.pol]
  BY DEF FitNone, Inv, TypeOK
<1>3. /\ UNCHANGED <<union, wanted, profile, setup, remoteCache, fitCache, classified, input, out>>
      /\ UNCHANGED <<verdict, taken, attempt>>
  BY DEF FitNone, Missed, world, files
<1>4. Pool' /\ \A r \in job'.results : IsRecord(r)
  BY <1>1, <1>2, <1>3, PoolCollects
<1>5. TypeOK' /\ Caches'
  BY <1>1, <1>2, <1>3, <1>4 DEF Inv, TypeOK, Caches
<1>6. Bought'
  BY <1>1, <1>2, <1>3 DEF Inv, Bought, Pooling, Asked, AskedFit, User
<1>7. Lines' /\ Waiting'
  BY <1>1, <1>2, <1>3 DEF Inv, Lines, OfUnion, AskedRemote, Waiting, Serving
<1>8. Records' /\ Served'
  BY <1>3, RecordsStay DEF Inv, Served
<1> QED
  BY <1>4, <1>5, <1>6, <1>7, <1>8 DEF Inv

-----------------------------------------------------------------------------
(* From one user to the next.                                              *)

\* What a user's scored file may be replaced by.
Fine(records, u) == OneEach(records) /\ Own(records, u) /\ \A r \in records : IsRecord(r)

LEMMA FilesFine ==
  ASSUME TypeOK, Records, NEW u \in UserSet
  PROVE  Fine(out[u], u)
BY DEF TypeOK, Records, Fine

LEMMA SomeFine ==
  ASSUME NEW records, NEW u, Fine(records, u), NEW some \in SUBSET records
  PROVE  Fine(some, u)
BY DEF Fine, OneEach, Own

LEMMA FineStays ==
  ASSUME UNCHANGED <<profile, setup, attempt>>,
         \A u \in UserSet : Fine(out'[u], u)
  PROVE  Records' /\ \A u \in UserSet : \A r \in out'[u] : IsRecord(r)
<1>1. \A p, u : AskedFit(p, u)' = AskedFit(p, u)
  BY DEF AskedFit
<1> QED
  BY <1>1 DEF Fine, Records, Own

(* The stamp changes whose a record is, and nothing else of it.            *)
LEMMA StampedFine ==
  ASSUME NEW u \in UserSet, Fine(out[u], u)
  PROVE  /\ Fine(Stamped(u), u) /\ Of(Stamped(u)) = Of(out[u])
         /\ \A r \in Stamped(u) : r.stamp = u
<1>1. ASSUME NEW r \in out[u]
      PROVE  LET s == [r EXCEPT !.stamp = u] IN
               /\ s = [p |-> r.p, ana |-> r.ana, by |-> r.by, stamp |-> u]
               /\ s.p = r.p /\ s.ana = r.ana /\ s.by = r.by /\ s.stamp = u
  BY DEF Fine, IsRecord
<1>2. \A s \in Stamped(u) : \E r \in out[u] :
        /\ s = [p |-> r.p, ana |-> r.ana, by |-> r.by, stamp |-> u]
        /\ s.p = r.p /\ s.ana = r.ana /\ s.by = r.by /\ s.stamp = u
  BY <1>1 DEF Stamped
<1>3. Of(Stamped(u)) = Of(out[u])
  <2>1. Of(Stamped(u)) \subseteq Of(out[u])
    BY <1>2 DEF Of
  <2>2. ASSUME NEW r \in out[u] PROVE r.p \in Of(Stamped(u))
    <3>1. [r EXCEPT !.stamp = u] \in Stamped(u)
      BY DEF Stamped
    <3> QED
      BY <1>1, <3>1 DEF Of
  <2> QED
    BY <2>1, <2>2 DEF Of
<1>4. OneEach(Stamped(u))
  <2> SUFFICES ASSUME NEW s \in Stamped(u), NEW t \in Stamped(u), s.p = t.p
               PROVE  s = t
    BY DEF OneEach
  <2>1. PICK r \in out[u] : s = [p |-> r.p, ana |-> r.ana, by |-> r.by, stamp |-> u] /\ s.p = r.p
    BY <1>2
  <2>2. PICK q \in out[u] : t = [p |-> q.p, ana |-> q.ana, by |-> q.by, stamp |-> u] /\ t.p = q.p
    BY <1>2
  <2>3. r = q
    BY <2>1, <2>2 DEF Fine, OneEach
  <2> QED
    BY <2>1, <2>2, <2>3
<1>5. Own(Stamped(u), u)
  BY <1>2 DEF Fine, Own
<1>6. ASSUME NEW s \in Stamped(u) PROVE IsRecord(s)
  <2>1. PICK r \in out[u] : /\ s = [p |-> r.p, ana |-> r.ana, by |-> r.by, stamp |-> u]
                            /\ s.p = r.p /\ s.ana = r.ana /\ s.by = r.by /\ s.stamp = u
    BY <1>2
  <2> QED
    BY <2>1 DEF Fine, IsRecord
<1> QED
  BY <1>2, <1>3, <1>4, <1>5, <1>6 DEF Fine

(* The next user's turn, or the end of the run.                            *)
LEMMA ResumeStep ==
  ASSUME Inv, NEW us \in SUBSET UserSet, NEW pol, NEW next,
         next.users = us, next.pol = pol, job' = Resume(next),
         UNCHANGED <<union, wanted, profile, setup, remoteCache, fitCache, classified>>,
         UNCHANGED <<input, taken, attempt>>,
         OfUnion(classified), Records', Served',
         out' = [u \in UserSet |-> out'[u]],
         \A u \in UserSet : \A r \in out'[u] : IsRecord(r),
         verdict' \in [UserSet -> {"none", "skipped", "scored", "failed"}],
         \A u \in us : verdict'[u] = "none"
  PROVE  Inv'
<1>1. /\ job'.pc = IF us = {} THEN "done" ELSE "gate"
      /\ job'.batch = FALSE /\ job'.mem = {} /\ job'.todo = {} /\ job'.flight = {}
      /\ job'.results = {} /\ job'.users = us
      /\ job' = [pc |-> job'.pc, batch |-> job'.batch, mem |-> job'.mem,
           todo |-> job'.todo, flight |-> job'.flight, results |-> job'.results,
           users |-> job'.users, pol |-> job'.pol]
  BY DEF Resume, Down
<1>2. job'.pc \in {"gate", "done"} /\ (job'.pc = "gate" => us # {})
  BY <1>1
<1>3. TypeOK' /\ Caches'
  BY <1>1, <1>2 DEF Inv, TypeOK, Caches, Pcs
<1>4. Bought' /\ Pool'
  BY <1>1, <1>2 DEF Inv, Bought, Pool, Pooling, Serving
<1>5. Lines' /\ Waiting'
  BY <1>1, <1>2 DEF Lines, OfUnion, AskedRemote, Waiting, Serving
<1> QED
  BY <1>3, <1>4, <1>5 DEF Inv

LEMMA EndClassifyStep ==
  ASSUME Inv, EndClassify
  PROVE  Inv'
<1>1. PICK pol \in [UserSet -> Policies] : job' = Resume([users |-> Requesting, pol |-> pol])
  BY DEF EndClassify
<1> DEFINE next == [users |-> Requesting, pol |-> pol]
<1>2. next.users = Requesting /\ next.pol = pol /\ job' = Resume(next)
      /\ Requesting \in SUBSET UserSet
  BY <1>1 DEF Requesting
<1> HIDE DEF next
<1>3. /\ UNCHANGED <<union, wanted, profile, setup, remoteCache, fitCache, classified, input>>
      /\ UNCHANGED <<out, verdict, taken, attempt>>
  BY DEF EndClassify, world, files, bounds
<1>4. OfUnion(classified) /\ \A u \in UserSet : verdict[u] = "none"
  BY DEF EndClassify, Inv, Lines, Waiting
<1>5. Records' /\ Served'
  BY <1>3, RecordsStay DEF Inv, Served
<1>6. \A u \in Requesting : verdict'[u] = "none"
  BY <1>2, <1>3, <1>4
<1>7. /\ out' = [u \in UserSet |-> out'[u]]
      /\ \A u \in UserSet : \A r \in out'[u] : IsRecord(r)
      /\ verdict' \in [UserSet -> {"none", "skipped", "scored", "failed"}]
  BY <1>3 DEF Inv, TypeOK
<1> QED
  BY <1>2, <1>3, <1>4, <1>5, <1>6, <1>7, ResumeStep

(* The user whose turn it is is still to be scored.                        *)
LEMMA Turn ==
  ASSUME Inv, job.pc \in Serving
  PROVE  User \in job.users /\ User \in UserSet /\ verdict[User] = "none"
BY UserIn DEF Inv, TypeOK, Waiting

(* Whoever is through is not to be scored again.                           *)
LEMMA TurnEnds ==
  ASSUME Inv, job.pc \in Serving, NEW v \in {"skipped", "scored", "failed"},
         job' = Resume([job EXCEPT !.users = @ \ {User}]),
         verdict' = [verdict EXCEPT ![User] = v],
         UNCHANGED <<union, wanted, profile, setup, remoteCache, fitCache, classified>>,
         UNCHANGED <<input, taken, attempt>>,
         Records', Served', out' = [u \in UserSet |-> out'[u]],
         \A u \in UserSet : \A r \in out'[u] : IsRecord(r)
  PROVE  Inv'
<1> DEFINE next == [job EXCEPT !.users = @ \ {User}]
<1>1. /\ next.users = job.users \ {User} /\ next.pol = job.pol /\ job' = Resume(next)
      /\ job.users \ {User} \in SUBSET UserSet
  BY DEF Inv, TypeOK
<1> HIDE DEF next
<1>2. verdict' \in [UserSet -> {"none", "skipped", "scored", "failed"}]
  BY Turn DEF Inv, TypeOK
<1>3. \A u \in job.users \ {User} : verdict'[u] = "none"
  BY DEF Inv, TypeOK, Waiting
<1>4. OfUnion(classified)
  BY DEF Inv, Lines
<1> QED
  BY <1>1, <1>2, <1>3, <1>4, ResumeStep

LEMMA SkipUserStep ==
  ASSUME Inv, SkipUser
  PROVE  Inv'
<1>1. job.pc \in Serving
  BY DEF SkipUser, Serving
<1>2. /\ UNCHANGED <<union, wanted, profile, setup, remoteCache, fitCache, classified, input>>
      /\ UNCHANGED <<out, taken, attempt>>
      /\ verdict' = [verdict EXCEPT ![User] = "skipped"]
      /\ job' = Resume([job EXCEPT !.users = @ \ {User}])
  BY DEF SkipUser, world, files, bounds
<1>3. Records'
  BY <1>2, RecordsStay DEF Inv
<1>4. Served'
  BY <1>2 DEF Inv, Served, TypeOK
<1>5. /\ out' = [u \in UserSet |-> out'[u]]
      /\ \A u \in UserSet : \A r \in out'[u] : IsRecord(r)
  BY <1>2 DEF Inv, TypeOK
<1> QED
  BY <1>1, <1>2, <1>3, <1>4, <1>5, TurnEnds

LEMMA WriteOutputStep ==
  ASSUME Inv, WriteOutput
  PROVE  Inv'
<1>1. /\ job.pc = "score" /\ job.todo = {} /\ job.flight = {}
      /\ out' = [out EXCEPT ![User] = job.results] /\ job' = [job EXCEPT !.pc = "stamp"]
  BY DEF WriteOutput, Drained, Overwrite
<1>2. /\ UNCHANGED <<union, wanted, profile, setup, remoteCache, fitCache, classified, input>>
      /\ UNCHANGED <<verdict, taken, attempt>>
  BY DEF WriteOutput, world, bounds
<1>3. User \in UserSet /\ verdict[User] = "none"
  BY <1>1, Turn DEF Serving
<1>4. /\ job'.pc = "stamp" /\ job'.batch = job.batch /\ job'.mem = job.mem
      /\ job'.todo = {} /\ job'.flight = {} /\ job'.results = job.results
      /\ job'.users = job.users
      /\ job' = [pc |-> job'.pc, batch |-> job'.batch, mem |-> job'.mem,
           todo |-> job'.todo, flight |-> job'.flight, results |-> job'.results,
           users |-> job'.users, pol |-> job'.pol]
  BY <1>1 DEF Inv, TypeOK
<1>5. out' = [u \in UserSet |-> out'[u]] /\ out'[User] = job.results
      /\ \A u \in UserSet : u # User => out'[u] = out[u]
  BY <1>1, <1>3 DEF Inv, TypeOK
<1>6. Fine(job.results, User) /\ Of(job.results) = input[User] \cup Locals
  BY <1>1 DEF Inv, TypeOK, Pool, Fine
<1>7. \A u \in UserSet : Fine(out'[u], u)
  BY <1>5, <1>6, FilesFine DEF Inv
<1>8. Records' /\ \A u \in UserSet : \A r \in out'[u] : IsRecord(r)
  BY <1>2, <1>7, FineStays
<1>9. TypeOK' /\ Caches'
  BY <1>1, <1>2, <1>4, <1>5, <1>8 DEF Inv, TypeOK, Caches, Pcs
<1>10. Bought' /\ Lines' /\ Waiting'
  BY <1>1, <1>2, <1>4 DEF Inv, Bought, Lines, OfUnion, AskedRemote, Waiting, Pooling, Serving
<1>11. Served'
  BY <1>2, <1>3, <1>5 DEF Inv, Served
<1>12. Pool'
  <2>1. User' = User
    BY <1>4 DEF User
  <2>2. Of(out[User])' = Of(job.results)
    BY <1>5, <2>1 DEF Of
  <2> QED
    BY <1>1, <1>2, <1>4, <1>6, <2>1, <2>2 DEF Inv, Pool, Pooling, Serving
<1> QED
  BY <1>8, <1>9, <1>10, <1>11, <1>12 DEF Inv

LEMMA StampUserEmailStep ==
  ASSUME Inv, StampUserEmail
  PROVE  Inv'
<1>1. /\ job.pc = "stamp" /\ job.pc \in Serving /\ out' = [out EXCEPT ![User] = Stamped(User)]
      /\ verdict' = [verdict EXCEPT ![User] = "scored"]
      /\ job' = Resume([job EXCEPT !.users = @ \ {User}])
  BY DEF StampUserEmail, Serving
<1>2. /\ UNCHANGED <<union, wanted, profile, setup, remoteCache, fitCache, classified, input>>
      /\ UNCHANGED <<taken, attempt>>
  BY DEF StampUserEmail, world, bounds
<1>3. User \in UserSet
  BY <1>1, Turn
<1>4. out' = [u \in UserSet |-> out'[u]] /\ out'[User] = Stamped(User)
      /\ \A u \in UserSet : u # User => out'[u] = out[u]
  BY <1>1, <1>3 DEF Inv, TypeOK
<1>5. /\ Fine(Stamped(User), User) /\ Of(Stamped(User)) = Of(out[User])
      /\ \A r \in Stamped(User) : r.stamp = User
  BY <1>3, FilesFine, StampedFine DEF Inv
<1>6. \A u \in UserSet : Fine(out'[u], u)
  BY <1>4, <1>5, FilesFine DEF Inv
<1>7. Records' /\ \A u \in UserSet : \A r \in out'[u] : IsRecord(r)
  BY <1>2, <1>6, FineStays
<1>8. Served'
  <2> SUFFICES ASSUME NEW u \in UserSet, verdict'[u] = "scored"
               PROVE  Of(out'[u]) = input'[u] \cup Locals /\ \A r \in out'[u] : r.stamp = u
    BY DEF Served, Of
  <2>1. CASE u = User
    BY <1>1, <1>2, <1>4, <1>5, <2>1 DEF Inv, Pool
  <2>2. CASE u # User
    BY <1>1, <1>2, <1>4, <2>2 DEF Inv, Served, TypeOK
  <2> QED
    BY <2>1, <2>2
<1> QED
  BY <1>1, <1>2, <1>4, <1>7, <1>8, TurnEnds

(* What the plan pass over a user's postings leaves for the pool, and the  *)
(* records it takes from an earlier attempt and from the cache.            *)
LEMMA PlannedFine ==
  ASSUME Inv, job.pc = "gate", NEW ps, NEW hits,
         hits \subseteq ps \ Of(Resumed(ps)), ps \subseteq Postings,
         \A p \in hits : Hit(fitCache.entries, FitKey(p))
  PROVE  LET records == Resumed(ps) \cup {Scored(p, Get(fitCache.entries, FitKey(p))) : p \in hits} IN
           Fine(records, User) /\ Of(records) = Of(Resumed(ps)) \cup hits
<1> DEFINE served == {Scored(p, Get(fitCache.entries, FitKey(p))) : p \in hits}
           records == Resumed(ps) \cup served
<1>1. User \in UserSet /\ attempt \in Nat
  BY Turn DEF Inv, TypeOK, Serving
<1>2. Fine(Resumed(ps), User)
  BY <1>1, FilesFine, SomeFine DEF Inv, Resumed
<1>3. \A s \in served : \E p \in hits : s = Scored(p, Get(fitCache.entries, FitKey(p)))
  OBVIOUS
<1>4. ASSUME NEW p \in hits
      PROVE  LET s == Scored(p, Get(fitCache.entries, FitKey(p))) IN
               s.p = p /\ s.by = attempt /\ IsRecord(s) /\ s.ana.asked = AskedFit(p, User)
  <2>1. Honest(fitCache.entries, "fit") /\ Hit(fitCache.entries, FitKey(p))
    BY DEF Inv, Caches
  <2>2. Get(fitCache.entries, FitKey(p)).asked = AskedFit(p, User)
    BY <2>1, GetRight DEF FitKey
  <2>3. p \in Postings
    OBVIOUS
  <2> QED
    BY <1>1, <2>2, <2>3 DEF Scored, IsRecord
<1>5. \A s \in served : s.p \in hits /\ s.by = attempt /\ IsRecord(s) /\ s.ana.asked = AskedFit(s.p, User)
  BY <1>4
<1>6. \A s, t \in served : s.p = t.p => s = t
  BY <1>3, <1>4
<1>7. Of(served) = hits
  <2>1. Of(served) \subseteq hits
    BY <1>5 DEF Of
  <2>2. ASSUME NEW p \in hits PROVE p \in Of(served)
    <3>1. Scored(p, Get(fitCache.entries, FitKey(p))) \in served
      OBVIOUS
    <3> HIDE DEF served
    <3> QED
      BY <1>4, <3>1 DEF Of
  <2> QED
    BY <2>1, <2>2
<1> HIDE DEF served
<1>8. Of(records) = Of(Resumed(ps)) \cup hits
  BY <1>7 DEF Of
<1>9. OneEach(records)
  <2>1. \A r \in Resumed(ps), s \in served : r.p # s.p
    BY <1>5 DEF Of
  <2> QED
    BY <1>2, <1>6, <2>1 DEF Fine, OneEach
<1>10. Own(records, User) /\ \A r \in records : IsRecord(r)
  BY <1>1, <1>2, <1>5 DEF Fine, Own
<1> QED
  BY <1>8, <1>9, <1>10 DEF Fine, served

LEMMA ScoreUserStep ==
  ASSUME Inv, ScoreUser
  PROVE  Inv'
<1> DEFINE ps == Inputs(User)
           resumed == Resumed(ps)
           rest == ps \ Of(resumed)
           hits == HitPostings([p \in rest |-> FitKey(p)], fitCache.entries)
           records == resumed \cup {Scored(p, Get(fitCache.entries, FitKey(p))) : p \in hits}
<1>1. /\ job.pc = "gate" /\ job.pc \in Serving /\ job.batch = FALSE
      /\ job' = [job EXCEPT !.pc = "score", !.mem = fitCache.entries, !.todo = rest \ hits,
                   !.results = records]
      /\ input' = [input EXCEPT ![User] = Survivors(User)]
  BY DEF ScoreUser, Load, Of, Serving, Inv, Pool
<1>2. /\ UNCHANGED <<union, wanted, profile, setup, remoteCache, fitCache, classified, out>>
      /\ UNCHANGED <<verdict, taken, attempt>>
  BY DEF ScoreUser, world, bounds
<1>3. User \in UserSet /\ verdict[User] = "none" /\ User \in job.users
  BY <1>1, Turn
<1>4. Survivors(User) \subseteq Postings /\ Locals \subseteq Postings
      /\ ps = Survivors(User) \cup Locals
  BY ScoringAssumption DEF Survivors, ClassifiedFor, Inputs, Inv, TypeOK
<1>5. hits \subseteq rest /\ \A p \in hits : Hit(fitCache.entries, FitKey(p))
  BY DEF HitPostings
<1>6. \A p \in rest \ hits : ~ Hit(fitCache.entries, FitKey(p))
  BY DEF HitPostings
<1>7. Of(resumed) \subseteq ps
  BY DEF Resumed, Of
<1>8. Fine(records, User) /\ Of(records) = Of(resumed) \cup hits
  <2> HIDE DEF ps, hits
  <2>1. hits \subseteq ps \ Of(Resumed(ps)) /\ ps \subseteq Postings
    BY <1>4, <1>5
  <2> QED
    BY <1>1, <1>5, <2>1, PlannedFine
<1> HIDE DEF ps, resumed, rest, hits, records
<1>9. rest = ps \ Of(resumed)
  BY DEF rest
<1>10. /\ job'.pc = "score" /\ job'.batch = FALSE /\ job'.mem = fitCache.entries
       /\ job'.todo = rest \ hits /\ job'.flight = job.flight /\ job'.results = records
       /\ job'.users = job.users
       /\ job' = [pc |-> job'.pc, batch |-> job'.batch, mem |-> job'.mem,
            todo |-> job'.todo, flight |-> job'.flight, results |-> job'.results,
            users |-> job'.users, pol |-> job'.pol]
  BY <1>1 DEF Inv, TypeOK
<1>11. job.flight = {} /\ ps \subseteq Postings
  BY <1>1, <1>4 DEF Inv, Pool, Pooling
<1>12. User' = User
  BY <1>10 DEF User
<1>13. \A p : AskedFit(p, User)' = AskedFit(p, User)
  BY <1>2, <1>12 DEF AskedFit
<1>14. input' \in [UserSet -> SUBSET Postings] /\ input'[User] = Survivors(User)
       /\ \A u \in UserSet : u # User => input'[u] = input[u]
  BY <1>1, <1>3, <1>4 DEF Inv, TypeOK
<1>15. TypeOK'
  <2>1. rest \ hits \subseteq Postings
    BY <1>9, <1>11
  <2> QED
    BY <1>2, <1>8, <1>10, <1>11, <1>14, <2>1 DEF Inv, TypeOK, Fine, Pcs
<1>16. Caches'
  BY <1>2, <1>10 DEF Inv, Caches
<1>17. Bought'
  <2>1. ASSUME NEW p \in rest \ hits PROVE Asked(p)' \notin taken
    <3>1. Asked(p)' = AskedFit(p, User)
      BY <1>10, <1>13 DEF Asked
    <3>2. ~ Hit(fitCache.entries, AskedFit(p, User))
      BY <1>6, <2>1 DEF FitKey
    <3>3. AskedFit(p, User)[1] = "fit" /\ Honest(remoteCache.entries, "remote")
      BY DEF AskedFit, Inv, Caches
    <3>4. ~ Hit(remoteCache.entries, AskedFit(p, User))
      BY <3>3, KindOfHit
    <3> QED
      BY <3>1, <3>2, <3>4 DEF Inv, Bought
  <2> QED
    BY <1>2, <1>10, <2>1 DEF Inv, Bought
<1>18. Lines' /\ Waiting'
  BY <1>1, <1>2, <1>10 DEF Inv, Lines, OfUnion, AskedRemote, Waiting, Serving
<1>19. Records'
  BY <1>2, RecordsStay DEF Inv
<1>20. Served'
  BY <1>2, <1>3, <1>14 DEF Inv, Served
<1>21. Pool'
  <2>1. OneEach(records) /\ Own(job.results, User)'
    <3>1. OneEach(records) /\ Own(records, User)
      BY <1>8 DEF Fine
    <3>2. ASSUME NEW r \in job'.results
          PROVE  /\ r.by <= attempt'
                 /\ r.by = attempt' /\ r.ana # Failed => r.ana.asked = AskedFit(r.p, User)'
      BY <1>2, <1>10, <1>13, <3>1 DEF Own
    <3> QED
      BY <3>1, <3>2 DEF Own
  <2>2. Of(records) \cap (rest \ hits) = {}
    BY <1>8, <1>9
  <2>3. Of(records) \cup (rest \ hits) = ps
    BY <1>5, <1>7, <1>8, <1>9
  <2>4. (input[User] \cup Locals)' = ps
    BY <1>4, <1>12, <1>14
  <2>5. Of(job.results)' = Of(records)
    BY <1>10 DEF Of
  <2> QED
    BY <1>10, <1>11, <1>12, <2>1, <2>2, <2>3, <2>4, <2>5 DEF Pool, Pooling
<1> QED
  BY <1>15, <1>16, <1>17, <1>18, <1>19, <1>20, <1>21 DEF Inv

-----------------------------------------------------------------------------
(* The ends of an attempt.                                                 *)

LEMMA LeavesStep ==
  ASSUME Inv, job' = [Down EXCEPT !.pc = job'.pc], job'.pc \in {"down", "done"},
         UNCHANGED <<union, profile, setup, input, verdict, taken, attempt>>,
         remoteCache' = remoteCache \/ remoteCache' = Tear(remoteCache),
         fitCache' = fitCache \/ fitCache' = Tear(fitCache),
         \A r \in classified' : r.p \in Postings,
         out' = [u \in UserSet |-> out'[u]],
         \A u \in UserSet : out'[u] = out[u] \/ (verdict[u] = "none" /\ Fine(out'[u], u))
  PROVE  Inv'
<1>1. /\ job'.batch = FALSE /\ job'.mem = {} /\ job'.todo = {} /\ job'.flight = {}
      /\ job'.results = {} /\ job'.users = {}
      /\ job' = [pc |-> job'.pc, batch |-> job'.batch, mem |-> job'.mem,
           todo |-> job'.todo, flight |-> job'.flight, results |-> job'.results,
           users |-> job'.users, pol |-> job'.pol]
  BY DEF Down
<1>2. /\ remoteCache'.entries = remoteCache.entries /\ IsFile(remoteCache')
      /\ fitCache'.entries = fitCache.entries /\ IsFile(fitCache')
  BY DEF Tear, IsFile, Inv, TypeOK
<1>3. \A u \in UserSet : Fine(out'[u], u)
  BY FilesFine DEF Inv
<1>4. Records' /\ \A u \in UserSet : \A r \in out'[u] : IsRecord(r)
  BY <1>3, FineStays
<1>5. TypeOK' /\ Caches'
  BY <1>1, <1>2, <1>4 DEF Inv, TypeOK, Caches, Pcs
<1>6. Bought' /\ Pool' /\ Lines' /\ Waiting'
  BY <1>1, <1>2 DEF Inv, Bought, Pool, Lines, Waiting, Pooling, Serving
<1>7. Served'
  BY DEF Inv, Served
<1> QED
  BY <1>4, <1>5, <1>6, <1>7 DEF Inv

LEMMA DownIs ==
  Down = [Down EXCEPT !.pc = Down.pc] /\ Down.pc = "down"
BY DEF Down

LEMMA EndBatchStep ==
  ASSUME Inv, EndBatch
  PROVE  Inv'
<1>1. /\ job' = [Down EXCEPT !.pc = "done"] /\ job'.pc = "done"
      /\ UNCHANGED <<union, profile, setup, input, verdict, taken, attempt>>
      /\ UNCHANGED <<remoteCache, fitCache, out>>
  BY DEF EndBatch, Down, world, bounds
<1>2. \A r \in classified' : r.p \in Postings
  BY DEF EndBatch, Inv, Lines, OfUnion
<1>3. out' = [u \in UserSet |-> out'[u]]
  BY <1>1 DEF Inv, TypeOK
<1> QED
  BY <1>1, <1>2, <1>3, LeavesStep

\* The process is gone, and of its files at most those named have changed.
Dies ==
  /\ job' = Down
  /\ UNCHANGED <<union, profile, setup, input, verdict, taken, attempt, classified>>

LEMMA DiesStep ==
  ASSUME Inv, Dies,
         remoteCache' = remoteCache \/ remoteCache' = Tear(remoteCache),
         fitCache' = fitCache \/ fitCache' = Tear(fitCache),
         \/ UNCHANGED out
         \/ \E s : /\ job.pc \in Serving /\ Fine(s, User)
                   /\ out' = [out EXCEPT ![User] = s]
  PROVE  Inv'
<1>1. job' = [Down EXCEPT !.pc = job'.pc] /\ job'.pc = "down"
  BY DownIs DEF Dies
<1>2. \A r \in classified' : r.p \in Postings
  BY DEF Dies, Inv, TypeOK
<1>3. /\ out' = [u \in UserSet |-> out'[u]]
      /\ \A u \in UserSet : out'[u] = out[u] \/ (verdict[u] = "none" /\ Fine(out'[u], u))
  <2>1. CASE UNCHANGED out
    BY <2>1 DEF Inv, TypeOK
  <2>2. CASE \E s : /\ job.pc \in Serving /\ Fine(s, User)
                    /\ out' = [out EXCEPT ![User] = s]
    <3>1. PICK s : job.pc \in Serving /\ Fine(s, User) /\ out' = [out EXCEPT ![User] = s]
      BY <2>2
    <3>2. User \in UserSet /\ verdict[User] = "none"
      BY <3>1, Turn
    <3>3. out' = [u \in UserSet |-> out'[u]] /\ out'[User] = s
          /\ \A u \in UserSet : u # User => out'[u] = out[u]
      BY <3>1, <3>2 DEF Inv, TypeOK
    <3> QED
      BY <3>1, <3>2, <3>3
  <2> QED
    BY <2>1, <2>2
<1> QED
  BY <1>1, <1>2, <1>3, LeavesStep DEF Dies

LEMMA BatchFailsStep ==
  ASSUME Inv, BatchFails
  PROVE  Inv'
<1>1. Dies /\ UNCHANGED <<remoteCache, fitCache, out>>
  BY DEF BatchFails, Fault, Dies, world, files
<1> QED
  BY <1>1, DiesStep

LEMMA CallRaisesStep ==
  ASSUME Inv, CallRaises
  PROVE  Inv'
<1>1. /\ UNCHANGED <<union, wanted, profile, setup, remoteCache, fitCache, classified, input>>
      /\ UNCHANGED <<out, taken, attempt>>
  BY DEF CallRaises, Fault, world, files
<1>2. CASE job.pc = "classify"
  <2>1. Dies
    BY <1>1, <1>2 DEF CallRaises, Dies
  <2> QED
    BY <1>1, <2>1, DiesStep
<1>3. CASE job.pc = "score"
  <2>1. /\ verdict' = [verdict EXCEPT ![User] = "failed"]
        /\ job' = Resume([job EXCEPT !.users = @ \ {User}])
    BY <1>3 DEF CallRaises
  <2>2. job.pc \in Serving
    BY <1>3 DEF Serving
  <2>3. Records'
    BY <1>1, RecordsStay DEF Inv
  <2>4. Served'
    BY <1>1, <2>1 DEF Inv, Served, TypeOK
  <2>5. /\ out' = [u \in UserSet |-> out'[u]]
        /\ \A u \in UserSet : \A r \in out'[u] : IsRecord(r)
    BY <1>1 DEF Inv, TypeOK
  <2> QED
    BY <1>1, <2>1, <2>2, <2>3, <2>4, <2>5, TurnEnds
<1> QED
  BY <1>2, <1>3 DEF CallRaises, Pooling

LEMMA InterruptStep ==
  ASSUME Inv, Interrupt
  PROVE  Inv'
<1>1. Dies /\ UNCHANGED <<remoteCache, fitCache>>
  BY DEF Interrupt, Fault, Dies, world
<1>2. CASE UNCHANGED out
  BY <1>1, <1>2, DiesStep
<1>3. CASE job.pc = "score" /\ out' = [out EXCEPT ![User] = job.results]
  <2>1. job.pc \in Serving /\ Fine(job.results, User)
    BY <1>3 DEF Inv, TypeOK, Pool, Fine, Serving
  <2> QED
    BY <1>1, <1>3, <2>1, DiesStep
<1> QED
  BY <1>2, <1>3 DEF Interrupt, Overwrite

LEMMA DieStep ==
  ASSUME Inv, Die
  PROVE  Inv'
<1>1. Dies /\ UNCHANGED <<remoteCache, fitCache>>
  BY DEF Die, Fault, Dies, world
<1>2. CASE UNCHANGED out
  BY <1>1, <1>2, DiesStep
<1>3. CASE /\ job.pc = "score"
           /\ \E s \in Prefixes(job.results) : out' = [out EXCEPT ![User] = s]
  <2>1. PICK s \in Prefixes(job.results) : out' = [out EXCEPT ![User] = s]
    BY <1>3
  <2>2. job.pc \in Serving /\ Fine(job.results, User)
    BY <1>3 DEF Inv, TypeOK, Pool, Fine, Serving
  <2>3. Fine(s, User)
    BY <2>2, SomeFine DEF Prefixes
  <2> QED
    BY <1>1, <2>1, <2>2, <2>3, DiesStep
<1>4. CASE /\ job.pc = "stamp"
           /\ \E s \in Prefixes(Stamped(User)) : out' = [out EXCEPT ![User] = s]
  <2>1. PICK s \in Prefixes(Stamped(User)) : out' = [out EXCEPT ![User] = s]
    BY <1>4
  <2>2. job.pc \in Serving
    BY <1>4 DEF Serving
  <2>3. Fine(Stamped(User), User)
    BY <2>2, Turn, FilesFine, StampedFine DEF Inv
  <2>4. Fine(s, User)
    BY <2>3, SomeFine DEF Prefixes
  <2> QED
    BY <1>1, <2>1, <2>2, <2>4, DiesStep
<1> QED
  BY <1>2, <1>3, <1>4 DEF Die, Overwrite

LEMMA DieInAppendStep ==
  ASSUME Inv, DieInAppend
  PROVE  Inv'
<1>1. /\ Dies /\ UNCHANGED out
      /\ remoteCache' = remoteCache \/ remoteCache' = Tear(remoteCache)
      /\ fitCache' = fitCache \/ fitCache' = Tear(fitCache)
  BY DEF DieInAppend, Fault, Dies, world
<1> QED
  BY <1>1, DiesStep

-----------------------------------------------------------------------------
(* The theorems.                                                           *)

LEMMA StutterStep ==
  ASSUME Inv, UNCHANGED vars
  PROVE  Inv'
<1>1. /\ UNCHANGED <<union, wanted, profile, setup, remoteCache, fitCache, classified, input, out>>
      /\ UNCHANGED <<verdict, job, taken, attempt>>
  BY DEF vars, world, files, bounds
<1>2. User' = User /\ (\A p : Asked(p)' = Asked(p)) /\ \A q, u : AskedFit(q, u)' = AskedFit(q, u)
  BY <1>1 DEF User, Asked, AskedFit, AskedRemote
<1>3. TypeOK' /\ Caches' /\ Lines' /\ Waiting' /\ Served'
  BY <1>1 DEF Inv, TypeOK, Caches, Lines, OfUnion, AskedRemote, Waiting, Served
<1>4. Bought'
  BY <1>1, <1>2 DEF Inv, Bought, Pooling
<1>5. Records' /\ Pool'
  BY <1>1, <1>2 DEF Inv, Records, Pool, Own, Pooling
<1> QED
  BY <1>3, <1>4, <1>5 DEF Inv

LEMMA NextHolds ==
  ASSUME Inv, [Next]_vars
  PROVE  Inv'
<1>1. CASE \E fresh \in BOOLEAN : Start(fresh)
  BY <1>1, StartStep
<1>2. CASE SubmitBatch
  BY <1>2, BatchTakes, TakesStep
<1>3. CASE EndBatch
  BY <1>3, EndBatchStep
<1>4. CASE EndClassify
  BY <1>4, EndClassifyStep
<1>5. CASE SkipUser
  BY <1>5, SkipUserStep
<1>6. CASE ScoreUser
  BY <1>6, ScoreUserStep
<1>7. CASE WriteOutput
  BY <1>7, WriteOutputStep
<1>8. CASE StampUserEmail
  BY <1>8, StampUserEmailStep
<1>9. CASE \E p \in Postings : Submit(p)
  BY <1>9, SubmitTakes, TakesStep
<1>10. CASE \E p \in Postings : SinkRemote(p)
  BY <1>10, SinkRemoteStep
<1>11. CASE \E p \in Postings : RemoteNone(p)
  BY <1>11, RemoteNoneStep
<1>12. CASE \E p \in Postings : SinkFit(p)
  BY <1>12, SinkFitStep
<1>13. CASE \E p \in Postings : FitNone(p)
  BY <1>13, FitNoneStep
<1>14. CASE BatchFails
  BY <1>14, BatchFailsStep
<1>15. CASE CallRaises
  BY <1>15, CallRaisesStep
<1>16. CASE Interrupt
  BY <1>16, InterruptStep
<1>17. CASE Die
  BY <1>17, DieStep
<1>18. CASE DieInAppend
  BY <1>18, DieInAppendStep
<1>19. CASE UNCHANGED vars
  BY <1>19, StutterStep
<1> QED
  BY <1>1, <1>2, <1>3, <1>4, <1>5, <1>6, <1>7, <1>8, <1>9, <1>10, <1>11, <1>12, <1>13,
     <1>14, <1>15, <1>16, <1>17, <1>18, <1>19 DEF Next

(* The inductive invariant holds in every reachable state: the caches say  *)
(* what they were asked, nothing answered is still to be asked, and a      *)
(* posting of the user being scored is to do, in flight or one record.     *)
THEOREM InvHolds == Spec => []Inv
<1>1. Inv /\ [Next]_vars => Inv'
  BY NextHolds
<1> QED
  BY <1>1, InitHolds, PTL DEF Spec

(* What this attempt classified or scored, from the caches or not, was     *)
(* asked for the very posting, setup, search context and profile.          *)
THEOREM ServedRightHolds == Spec => []ServedRight
<1>1. Inv => ServedRight
  BY DEF Inv, ServedRight, Lines, OfUnion, Records, Own, Serving
<1> QED
  BY <1>1, InvHolds, PTL

(* Records of one posting each are as many as their postings.              *)
LEMMA AsManyAsPostings ==
  ASSUME NEW records, OneEach(records), NEW ps \in SUBSET Postings, Of(records) = ps
  PROVE  Cardinality(records) = Cardinality(ps)
<1> DEFINE f == [r \in records |-> r.p]
<1>1. IsFiniteSet(ps)
  BY ScoringAssumption, FS_Subset
<1>2. f \in Injection(records, ps)
  BY DEF Injection, IsInjective, OneEach, Of
<1>3. f \in Surjection(records, ps)
  BY DEF Surjection, Of
<1> HIDE DEF f
<1> QED
  BY <1>1, <1>2, <1>3, FS_Injection

(* A scored user's file holds one record for each survivor of this         *)
(* attempt's gate and of the local file, and no others, all stamped.       *)
THEOREM ScoredWholeHolds == Spec => []ScoredWhole
<1>1. Inv => ScoredWhole
  <2> SUFFICES ASSUME Inv, NEW u \in UserSet, verdict[u] = "scored"
               PROVE  /\ Of(out[u]) = input[u] \cup Locals
                      /\ Cardinality(out[u]) = Cardinality(input[u] \cup Locals)
                      /\ \A r \in out[u] : r.stamp = u
    BY DEF ScoredWhole, Of
  <2>1. Of(out[u]) = input[u] \cup Locals /\ \A r \in out[u] : r.stamp = u
    BY DEF Inv, Served
  <2>2. OneEach(out[u]) /\ input[u] \cup Locals \in SUBSET Postings
    BY ScoringAssumption DEF Inv, Records, TypeOK
  <2> QED
    BY <2>1, <2>2, AsManyAsPostings
<1> QED
  BY <1>1, InvHolds, PTL

(* No call is made for what was answered before, by any user's scoring or  *)
(* in any attempt, unless a torn append lost it.                           *)
THEOREM BoughtOnceHolds == Spec => BoughtOnce
<1>1. ASSUME Inv, [Next]_vars
      PROVE  [\A p \in job'.flight \ job.flight : Asked(p) \notin taken]_vars
  <2>1. ASSUME NEW ps, Takes(ps), NEW p \in job'.flight \ job.flight
        PROVE  Asked(p) \notin taken
    <3>1. p \in job.todo /\ Pooling
      BY <1>1, <2>1 DEF Takes, Inv, TypeOK
    <3> QED
      BY <1>1, <3>1 DEF Inv, Bought
  <2>2. CASE SubmitBatch \/ \E p \in Postings : Submit(p)
    BY <1>1, <2>1, <2>2, BatchTakes, SubmitTakes
  <2>3. CASE \E fresh \in BOOLEAN : Start(fresh)
    <3>1. job'.flight = {}
      BY <2>3 DEF Start, Classify, Down
    <3> QED
      BY <3>1
  <2>4. CASE EndBatch \/ BatchFails \/ Interrupt \/ Die \/ DieInAppend
    <3>1. job'.flight = {}
      BY <2>4 DEF EndBatch, BatchFails, Interrupt, Die, DieInAppend, Down
    <3> QED
      BY <3>1
  <2>5. CASE EndClassify \/ SkipUser \/ StampUserEmail \/ CallRaises
    <3>1. job' = Down \/ \E next : job' = Resume(next)
      BY <2>5 DEF EndClassify, SkipUser, StampUserEmail, CallRaises
    <3>2. ASSUME NEW next PROVE Resume(next).flight = {} /\ Down.flight = {}
      BY DEF Resume, Down
    <3>3. job'.flight = {}
      BY <3>1, <3>2
    <3> QED
      BY <3>3
  <2>6. CASE ScoreUser \/ WriteOutput
    <3>1. job'.flight = job.flight
      BY <1>1, <2>6 DEF ScoreUser, WriteOutput, Inv, TypeOK
    <3> QED
      BY <3>1
  <2>7. CASE \E p \in Postings : SinkRemote(p) \/ RemoteNone(p) \/ SinkFit(p) \/ FitNone(p)
    <3>1. "flight" \in DOMAIN job
      BY <1>1 DEF Inv, TypeOK
    <3>2. ASSUME NEW p \in Postings, SinkRemote(p) PROVE job'.flight = job.flight \ {p}
      BY <3>1, <3>2 DEF SinkRemote
    <3>3. ASSUME NEW p \in Postings, RemoteNone(p) PROVE job'.flight = job.flight \ {p}
      BY <3>1, <3>3 DEF RemoteNone
    <3>4. ASSUME NEW p \in Postings, SinkFit(p) PROVE job'.flight = job.flight \ {p}
      BY <3>1, <3>4 DEF SinkFit
    <3>5. ASSUME NEW p \in Postings, FitNone(p) PROVE job'.flight = job.flight \ {p}
      BY <3>1, <3>5 DEF FitNone
    <3>6. job'.flight \subseteq job.flight
      BY <2>7, <3>2, <3>3, <3>4, <3>5
    <3> QED
      BY <3>6
  <2>8. CASE UNCHANGED vars
    BY <2>8
  <2> QED
    BY <1>1, <2>2, <2>3, <2>4, <2>5, <2>6, <2>7, <2>8 DEF Next
<1> QED
  BY <1>1, InvHolds, PTL DEF Spec, BoughtOnce

-----------------------------------------------------------------------------
(* The policy gate *)

\* The policy of a user who accepts at least as much.
Willing(pol, more) ==
    /\ pol.classes \subseteq more.classes
    /\ pol.acceptable \subseteq more.acceptable
    /\ pol.relocate => more.relocate
    /\ pol.presence => more.presence

\* Accepting more classes or locations, relocation or presence never loses a
\* posting at the gate (scoring.py:549-600), once a location is given: without
\* one every restriction is passed, and the first location may lose postings.
THEOREM WillingKeepsMore ==
    ASSUME NEW pol, NEW more, NEW rec,
           pol.relocate \in BOOLEAN, more.relocate \in BOOLEAN,
           pol.presence \in BOOLEAN, more.presence \in BOOLEAN,
           pol.acceptable # {}, Willing(pol, more), Keeps(pol, rec)
    PROVE  Keeps(more, rec)
<1>1. Countries(pol) \subseteq Countries(more)
  BY DEF Countries, Willing
<1>2. ASSUME NEW entry, Satisfiable(entry, pol) PROVE Satisfiable(entry, more)
  <2> DEFINE r == Resolve(entry)
  <2>1. CASE r = Unread
    BY <2>1 DEF Satisfiable
  <2>2. CASE r.country \in Countries(pol) /\ more.relocate
    BY <2>2, <1>1 DEF Satisfiable
  <2>3. CASE r # Unread /\ ~more.relocate
    BY <2>3, <1>2 DEF Satisfiable, Willing
  <2>4. CASE r # Unread /\ more.relocate
    <3>1. r.country \in Countries(pol)
      BY <2>4, <1>2 DEF Satisfiable, Countries
    <3> QED
      BY <2>2, <2>4, <3>1
  <2> QED
    BY <2>1, <2>3, <2>4
<1>3. PassesRestrictions(rec, more)
  BY <1>2 DEF PassesRestrictions, Keeps, Willing
<1>4. LocationMatches(rec, pol) => LocationMatches(rec, more)
  BY DEF LocationMatches, Willing
<1> QED
  BY <1>3, <1>4 DEF Keeps, Willing
=============================================================================
