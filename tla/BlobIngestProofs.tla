-------------------------- MODULE BlobIngestProofs --------------------------
(***************************************************************************)
(* What BlobIngest guarantees for every content of the blobs, every set of  *)
(* users and any number of faults.                                          *)
(***************************************************************************)
EXTENDS BlobIngest, SequenceTheorems, TLAPS

Run(b) == Content[b].run

\* The replica is between the download of cur and its delete.
Busy == pc \in {"ingest", "upload", "delete"}

\* The reader and resolve_user_ids reject it.
Rejected(b) == ~Content[b].parses \/ Unresolvable(b)

\* Every record is in the tables, with this blob's score or a newer one.
Standing(b) ==
    \A rec \in Rows(b) : postings[rec.hash] # 0 /\ scores[Key(rec)] >= b

Wrote(b) == \E k \in Keys : scores[k] = b

\* Blobs some replica has taken, now or earlier, with an effect.
Touched(b) == b \in processed \/ b \in failed \/ Wrote(b) \/ (Busy /\ b = cur)

\* The uploader is never behind the run of a stored blob.
UploadsInOrder == upNext \in Blobs => \A b \in Stored : Run(b) <= Run(upNext)

\* The replica works on blobs that are in pending.
WorksOnPending ==
    /\ pc # "off" => listed \subseteq pending
    /\ Busy => cur \in pending /\ cur \notin listed

\* A blob of an older run that is pending is in the listing or in the works.
OlderListed ==
    pc # "off" => \A b \in listed, c \in pending :
        Run(c) < Run(b) => c \in listed \/ (Busy /\ c = cur)

\* Nothing of an older run is pending once a newer blob was taken.
OlderGone == \A b \in Blobs, c \in pending : Touched(b) => Run(b) <= Run(c)

Written ==
    \A b \in Blobs : Wrote(b) => b \in Stored /\ Standing(b) /\ ~Rejected(b)

Sorted ==
    /\ \A b \in processed : Standing(b)
    /\ \A b \in failed : Rejected(b)

Moving ==
    /\ pc = "ingest" => Content[cur].parses
    /\ pc \in {"upload", "delete"} =>
        IF target = "processed" THEN Standing(cur) ELSE Rejected(cur)
    /\ pc = "delete" => cur \in IF target = "processed" THEN processed ELSE failed

IngestInv ==
    /\ TypeOK /\ UploadsInOrder /\ WorksOnPending /\ OlderListed /\ OlderGone
    /\ Written /\ Sorted /\ Moving

-----------------------------------------------------------------------------
(* The content of the blobs *)

\* What a position stands for: a run number and rows that are records.
LEMMA BlobFacts ==
    ASSUME NEW b \in Blobs
    PROVE  b \in Nat /\ b > 0 /\ Run(b) \in Nat /\ Rows(b) \subseteq Records
<1>1. b \in 1..Len(Content) /\ Content \in Seq([run: Nat, parses: BOOLEAN, records: Seq(Records)])
  BY ContentOK DEF Blobs, ContentOK
<1>2. Content[b] \in [run: Nat, parses: BOOLEAN, records: Seq(Records)]
  BY <1>1, ElementOfSeq
<1>3. Rows(b) \subseteq Records
  <2>1. Content[b].records \in Seq(Records)
    BY <1>2
  <2> QED
    BY <2>1, ElementOfSeq DEF Rows
<1> QED
  BY <1>1, <1>2, <1>3 DEF Run

\* Names sort by run: a blob of an older run comes first ...
LEMMA OlderFirst ==
    ASSUME NEW b \in Blobs, NEW c \in Blobs, Run(b) < Run(c)
    PROVE  b < c
<1>1. SUFFICES ASSUME b >= c PROVE FALSE
  BY BlobFacts
<1>2. CASE b = c
  BY <1>2, BlobFacts
<1>3. CASE c < b
  <2>1. Run(c) <= Run(b)
    BY <1>3, ContentOK DEF ContentOK, Run
  <2> QED
    BY <2>1, BlobFacts
<1> QED
  BY <1>1, <1>2, <1>3, BlobFacts

\* ... and two blobs of one run share no user.
LEMMA OneUserPerRun ==
    ASSUME NEW b \in Blobs, NEW c \in Blobs, b # c, Run(b) = Run(c),
           NEW rec \in Rows(b), NEW sec \in Rows(c)
    PROVE  rec.user # sec.user
<1>1. PICK k \in 1..Len(Content[b].records) : rec = Content[b].records[k]
  BY DEF Rows
<1>2. PICK l \in 1..Len(Content[c].records) : sec = Content[c].records[l]
  BY DEF Rows
<1> QED
  BY <1>1, <1>2, ContentOK DEF ContentOK, Run

-----------------------------------------------------------------------------
(* The tables *)

\* The transaction of a blob makes it stand ...
LEMMA CommitStands ==
    ASSUME TypeOK, NEW c \in Blobs, WriteRows(c, Rows(c))
    PROVE  Standing(c)'
<1> SUFFICES ASSUME NEW rec \in Rows(c)
             PROVE  postings'[rec.hash] # 0 /\ scores'[Key(rec)] >= c
  BY DEF Standing
<1>1. rec.user \in Users /\ rec.hash \in Hashes /\ c # 0
  BY BlobFacts DEF Records
<1>2. postings'[rec.hash] # 0
  BY <1>1 DEF WriteRows
<1>3. Key(rec) \in Keys
  BY <1>1 DEF Keys, Key
<1>4. scores'[Key(rec)] = c
  BY <1>3 DEF WriteRows
<1> QED
  BY <1>2, <1>4, BlobFacts

\* ... and leaves every blob of its run and of older ones standing.
LEMMA CommitKeeps ==
    ASSUME TypeOK, NEW c \in Blobs, WriteRows(c, Rows(c)),
           NEW b \in Blobs, Standing(b), Run(b) <= Run(c)
    PROVE  Standing(b)'
<1> SUFFICES ASSUME NEW rec \in Rows(b)
             PROVE  postings'[rec.hash] # 0 /\ scores'[Key(rec)] >= b
  BY DEF Standing
<1>1. rec.user \in Users /\ rec.hash \in Hashes /\ c # 0
  BY BlobFacts DEF Records
<1>2. postings'[rec.hash] # 0
  BY <1>1 DEF WriteRows, Standing
<1>3. Key(rec) \in Keys
  BY <1>1 DEF Keys, Key
<1>4. CASE \E sec \in Rows(c) : Key(sec) = Key(rec)
  <2>1. scores'[Key(rec)] = c
    BY <1>3, <1>4 DEF WriteRows
  <2>2. CASE b = c
    BY <1>2, <2>1, <2>2, BlobFacts
  <2>3. CASE b # c
    <3>1. Run(b) # Run(c)
      BY <1>4, <2>3, OneUserPerRun DEF Key
    <3>2. b < c
      BY <3>1, OlderFirst, BlobFacts
    <3> QED
      BY <1>2, <2>1, <3>2, BlobFacts
  <2> QED
    BY <2>2, <2>3
<1>5. CASE ~ \E sec \in Rows(c) : Key(sec) = Key(rec)
  <2>1. scores'[Key(rec)] = scores[Key(rec)]
    BY <1>3, <1>5 DEF WriteRows
  <2> QED
    BY <1>2, <2>1 DEF Standing
<1> QED
  BY <1>4, <1>5

\* A score is by the committed blob or as it was.
LEMMA CommitWrites ==
    ASSUME NEW c \in Blobs, WriteRows(c, Rows(c)), NEW b \in Blobs, Wrote(b)'
    PROVE  b = c \/ Wrote(b)
BY DEF WriteRows, Wrote

\* Tables that do not change say the same of every blob.
LEMMA SameTables ==
    ASSUME UNCHANGED tables, NEW b
    PROVE  Standing(b)' = Standing(b) /\ Wrote(b)' = Wrote(b)
BY DEF tables, Standing, Wrote

-----------------------------------------------------------------------------
(* The invariant *)

\* Empty containers and tables, and no replica.
LEMMA InitInv == Init => IngestInv
<1> SUFFICES ASSUME Init PROVE IngestInv
  OBVIOUS
<1>1. Len(Content) \in Nat /\ MaxFaults \in Nat
  BY ContentOK, LenProperties DEF ContentOK
<1>2. TypeOK
  BY <1>1 DEF Init, TypeOK
<1>3. \A b \in Blobs : ~Wrote(b)
  BY BlobFacts DEF Init, Wrote
<1> QED
  BY <1>2, <1>3 DEF Init, IngestInv, UploadsInOrder, WorksOnPending, OlderListed,
     OlderGone, Touched, Busy, Written, Sorted, Moving, Stored

\* Every action keeps the types.
LEMMA NextType == TypeOK /\ WorksOnPending /\ [Next]_vars => TypeOK'
<1> SUFFICES ASSUME TypeOK, WorksOnPending, [Next]_vars PROVE TypeOK'
  OBVIOUS
<1>0. Len(Content) \in Nat /\ MaxFaults \in Nat
  BY ContentOK, LenProperties DEF ContentOK
<1> USE <1>0 DEF TypeOK, Blobs, containers, replica, tables
<1>1. CASE Upload
  BY <1>1 DEF Upload
<1>2. CASE UploadFails
  BY <1>2 DEF UploadFails, Fault
<1>3. CASE StartReplica
  BY <1>3 DEF StartReplica
<1>4. CASE Take
  BY <1>4 DEF Take, FirstListed, MoveTo
<1>5. CASE ReplicaDone
  BY <1>5 DEF ReplicaDone
<1>6. CASE IngestRejects
  BY <1>6 DEF IngestRejects, MoveTo
<1>7. CASE IngestExits
  BY <1>7 DEF IngestExits
<1>8. CASE IngestCommits
  <2>1. postings' \in [Hashes -> Blobs \cup {0}] /\ scores' \in [Keys -> Blobs \cup {0}]
    BY <1>8 DEF IngestCommits, WriteRows
  <2> QED
    BY <1>8, <2>1 DEF IngestCommits, MoveTo
<1>9. CASE MoveUploads
  BY <1>9 DEF MoveUploads, WorksOnPending, Busy
<1>10. CASE MoveDeletes
  BY <1>10 DEF MoveDeletes
<1>11. CASE ReplicaDies
  BY <1>11 DEF ReplicaDies, Fault
<1>12. CASE UNCHANGED vars
  BY <1>12 DEF vars
<1> QED
  BY <1>1, <1>2, <1>3, <1>4, <1>5, <1>6, <1>7, <1>8, <1>9, <1>10, <1>11, <1>12
  DEF Next, Replica

\* A step that leaves the replica and the tables alone, adds at most upNext to
\* pending and keeps the uploader in its run or further.
LEMMA UploadInv ==
    ASSUME IngestInv, TypeOK', UNCHANGED <<processed, failed, replica, tables>>,
           upNext \in Blobs, pending' \in {pending, pending \cup {upNext}},
           upNext' \in Blobs => Run(upNext) <= Run(upNext')
    PROVE  IngestInv'
<1> USE DEF IngestInv, replica
<1>1. \A b : Standing(b)' = Standing(b) /\ Wrote(b)' = Wrote(b)
  BY SameTables
<1>2. \A b \in Blobs : Touched(b)' <=> Touched(b)
  BY <1>1 DEF Touched, Busy
<1>3. \A b \in Blobs : Touched(b) => b \in Stored
  BY DEF Touched, Written, WorksOnPending, Stored
<1>4. \A b \in Stored : Run(b) <= Run(upNext)
  BY DEF UploadsInOrder
<1>5. Stored' \subseteq Stored \cup {upNext} /\ Stored \subseteq Stored' /\ Stored \subseteq Blobs
  BY DEF Stored, TypeOK
<1>6. UploadsInOrder'
  BY <1>4, <1>5, BlobFacts DEF UploadsInOrder
<1>7. WorksOnPending'
  BY DEF WorksOnPending, Busy
<1>8. OlderListed'
  BY <1>4, BlobFacts DEF OlderListed, WorksOnPending, Stored, Busy, TypeOK
<1>9. OlderGone'
  BY <1>2, <1>3, <1>4 DEF OlderGone
<1>10. Written' /\ Sorted' /\ Moving'
  BY <1>1, <1>5 DEF Written, Sorted, Moving
<1> QED
  BY <1>6, <1>7, <1>8, <1>9, <1>10

\* A replica that stops, or has nothing left to do.
LEMMA StopInv ==
    ASSUME IngestInv, TypeOK', pc' = "off", UNCHANGED <<upNext, containers, tables>>
    PROVE  IngestInv'
<1> USE DEF IngestInv, containers
<1>1. \A b : Standing(b)' = Standing(b) /\ Wrote(b)' = Wrote(b)
  BY SameTables
<1>2. \A b \in Blobs : Touched(b)' => Touched(b)
  BY <1>1 DEF Touched, Busy
<1> QED
  BY <1>1, <1>2 DEF UploadsInOrder, Stored, WorksOnPending, Busy, OlderListed,
     OlderGone, Written, Sorted, Moving

\* A new replica has everything that is pending in its listing.
LEMMA StartInv ==
    ASSUME IngestInv, TypeOK', StartReplica
    PROVE  IngestInv'
<1> USE DEF IngestInv, StartReplica, containers
<1>1. \A b : Standing(b)' = Standing(b) /\ Wrote(b)' = Wrote(b)
  BY SameTables
<1>2. \A b \in Blobs : Touched(b)' => Touched(b)
  BY <1>1 DEF Touched, Busy
<1> QED
  BY <1>1, <1>2 DEF UploadsInOrder, Stored, WorksOnPending, Busy, OlderListed,
     OlderGone, Written, Sorted, Moving

\* The blob a replica takes is of the oldest run that is pending.
LEMMA TakeInv ==
    ASSUME IngestInv, TypeOK', Take
    PROVE  IngestInv'
<1> USE DEF IngestInv
<1>1. UNCHANGED <<upNext, containers, tables>> /\ pc = "next"
  BY DEF Take
<1>2. PICK b \in FirstListed : cur' = b /\ listed' = listed \ {b}
  BY DEF Take
<1>3. b \in listed /\ b \in pending /\ b \in Blobs /\ \A c \in listed : b <= c
  BY <1>1, <1>2 DEF FirstListed, WorksOnPending, TypeOK
<1>4. pc' \in {"ingest", "upload"}
  BY <1>2 DEF Take, MoveTo
<1>5. \A c \in Blobs : Standing(c)' = Standing(c) /\ Wrote(c)' = Wrote(c)
  BY <1>1, SameTables
<1>6. \A c \in Blobs : Touched(c)' => Touched(c) \/ c = b
  BY <1>1, <1>2, <1>5 DEF Touched, Busy, containers
<1>7. WorksOnPending' /\ OlderListed'
  BY <1>1, <1>2, <1>3, <1>4 DEF WorksOnPending, OlderListed, Busy, containers
<1>8. OlderGone'
  <2>1. \A c \in pending : Run(b) <= Run(c)
    <3>1. SUFFICES ASSUME NEW c \in pending, ~(Run(b) <= Run(c)) PROVE FALSE
      OBVIOUS
    <3>2. c \in Blobs /\ Run(c) < Run(b)
      BY <1>3, <3>1, BlobFacts DEF TypeOK
    <3>3. c \in listed
      BY <1>1, <1>3, <3>2 DEF OlderListed, Busy
    <3>4. c < b
      BY <1>3, <3>2, OlderFirst
    <3> QED
      BY <1>3, <3>2, <3>3, <3>4, BlobFacts
  <2> QED
    BY <1>1, <1>6, <2>1 DEF OlderGone, containers
<1>9. Moving'
  <2>1. pc' = "ingest" => Content[b].parses
    BY <1>2 DEF Take, MoveTo
  <2>2. CASE pc' = "upload"
    <3>1. \/ ~Content[b].parses /\ target' = "failed"
          \/ Rows(b) = {} /\ target' = "processed"
      BY <1>2, <2>2 DEF Take, MoveTo
    <3>2. IF target' = "processed" THEN Standing(b)' ELSE Rejected(b)
      BY <3>1 DEF Standing, Rejected
    <3> QED
      BY <1>2, <2>2, <3>2 DEF Moving
  <2> QED
    BY <1>2, <1>4, <2>1, <2>2 DEF Moving
<1>10. UploadsInOrder' /\ Written' /\ Sorted'
  BY <1>1, <1>5 DEF UploadsInOrder, Written, Sorted, Stored, containers, TypeOK
<1> QED
  BY <1>7, <1>8, <1>9, <1>10

\* A rejected batch leaves the tables alone and is on its way to failed.
LEMMA RejectInv ==
    ASSUME IngestInv, TypeOK', IngestRejects
    PROVE  IngestInv'
<1> USE DEF IngestInv, IngestRejects, MoveTo, containers
<1>1. \A b : Standing(b)' = Standing(b) /\ Wrote(b)' = Wrote(b)
  BY SameTables
<1>2. \A b \in Blobs : Touched(b)' <=> Touched(b)
  BY <1>1 DEF Touched, Busy
<1>3. Moving'
  BY DEF Moving, Rejected
<1> QED
  BY <1>1, <1>2, <1>3 DEF UploadsInOrder, Stored, WorksOnPending, Busy, OlderListed,
     OlderGone, Written, Sorted

\* A committed batch takes nothing from the blobs that stood before.
LEMMA CommitInv ==
    ASSUME IngestInv, TypeOK', IngestCommits
    PROVE  IngestInv'
<1> USE DEF IngestInv
<1>1. /\ UNCHANGED <<upNext, containers, listed, cur, faults>>
      /\ pc = "ingest" /\ pc' = "upload" /\ target' = "processed"
      /\ ~Unresolvable(cur) /\ WriteRows(cur, Rows(cur))
  BY DEF IngestCommits, MoveTo
<1>2. cur \in pending /\ cur \in Blobs /\ Content[cur].parses
  BY <1>1 DEF WorksOnPending, Busy, TypeOK, Moving
<1>3. \A b \in Blobs : Touched(b) /\ Standing(b) => Standing(b)'
  BY <1>1, <1>2, CommitKeeps DEF OlderGone
<1>4. Standing(cur)'
  BY <1>1, <1>2, CommitStands
<1>5. \A b \in Blobs : Wrote(b)' => b = cur \/ Wrote(b)
  BY <1>1, <1>2, CommitWrites
<1>6. \A b \in Blobs : Touched(b)' => Touched(b)
  BY <1>1, <1>5 DEF Touched, Busy, containers
<1>7. OlderGone'
  BY <1>1, <1>6 DEF OlderGone, containers
<1>8. Written'
  BY <1>1, <1>2, <1>3, <1>4, <1>5 DEF Written, Touched, Rejected, Stored, containers
<1>9. Sorted'
  BY <1>1, <1>3 DEF Sorted, Touched, containers, TypeOK
<1>10. Moving'
  BY <1>1, <1>4 DEF Moving
<1>11. UploadsInOrder' /\ WorksOnPending' /\ OlderListed'
  BY <1>1 DEF UploadsInOrder, WorksOnPending, OlderListed, Stored, Busy, containers
<1> QED
  BY <1>7, <1>8, <1>9, <1>10, <1>11

\* The first half of a move: the blob is in two containers ...
LEMMA MoveUploadsInv ==
    ASSUME IngestInv, TypeOK', MoveUploads
    PROVE  IngestInv'
<1> USE DEF IngestInv
<1>1. /\ UNCHANGED <<upNext, pending, listed, cur, target, tables, faults>>
      /\ pc = "upload" /\ pc' = "delete"
  BY DEF MoveUploads
<1>2. cur \in pending /\ cur \in Blobs
  BY <1>1 DEF WorksOnPending, Busy, TypeOK
<1>3. \A b : Standing(b)' = Standing(b) /\ Wrote(b)' = Wrote(b)
  BY <1>1, SameTables
<1>4. processed' \subseteq processed \cup {cur} /\ failed' \subseteq failed \cup {cur}
  BY DEF MoveUploads
<1>5. Stored' = Stored
  BY <1>1, <1>2 DEF MoveUploads, Stored
<1>6. \A b \in Blobs : Touched(b)' => Touched(b)
  BY <1>1, <1>3, <1>4 DEF Touched, Busy
<1>7. Sorted' /\ Moving'
  BY <1>1, <1>3 DEF MoveUploads, Sorted, Moving, TypeOK
<1> QED
  BY <1>1, <1>3, <1>5, <1>6, <1>7 DEF UploadsInOrder, WorksOnPending, Busy,
     OlderListed, OlderGone, Written

\* ... and the second half takes it out of pending.
LEMMA MoveDeletesInv ==
    ASSUME IngestInv, TypeOK', MoveDeletes
    PROVE  IngestInv' /\ Stored' = Stored
<1> USE DEF IngestInv
<1>1. /\ UNCHANGED <<upNext, processed, failed, listed, cur, target, tables, faults>>
      /\ pc = "delete" /\ pc' = "next" /\ pending' = pending \ {cur}
  BY DEF MoveDeletes
<1>2. Stored' = Stored
  BY <1>1 DEF Moving, Stored
<1>3. \A b : Standing(b)' = Standing(b) /\ Wrote(b)' = Wrote(b)
  BY <1>1, SameTables
<1>4. \A b \in Blobs : Touched(b)' => Touched(b)
  BY <1>1, <1>3 DEF Touched, Busy
<1>5. WorksOnPending' /\ OlderListed'
  BY <1>1 DEF WorksOnPending, OlderListed, Busy
<1> QED
  BY <1>1, <1>2, <1>3, <1>4, <1>5 DEF UploadsInOrder, OlderGone, Written, Sorted, Moving

\* Every step keeps the invariant, and every stored blob somewhere.
LEMMA NextInv == IngestInv /\ [Next]_vars => IngestInv' /\ Stored \subseteq Stored'
<1> SUFFICES ASSUME IngestInv, [Next]_vars
             PROVE  IngestInv' /\ Stored \subseteq Stored'
  OBVIOUS
<1>0. TypeOK'
  BY NextType DEF IngestInv
<1>1. CASE Upload
  <2>1. upNext \in Blobs /\ (upNext' \in Blobs => Run(upNext) <= Run(upNext'))
    BY <1>1, ContentOK, BlobFacts DEF Upload, IngestInv, TypeOK, Blobs, ContentOK, Run
  <2> QED
    BY <1>0, <1>1, <2>1, UploadInv DEF Upload, Stored
<1>2. CASE UploadFails
  <2>1. upNext \in Blobs
    BY <1>2 DEF UploadFails, IngestInv, TypeOK, Blobs
  <2>2. Run(upNext') = Run(upNext) /\ Run(upNext) \in Nat
    BY <1>2, <2>1, BlobFacts DEF UploadFails, Run
  <2> QED
    BY <1>0, <1>2, <2>1, <2>2, UploadInv DEF UploadFails, Stored
<1>3. CASE StartReplica
  BY <1>0, <1>3, StartInv DEF StartReplica, Stored, containers
<1>4. CASE Take
  BY <1>0, <1>4, TakeInv DEF Take, Stored, containers
<1>5. CASE ReplicaDone
  BY <1>0, <1>5, StopInv DEF ReplicaDone, Stored, containers
<1>6. CASE IngestRejects
  BY <1>0, <1>6, RejectInv DEF IngestRejects, Stored, containers
<1>7. CASE IngestExits
  BY <1>0, <1>7, StopInv DEF IngestExits, Stored, containers
<1>8. CASE IngestCommits
  BY <1>0, <1>8, CommitInv DEF IngestCommits, Stored, containers
<1>9. CASE MoveUploads
  BY <1>0, <1>9, MoveUploadsInv DEF MoveUploads, Stored
<1>10. CASE MoveDeletes
  BY <1>0, <1>10, MoveDeletesInv
<1>11. CASE ReplicaDies
  BY <1>0, <1>11, StopInv DEF ReplicaDies, Stored, containers
<1>12. CASE UNCHANGED vars
  <2>1. \A b : Standing(b)' = Standing(b) /\ Wrote(b)' = Wrote(b)
    BY <1>12, SameTables DEF vars
  <2>2. \A b \in Blobs : Touched(b)' <=> Touched(b)
    BY <1>12, <2>1 DEF vars, Touched, Busy, containers, replica
  <2> QED
    BY <1>0, <1>12, <2>1, <2>2 DEF vars, containers, replica, IngestInv, Stored,
       UploadsInOrder, WorksOnPending, Busy, OlderListed, OlderGone, Written,
       Sorted, Moving
<1> QED
  BY <1>1, <1>2, <1>3, <1>4, <1>5, <1>6, <1>7, <1>8, <1>9, <1>10, <1>11, <1>12
  DEF Next, Replica

\* The invariant of every behaviour.
LEMMA Ingesting == Spec => []IngestInv
<1>1. Init => IngestInv
  BY InitInv
<1>2. IngestInv /\ [Next]_vars => IngestInv'
  BY NextInv
<1> QED
  BY <1>1, <1>2, PTL DEF Spec

-----------------------------------------------------------------------------
(* Theorems *)

\* The containers, the replica and the tables stay well typed.
THEOREM TypeCorrect == Spec => []TypeOK
<1>1. IngestInv => TypeOK
  BY DEF IngestInv
<1> QED
  BY <1>1, Ingesting, PTL

\* A blob upload_run stored is in one of the three containers for ever, wherever
\* replicas die and however often they are started again.
THEOREM BlobsKept == Spec => NothingLost
<1>1. IngestInv /\ [Next]_vars => [Stored \subseteq Stored']_vars
  BY NextInv
<1> QED
  BY <1>1, Ingesting, PTL DEF Spec, NothingLost

\* Every record of a blob in processed is in the tables, and no older score ever
\* replaces its own: the listing is in name order, names begin with the run's
\* date, and runs are uploaded in that order.
THEOREM ProcessedForGood == Spec => []ProcessedStands
<1>1. IngestInv => ProcessedStands
  BY DEF IngestInv, Sorted, Standing, ProcessedStands
<1> QED
  BY <1>1, Ingesting, PTL

\* A rejected blob writes nothing, and a blob that wrote one record wrote all.
THEOREM WholeBatches == Spec => []AllOrNothing
<1>1. IngestInv => AllOrNothing
  <2> SUFFICES ASSUME IngestInv, NEW k \in Keys, scores[k] # 0
               PROVE  /\ scores[k] \notin failed
                      /\ \A rec \in Rows(scores[k]) : scores[Key(rec)] >= scores[k]
    BY DEF AllOrNothing
  <2>1. scores[k] \in Blobs /\ Wrote(scores[k])
    BY DEF IngestInv, TypeOK, Wrote
  <2> QED
    BY <2>1 DEF IngestInv, Written, Sorted, Standing
<1> QED
  BY <1>1, Ingesting, PTL
=============================================================================
