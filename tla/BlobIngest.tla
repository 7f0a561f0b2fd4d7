----------------------------- MODULE BlobIngest -----------------------------
(***************************************************************************)
(* From a run's scored files to the database: scripts/upload_blob.py puts   *)
(* one blob per user into the container pending, a container job (at most   *)
(* one replica at a time) runs src/src/ingest/cli.py --blob-mode over what  *)
(* it lists there, and each blob ends in processed or failed.               *)
(*                                                                         *)
(* A blob is its position in name order.  Names start with the run id, a    *)
(* date, so an older run's blobs come first.  A blob's content never        *)
(* changes: uploading its name again stores the same records.               *)
(***************************************************************************)
EXTENDS Naturals, Sequences, FiniteSets

CONSTANTS Users,      \* e-mail addresses the records carry
          KnownUsers, \* those with an app.users row
          Hashes,     \* dedup hashes
          Content,    \* the blobs in name order
          MaxFaults   \* bound on failed uploads, database errors and crashes

Blobs == 1..Len(Content)

\* storable: raw.job_postings and raw.job_scores take the row.  JobSpy's amounts
\* are annualised without a bound, and the salary columns are INTEGER.
Records == [user: Users, hash: Hashes, storable: BOOLEAN]

\* _stamp_user_email makes a file one user's: two blobs of one run share no user.
ASSUME ContentOK ==
    /\ KnownUsers \subseteq Users /\ MaxFaults \in Nat
    /\ Content \in Seq([run: Nat, parses: BOOLEAN, records: Seq(Records)])
    /\ \A b, c \in Blobs : b < c => Content[b].run <= Content[c].run
    /\ \A b, c \in Blobs : b # c /\ Content[b].run = Content[c].run =>
        \A k \in 1..Len(Content[b].records), l \in 1..Len(Content[c].records) :
            Content[b].records[k].user # Content[c].records[l].user

VARIABLES
    upNext,     \* the next blob upload_run stores
    pending, processed, failed,     \* the containers
    pc,         \* the replica: "off", "next", "ingest", "upload", "delete"
    listed,     \* what is left of its listing
    cur,        \* the blob it works on
    target,     \* where _move_blob takes it
    postings,   \* raw.job_postings: [Hashes -> blob it came from, 0 for none]
    scores,     \* raw.job_scores: the blob that wrote it last, 0 for none
    faults

containers == <<pending, processed, failed>>
replica == <<pc, listed, cur, target>>
tables == <<postings, scores>>
vars == <<upNext, containers, replica, tables, faults>>

Keys == Users \X Hashes

Key(rec) == <<rec.user, rec.hash>>

TypeOK ==
    /\ upNext \in 1..(Len(Content) + 1)
    /\ pending \subseteq Blobs /\ processed \subseteq Blobs /\ failed \subseteq Blobs
    /\ pc \in {"off", "next", "ingest", "upload", "delete"}
    /\ listed \subseteq Blobs
    /\ cur \in Blobs \cup {0}
    /\ target \in {"processed", "failed"}
    /\ postings \in [Hashes -> Blobs \cup {0}]
    /\ scores \in [Keys -> Blobs \cup {0}]
    /\ faults \in 0..MaxFaults

Init ==
    /\ upNext = 1
    /\ pending = {} /\ processed = {} /\ failed = {}
    /\ pc = "off" /\ listed = {} /\ cur = 0 /\ target = "processed"
    /\ postings = [h \in Hashes |-> 0]
    /\ scores = [k \in Keys |-> 0]
    /\ faults = 0

Fault == faults < MaxFaults /\ faults' = faults + 1

-----------------------------------------------------------------------------
\* The uploader

\* One `az storage blob upload` of upload_run; the operator uploads the runs in
\* the order of their dates.
Upload ==
    /\ upNext <= Len(Content)
    /\ pending' = pending \cup {upNext}
    /\ upNext' = upNext + 1
    /\ UNCHANGED <<processed, failed, replica, tables, faults>>

\* az fails, before or after the blob is stored; check=True ends upload_run and
\* the operator starts the run's upload over.
UploadFails ==
    /\ upNext <= Len(Content)
    /\ Fault
    /\ pending' \in {pending, pending \cup {upNext}}
    /\ upNext' \in {b \in 1..upNext :
            /\ Content[b].run = Content[upNext].run
            /\ \A c \in 1..(b - 1) : Content[c].run # Content[b].run}
    /\ UNCHANGED <<processed, failed, replica, tables>>

-----------------------------------------------------------------------------
\* The replica

Rows(b) == {Content[b].records[k] : k \in 1..Len(Content[b].records)}

\* The scaler finds blobs in pending, or the platform retries a failed replica:
\* either runs the container from the top, and it lists pending once.
StartReplica ==
    /\ pc = "off"
    /\ pending # {}
    /\ listed' = pending
    /\ pc' = "next"
    /\ UNCHANGED <<upNext, containers, cur, target, tables, faults>>

\* A listing in no particular order.
AnyListed == listed

\* list_blobs returns names in lexicographic order.
FirstListed == {b \in listed : \A c \in listed : b <= c}

MoveTo(t) == pc' = "upload" /\ target' = t

\* A reader that skips an unparseable blob without moving it.
TakeSkipsUnparseable ==
    /\ pc = "next"
    /\ \E b \in FirstListed :
        /\ cur' = b
        /\ listed' = listed \ {b}
        /\ IF ~Content[b].parses THEN UNCHANGED <<pc, target>>
           ELSE IF Content[b].records = <<>> THEN MoveTo("processed")
           ELSE pc' = "ingest" /\ UNCHANGED target
    /\ UNCHANGED <<upNext, containers, tables, faults>>

\* The next blob is downloaded and read: an unparseable one is dead-lettered, an
\* empty one is done.
Take ==
    /\ pc = "next"
    /\ \E b \in FirstListed :
        /\ cur' = b
        /\ listed' = listed \ {b}
        /\ \/ ~Content[b].parses /\ MoveTo("failed")
           \/ Content[b].parses /\ Rows(b) = {} /\ MoveTo("processed")
           \/ Content[b].parses /\ Rows(b) # {} /\ pc' = "ingest" /\ UNCHANGED target
    /\ UNCHANGED <<upNext, containers, tables, faults>>

\* Every listed blob is handled.
ReplicaDone ==
    /\ pc = "next"
    /\ listed = {}
    /\ pc' = "off"
    /\ UNCHANGED <<upNext, containers, listed, cur, target, tables, faults>>

\* resolve_user_ids raises ValueError: one unknown address fails the batch.
Unresolvable(b) == \E rec \in Rows(b) : rec.user \notin KnownUsers

IngestRejects ==
    /\ pc = "ingest"
    /\ Unresolvable(cur)
    /\ MoveTo("failed")
    /\ UNCHANGED <<upNext, containers, listed, cur, tables, faults>>

\* An insert raises psycopg.DataError, today and at every retry.
Refused(b) == \E rec \in Rows(b) : ~rec.storable

\* _connect_and_ingest answers psycopg.Error with sys.exit(1): the transaction
\* rolls back, the blob stays where it is and the rest of the listing is dropped.
IngestExits ==
    /\ pc = "ingest"
    /\ ~Unresolvable(cur) /\ Refused(cur)
    /\ pc' = "off"
    /\ UNCHANGED <<upNext, containers, listed, cur, target, tables, faults>>

\* The posting insert (DO NOTHING) and the score upsert (DO UPDATE) of rows.
WriteRows(b, rows) ==
    /\ postings' = [h \in Hashes |->
            IF postings[h] = 0 /\ \E rec \in rows : rec.hash = h
            THEN b ELSE postings[h]]
    /\ scores' = [k \in Keys |->
            IF \E rec \in rows : Key(rec) = k
            THEN b ELSE scores[k]]

\* An ingest without the transaction: an error after some rows leaves them.
IngestSomeRows ==
    /\ pc = "ingest"
    /\ ~Unresolvable(cur) /\ ~Refused(cur)
    /\ \E rows \in SUBSET Rows(cur) :
        /\ WriteRows(cur, rows)
        /\ IF rows = Rows(cur) THEN MoveTo("processed")
                               ELSE pc' = "off" /\ UNCHANGED target
    /\ UNCHANGED <<upNext, containers, listed, cur, faults>>

\* The transaction of ingest commits every row.
IngestCommits ==
    /\ pc = "ingest"
    /\ ~Unresolvable(cur) /\ ~Refused(cur)
    /\ WriteRows(cur, Rows(cur))
    /\ MoveTo("processed")
    /\ UNCHANGED <<upNext, containers, listed, cur, faults>>

\* A move that deletes first and uploads afterwards.
MoveDeletesFirst ==
    /\ pc = "upload"
    /\ pending' = pending \ {cur}
    /\ pc' = "delete"
    /\ UNCHANGED <<upNext, processed, failed, listed, cur, target, tables, faults>>

\* _move_blob: upload to the target container, overwriting ...
MoveUploads ==
    /\ pc = "upload"
    /\ processed' = IF target = "processed" THEN processed \cup {cur} ELSE processed
    /\ failed' = IF target = "failed" THEN failed \cup {cur} ELSE failed
    /\ pc' = "delete"
    /\ UNCHANGED <<upNext, pending, listed, cur, target, tables, faults>>

\* ... then delete from pending.
MoveDeletes ==
    /\ pc = "delete"
    /\ pending' = pending \ {cur}
    /\ pc' = "next"
    /\ UNCHANGED <<upNext, processed, failed, listed, cur, target, tables, faults>>

\* A database that is away before the commit; replicaTimeout, a lost node,
\* or an error of the blob service anywhere.
ReplicaDies ==
    /\ pc # "off"
    /\ Fault
    /\ pc' = "off"
    /\ UNCHANGED <<upNext, containers, listed, cur, target, tables>>

-----------------------------------------------------------------------------
Replica ==
    \/ StartReplica \/ Take \/ ReplicaDone
    \/ IngestRejects \/ IngestExits \/ IngestCommits
    \/ MoveUploads \/ MoveDeletes

Next == Upload \/ UploadFails \/ Replica \/ ReplicaDies

Spec == Init /\ [][Next]_vars

\* The scaler polls pending every minute and replicas run; nobody has to upload.
FairSpec == Spec /\ WF_vars(Replica)

-----------------------------------------------------------------------------
\* Properties

\* A blob that has been stored is always in one of the containers, wherever a
\* replica died in _move_blob.
Stored == pending \cup processed \cup failed
NothingLost == [][Stored \subseteq Stored']_vars

\* What processed/ promises: every record of the blob is in the tables, and its
\* score is this blob's or a newer run's.  Re-uploads, retries and re-ingests
\* after a half-done move never bring an older score back (last write wins).
ProcessedStands ==
    \A b \in processed : \A rec \in Rows(b) :
        postings[rec.hash] # 0 /\ scores[Key(rec)] >= b

\* "silently assigning scores to the wrong feed is the one unrecoverable
\* mistake": a dead-lettered blob has written nothing, and a blob that has
\* written one record has written all of them.
AllOrNothing ==
    \A k \in Keys : scores[k] # 0 =>
        /\ scores[k] \notin failed
        /\ \A rec \in Rows(scores[k]) : scores[Key(rec)] >= scores[k]

\* The reader takes it and the tables refuse it.
Poison(b) == Content[b].parses /\ ~Unresolvable(b) /\ Refused(b)

\* Every blob leaves pending, unless the tables refuse it or one before it: a blob
\* the reader rejects is dead-lettered "so KEDA doesn't re-trigger on the same
\* poison blob" (cli.py:23-24), and retries of a refused one do not starve the
\* blobs before it.
BlobsSettle ==
    \A b \in Blobs :
        (\A c \in 1..b : ~Poison(c)) => (b \in pending ~> b \notin pending)

-----------------------------------------------------------------------------
\* A promise the code does not keep, with the README's account of how.
\* No run checks it.

\* "a bad record dead-letters that user's blob alone" (upload_blob.py:9-10):
\* a blob the reader and the tables take gets through.
BadRecordStaysAlone ==
    \A b \in Blobs :
        Content[b].parses /\ ~Unresolvable(b) /\ ~Refused(b) =>
            (b \in pending ~> b \in processed)
=============================================================================
