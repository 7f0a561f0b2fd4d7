---------------------------- MODULE MCBlobIngest ----------------------------
(* Instances of BlobIngest for TLC. *)
EXTENDS BlobIngest

CONSTANTS ann, bob, eve, h1, h2

Rec(u, h) == [user |-> u, hash |-> h, storable |-> TRUE]
TooLarge(u, h) == [user |-> u, hash |-> h, storable |-> FALSE]
Blob(r, ok, recs) == [run |-> r, parses |-> ok, records |-> recs]

\* Two runs of two users: scores of one key from both runs, an address without
\* an app.users row, a truncated file, a blob without records put there by hand,
\* and a row the tables refuse.
MCTwoRuns == <<
    Blob(1, TRUE, <<Rec(ann, h1), Rec(ann, h2)>>),
    Blob(1, FALSE, <<>>),
    Blob(2, TRUE, <<Rec(ann, h1)>>),
    Blob(2, TRUE, <<Rec(eve, h2)>>),
    Blob(2, TRUE, <<>>),
    Blob(2, TRUE, <<TooLarge(bob, h1)>>)>>

\* A posting whose hourly rate, times 2080, does not fit salary_min_usd.
MCPoison == <<
    Blob(1, TRUE, <<TooLarge(ann, h1)>>),
    Blob(1, TRUE, <<Rec(bob, h1), Rec(bob, h2)>>)>>
=============================================================================
