----------------------------- MODULE JobLedger -----------------------------
(***************************************************************************)
(* What the scrape queue promises, without processes, SQL or files: every  *)
(* row is planned once, is leased only from pending and only while no row  *)
(* of its source is leased, ends once, and is given back only while it is  *)
(* leased.  Overnight implements it as long as invocations do not overlap. *)
(***************************************************************************)
CONSTANTS Jobs, SourceOf(_)

VARIABLE status

Init == status = [j \in Jobs |-> "absent"]

Plan(j) ==
    /\ status[j] = "absent"
    /\ status' = [status EXCEPT ![j] = "pending"]

Lease(j) ==
    /\ status[j] = "pending"
    /\ \A k \in Jobs : status[k] = "running" => SourceOf(k) # SourceOf(j)
    /\ status' = [status EXCEPT ![j] = "running"]

Finish(j) ==
    /\ status[j] = "running"
    /\ \E s \in {"succeeded", "failed"} : status' = [status EXCEPT ![j] = s]

\* An interrupted invocation gives its leases back; the set is its choice.
GiveBack(S) ==
    /\ \A j \in S : status[j] = "running"
    /\ status' = [j \in Jobs |-> IF j \in S THEN "pending" ELSE status[j]]

Next ==
    \/ \E j \in Jobs : Plan(j) \/ Lease(j) \/ Finish(j)
    \/ \E S \in SUBSET Jobs : GiveBack(S)

Spec == Init /\ [][Next]_status
=============================================================================
