--------------------------- MODULE MCEmailOvernight ---------------------------
(***************************************************************************)
(* Two users.  Ann has a companies row of three postings, and both have a  *)
(* linkedin row that finds the same posting.  Two alerts lead to the same  *)
(* listing under different tokens; the first has an external link too.     *)
(***************************************************************************)
EXTENDS EmailOvernight

Row(u, s) == [run |-> "n1", user |-> u, source |-> s]

MCPlanned == <<Row("ann", "companies"), Row("ann", "linkedin"), Row("bob", "linkedin")>>
MCUserRank == [ann |-> 1, bob |-> 2]
MCSourceRank == [companies |-> 1, linkedin |-> 2, ziprecruiter_email |-> 3]

K(t) == <<"board", t>>
Offer(t) == [key |-> K(t), title |-> t]
MCOffers == Row("ann", "companies") :> <<Offer("chef"), Offer("nurse"), Offer("intern")>>
         @@ Row("ann", "linkedin") :> <<Offer("pilot")>>
         @@ Row("bob", "linkedin") :> <<Offer("pilot")>>
MCLengths == [companies |-> {1}, linkedin |-> {1, 2}]
MCSimilarity == [u \in {"ann", "bob"} |-> [chef |-> 1, nurse |-> 2, intern |-> 3, pilot |-> 4]]
MCHashRank == [k \in {K(t) : t \in {"chef", "nurse", "intern", "pilot"}} |-> 1]

Policy(veto, depth, excluded) == [veto |-> veto, depth |-> depth, excluded |-> excluded]
Open == Policy(Unset, Unset, {})
Scenario(on, pol, w, e) ==
  [system |-> [enabled |-> on, depth |-> 50], policies |-> [ann |-> pol, bob |-> Open],
   lives |-> [worker |-> w, email |-> e]]
MCScenarios ==
  {Scenario(on, pol, 2, 0) : <<on, pol>> \in
     {<<TRUE, Open>>, <<TRUE, Policy(TRUE, 67, {"intern"})>>,
      <<TRUE, Policy(FALSE, Unset, {})>>, <<FALSE, Policy(TRUE, 67, {})>>}}
  \cup {Scenario(TRUE, Open, 1, 1), Scenario(FALSE, Open, 0, 2)}

Link(token, job, external) == [token |-> token, job |-> job, external |-> external]
MCLinks == <<<<Link("t1", "baker", FALSE), Link("t2", "clerk", TRUE)>>, <<Link("t3", "baker", FALSE)>>>>

Option(mode, cache, stale, maxFiles, maxJobs) ==
  [mode |-> mode, pull |-> TRUE, cache |-> cache, stale |-> stale, maxEmails |-> Unlimited,
   maxFiles |-> maxFiles, maxJobs |-> maxJobs]
MCEmailOptions ==
  {Option("inline", TRUE, FALSE, Unlimited, Unlimited),
   Option("enrich", FALSE, TRUE, 1, 1),
   Option("score", TRUE, FALSE, Unlimited, Unlimited)}
=============================================================================
