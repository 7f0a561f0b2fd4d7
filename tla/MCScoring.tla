----------------------------- MODULE MCScoring -----------------------------
EXTENDS Scoring
Spokane == [city |-> "spokane", region |-> "wa", country |-> "us"]
MCUsers == <<"ann", "bob">>
Open == [class |-> "remote", restrictions |-> {}, relocation |-> FALSE, presence |-> FALSE,
         cities |-> {}, regions |-> {}]
Office == [Open EXCEPT !.class = "hybrid", !.presence = TRUE, !.cities = {"spokane"},
                       !.regions = {"or"},
                       !.restrictions = {<<Unread, [country |-> "us", state |-> "wa"]>>}]
MCVerdicts == {Open, Office}
Strict == [classes |-> {"remote"}, relocate |-> FALSE, presence |-> FALSE, acceptable |-> {Spokane}]
Willing == [Strict EXCEPT !.classes = {"remote", "hybrid"}, !.relocate = TRUE, !.presence = TRUE]
MCPolicies == {Strict, Willing}
Row(c, us) == [ctx |-> c, text |-> TRUE, wanted |-> us]
MCUnions == { [p \in {"p1", "p2"} |-> IF p = "p1" THEN Row("remote only", {"ann", "bob"})
                                     ELSE Row("any", {"bob"})],
              [p \in {"p1", "p2"} |-> IF p = "p1" THEN Row("any", {"ann"})
                                     ELSE [Row("any", {"bob"}) EXCEPT !.text = FALSE]] }
MCProfiles == { [u \in {"ann", "bob"} |-> "v1"], [u \in {"ann", "bob"} |-> IF u = "ann" THEN "v2" ELSE "v1"] }
=============================================================================
