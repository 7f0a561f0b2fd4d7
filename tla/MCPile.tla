------------------------------- MODULE MCPile -------------------------------
(***************************************************************************)
(* Two commands and the prefilter over small boards: pages of two ads, two *)
(* minutes, at most two changes of one board and one refused request.      *)
(***************************************************************************)
EXTENDS Pile, TLC

US == "us"
MCDefaultAliases == "USA" :> {{US}, {"america"}} @@ "France" :> {{"france"}}
MCSlug == [l \in {"ml", "c++", "c", "acme", "sel"} |-> IF l = "c++" THEN "c" ELSE l]

Ad(id, title, location, posted) ==
  [id |-> id, title |-> {title}, location |-> {location}, about |-> {"work"}, long |-> TRUE,
   posted |-> posted, remote |-> id = "d", site |-> "indeed", row |-> None,
   pay |-> <<[form |-> "money_range", lo |-> 90000, hi |-> 120000, pos |-> 4, end |-> 9,
              money |-> TRUE, context |-> FALSE, budget |-> FALSE],
             [form |-> "hourly", lo |-> 75, hi |-> None, pos |-> 1, end |-> 3,
              money |-> TRUE, context |-> TRUE, budget |-> FALSE]>>]

A == Ad("a", "engineer", "pullman", "date")
B == Ad("b", "engineer", "france", "datetime")
C == Ad("c", "chef", "us", "relative")
D == Ad("d", "engineer", "remote", "relative")
L == [Ad("l", "intern", "pullman", "milliseconds") EXCEPT !.long = FALSE]
J == [Ad("j", "chef", "us", "junk") EXCEPT !.row = [min |-> 50, max |-> None, period |-> "hourly"]]
X == Ad("x", "engineer", "america", "date")
Y == Ad("y", "engineer", "america", "date")
Blank == Ad("", "ad", "us", "none")

Boards == ("li1" :> <<Blank, A, B, C>>) @@ ("li3" :> <<A, B, C, D>>) @@ ("li2" :> <<B, D>>) @@ ("sel" :> <<A, C, D>>)
       @@ ("greenhouse:acme" :> <<A, B>>) @@ ("lever:acme" :> <<L>>) @@ ("ashby:acme" :> <<D>>)
       @@ ("js" :> <<J, A>>)
Search(label, board, max) ==
  [keywords |-> label, board |-> board, max |-> max, workplace |-> "remote", flawed |-> FALSE,
   sites |-> "jobspy:indeed"]
Defaults == "default_max_results" :> 3
Gate(g) == [missing |-> FALSE, global |-> g, sources |-> "linkedin" :> [check_workplace |-> TRUE]]
Lenient == Gate([min_jobs |-> 1])
Strict == Gate([min_complete_pct |-> 80])

RunConfig(raw, gate) ==
  [mode |-> "config", raw |-> Defaults @@ raw, gate |-> gate, dir |-> "raw", save |-> TRUE, dry |-> FALSE]
Single(q, dir) == [mode |-> "single", query |-> q, dir |-> dir, save |-> TRUE]

Filtering ==
  [country |-> "USA", sources |-> {"location", "description"}, aliases |-> "USA" :> {{"usa"}},
   allowed_locations |-> {{"pullman"}}, home_location |-> {}, reject_non_us |-> TRUE,
   banned_in_title |-> {{"intern"}}, banned_anywhere |-> {}, weak_signal |-> TRUE,
   route_local_jobs |-> TRUE, route_remote_candidates |-> TRUE]
Prefilters == [dir |-> "raw", wrong |-> FALSE, dry |-> FALSE, config |-> Filtering]

Nothing == [state |-> "absent", sources |-> {}]
Recorded(names) == [state |-> "whole", sources |-> names]

Scenario(commands, dead_, faults_, kill) ==
  [commands |-> commands, boards |-> Boards, gone |-> dead_, faults |-> faults_, changes |-> 0,
   known |-> Nothing, news |-> <<>>, kill |-> kill, prefilter |-> TRUE, filter |-> Prefilters]

\* No prefilter, and a board that changes twice.
Moving(raw, board, faults_) ==
  [Scenario("p" :> RunConfig(raw, Lenient), {}, faults_, FALSE)
     EXCEPT !.prefilter = FALSE, !.changes = 2, !.news = board :> <<X, Y>>]

LinkedIns == "linkedin" :> <<Search("c++", "li1", Unset), Search("ml", "li2", 1)>>
Selective == "sel" :> [fetch |-> TRUE, titles |-> {"engineer"}]
WholeSel == "sel" :> [fetch |-> FALSE, titles |-> {}]
BoardsOf(kind) == kind :> <<"acme">>
JobSpies == "jobspy" :> <<Search("ml", "js", 2)>>

MCScenarios ==
  { Moving("linkedin" :> <<Search("ml", "li1", Unset)>>, "li1", 1),
    Moving("linkedin" :> <<Search("ml", "li3", 20), Search("c", "li2", 0)>>, "li3", 0),
    Moving(Selective @@ BoardsOf("greenhouse"), "sel", 1),
    Scenario("p" :> RunConfig(LinkedIns, Lenient), {}, 1, FALSE),
    Scenario("p" :> RunConfig(WholeSel, Strict), {"sel"}, 0, FALSE),
    Scenario(("p" :> RunConfig(BoardsOf("greenhouse") @@ BoardsOf("lever"), Strict)) @@
             ("r" :> Single(Query("greenhouse", "greenhouse:acme", "acme", "greenhouse:acme"), "raw")),
             {}, 0, TRUE),
    [Scenario(("p" :> RunConfig(BoardsOf("ashby") @@ BoardsOf("greenhouse"), Lenient)) @@
              ("r" :> RunConfig(JobSpies @@ BoardsOf("lever"), Lenient)),
              {"greenhouse:acme", "lever:acme"}, 0, TRUE) EXCEPT !.known = Recorded({"ashby:acme"})],
    Scenario(("p" :> RunConfig(LinkedIns @@ BoardsOf("companies"), Lenient)) @@
             ("r" :> [RunConfig(JobSpies, Lenient) EXCEPT !.dry = TRUE]), {}, 0, FALSE),
    [Scenario(("p" :> Single(Query("sel", "sel", "sel", "sel"), "raw")) @@
              ("r" :> Single([Query("jobspy", "jobspy:indeed", "ml", "js") EXCEPT !.max = 2], "raw")),
              {}, 1, FALSE) EXCEPT !.filter.dry = TRUE] }
=============================================================================
