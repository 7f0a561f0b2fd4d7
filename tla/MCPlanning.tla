----------------------------- MODULE MCPlanning -----------------------------
EXTENDS Planning
Acme == <<"acme">>
Both == [titles |-> {"engineer"}, companies |-> {Acme}, arrangement |-> {"remote"},
         home |-> NoHome, acceptable |-> {}, include |-> {"boards", "general"},
         excluded |-> {}, willing |-> FALSE]
BoardsOnly == [Both EXCEPT !.include = {"boards"}, !.arrangement = {"onsite"}]
Nothing == [Both EXCEPT !.include = {"local"}, !.excluded = {"intern"}]
MCSearches == {Both, BoardsOnly, Nothing}
Acronym == <<"acronym", "acme">>
MCWorlds == { {<<"lever", Acme>>, <<"ashby", Acme>>}, {<<"lever", Acme>>, <<"lever", Acronym>>},
              {<<"ashby", Acronym>>} }
MCSaved == { [u \in {"ann", "bob"} |-> IF u = "ann" THEN pair[1] ELSE pair[2]] :
               pair \in {<<Both, Both>>, <<BoardsOnly, None>>, <<Nothing, Both>>} }
MCUsers == <<"ann", "bob">>
=============================================================================
