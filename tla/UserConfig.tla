----------------------------- MODULE UserConfig -----------------------------
(***************************************************************************)
(* The search configuration of a user as the settings page saves it, the   *)
(* search.yml the pipeline is given for it, and the policies derived from  *)
(* it.  A search is a record of                                            *)
(*   titles      the target titles, preferred and exploratory              *)
(*   companies   the target companies                                      *)
(*   arrangement the acceptable ones of "remote", "hybrid", "onsite"       *)
(*   home        the home location or NoHome, acceptable: the others       *)
(*   include     the kinds of search wanted: "boards", "general",          *)
(*               "national", "local"                                       *)
(*   excluded    title terms and keywords to drop                          *)
(*   willing     to relocate                                               *)
(***************************************************************************)
EXTENDS Sequences, FiniteSets

CONSTANT NoHome

Sources == {"linkedin", "jobspy", "companies"}

(* models.py: at least one title, at least one acceptable arrangement.     *)
ValidSearch(s) == s.titles # {} /\ s.arrangement # {}

LocalLocations(s) == (IF s.home = NoHome THEN {} ELSE {s.home}) \cup s.acceptable

Workplace(s) == IF "remote" \in s.arrangement THEN "remote"
                ELSE IF "hybrid" \in s.arrangement THEN "hybrid" ELSE "onsite"

JobspySearches(s) ==
  (IF "national" \in s.include /\ "remote" \in s.arrangement
     THEN s.titles \X {"country"} ELSE {})
  \cup (IF "local" \in s.include THEN s.titles \X LocalLocations(s) ELSE {})

(* search_config_to_pipeline_yaml: a section of search.yml per source, the *)
(* empty set where the section is left out.                                *)
PipelineSearch(s) ==
  [k \in Sources |->
    CASE k = "companies" -> IF "boards" \in s.include THEN s.companies ELSE {}
      [] k = "linkedin"  -> IF "general" \in s.include THEN s.titles \X {Workplace(s)} ELSE {}
      [] k = "jobspy"    -> IF "general" \in s.include THEN JobspySearches(s) ELSE {}]

(* planner._sources_for: the sections there are.                           *)
SourcesFor(p) == {k \in Sources : p[k] # {}}

(* derive_policies.                                                        *)
DerivePolicies(s) ==
  [classes |-> s.arrangement, excluded |-> s.excluded, willing |-> s.willing,
   acceptable |-> LocalLocations(s)]
=============================================================================
