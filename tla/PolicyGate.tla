----------------------------- MODULE PolicyGate -----------------------------
(***************************************************************************)
(* pipeline.scoring's per-user gate over the classified union, which all   *)
(* users share.  A policy has                                              *)
(*   classes     the acceptable remote classifications                     *)
(*   relocate    whether a required relocation is accepted                 *)
(*   presence    whether a required local presence is accepted             *)
(*   acceptable  the acceptable locations, [city, region, country]         *)
(* A classified posting has its place as scraped, [cities, regions], the   *)
(* city names found in it and its tokens, and of its analysis the class,   *)
(* the restrictions and whether it requires relocation or local presence.  *)
(***************************************************************************)
EXTENDS Integers, FiniteSets

(* A restriction is text; it is modelled by what each of the readers of    *)
(* _resolve_restriction makes of it, in their order: a state behind a      *)
(* comma, a bare state, a state's name, a state behind "in" or "based in", *)
(* the US, another country.  A reading is [country, state] or Unread.      *)
CONSTANTS Unread, AnyState

ReadBy(entry) == {i \in DOMAIN entry : entry[i] # Unread}
FirstOf(is) == CHOOSE i \in is : \A j \in is : i <= j

Resolve(entry) == IF ReadBy(entry) = {} THEN Unread ELSE entry[FirstOf(ReadBy(entry))]

Countries(pol) == {loc.country : loc \in pol.acceptable}

Satisfiable(entry, pol) ==
  LET r == Resolve(entry) IN
  \/ r = Unread
  \/ pol.relocate /\ r.country \in Countries(pol)
  \/ /\ ~pol.relocate
     /\ \E loc \in pol.acceptable :
          loc.country = r.country /\ (r.state = AnyState \/ loc.region = r.state)

(* _passes_location_restrictions, open where nothing is known.             *)
PassesRestrictions(rec, pol) ==
  \/ rec.restrictions = {} \/ pol.acceptable = {}
  \/ \E entry \in rec.restrictions : Satisfiable(entry, pol)

(* _location_matches: the city and the region of one acceptable location.  *)
LocationMatches(rec, pol) ==
  \E loc \in pol.acceptable : loc.city \in rec.cities /\ loc.region \in rec.regions

(* _gate_user: the posting survives.                                       *)
Keeps(pol, rec) ==
  /\ rec.class \in pol.classes
  /\ PassesRestrictions(rec, pol)
  /\ pol.relocate \/ ~rec.relocation
  /\ pol.presence \/ ~rec.presence \/ LocationMatches(rec, pol)
=============================================================================
