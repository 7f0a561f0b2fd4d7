----------------------------- MODULE PileProofs -----------------------------
(***************************************************************************)
(* What the pile guarantees for any number of commands beside each other   *)
(* and beside the prefilter, whatever is refused, killed or cut off; what  *)
(* its stateless rules guarantee for every input: the salary read out of a *)
(* description, and the router; and what a search that reads a moving      *)
(* board page by page brings home.                                         *)
(***************************************************************************)
EXTENDS Pile, SequenceTheorems, FiniteSetTheorems, TLAPS

-----------------------------------------------------------------------------
(* The inductive invariant.                                                *)

\* Every process has the fields that writing a file needs.
Shaped ==
  /\ procs = [p \in Commands |-> procs[p]]
  /\ \A p \in Commands : {"pc", "jobs", "path", "key", "shared"} \subseteq DOMAIN procs[p]
  /\ filter = [pc |-> filter.pc, files |-> filter.files, jobs |-> filter.jobs, since |-> filter.since]
  /\ \A f \in DOMAIN pile : pile[f] = [jobs |-> pile[f].jobs, cut |-> pile[f].cut]

\* A file's name tells it from every other, and two that write the same know.
Writing(p) == procs[p].pc = "write"
Named ==
  /\ \A p \in Commands : Writing(p) =>
       /\ procs[p].path = procs[p].key /\ procs[p].path \in DOMAIN pile
       /\ procs[p].shared \in BOOLEAN
  /\ \A p, c \in Commands : Writing(p) /\ Writing(c) /\ p # c /\ procs[p].path = procs[c].path =>
       procs[p].shared

\* What was written to the end is there whole, and nobody writes over it.
InPlace(l) ==
  /\ l.key \in DOMAIN pile /\ pile[l.key] = [jobs |-> l.jobs, cut |-> FALSE]
  /\ \A p \in Commands : Writing(p) => procs[p].path # l.key
LandedInPlace == \A l \in landed : InPlace(l)

\* The prefilter has still to read it, or has read it, or has routed it.
Routed(j) == \E r \in Routes : \A q \in Routes : (\E line \in out[q] : line.posting = j) <=> q = r
SinceRead ==
  /\ filter.since \subseteq landed
  /\ filter.pc = "read" => filter.files \subseteq DOMAIN pile
  /\ filter.pc = "read" => \A l \in filter.since :
       l.key \in filter.files \/ ToSet(l.jobs) \subseteq filter.jobs
  /\ filter.pc = "route" => \A l \in filter.since : ToSet(l.jobs) \subseteq filter.jobs
  /\ filter.pc = "done" => \A l \in filter.since : \A j \in ToSet(l.jobs) : Routed(j)

Inv == Shaped /\ Named /\ LandedInPlace /\ SinceRead

LEMMA InitHolds ==
  Init => Inv
<1> SUFFICES ASSUME Init PROVE Inv
  OBVIOUS
<1>1. \A p \in Commands : procs[p].pc \in {"start", "done"}
                          /\ {"pc", "jobs", "path", "key", "shared"} \subseteq DOMAIN procs[p]
  BY DEF Init, Start
<1>2. procs = [p \in Commands |-> procs[p]]
  BY DEF Init
<1>3. landed = {} /\ pile = <<>> /\ filter.since = {} /\ filter.pc \in {"start", "off"}
      /\ filter = [pc |-> filter.pc, files |-> filter.files, jobs |-> filter.jobs,
                   since |-> filter.since]
  BY DEF Init
<1>4. DOMAIN pile = {}
  BY <1>3
<1> QED
  BY <1>1, <1>2, <1>3, <1>4 DEF Inv, Shaped, Named, Writing, LandedInPlace, SinceRead

-----------------------------------------------------------------------------
(* Steps that write no file of the pile.                                   *)

\* Nobody begins to write or writes to another file.
Steady ==
  /\ procs' = [p \in Commands |-> procs'[p]]
  /\ \A p \in Commands :
       /\ {"pc", "jobs", "path", "key", "shared"} \subseteq DOMAIN procs'[p]
       /\ procs'[p].pc = "write" =>
            /\ procs[p].pc = "write" /\ procs'[p].path = procs[p].path
            /\ procs'[p].key = procs[p].key /\ procs'[p].shared = procs[p].shared
  /\ UNCHANGED <<pile, landed, filter, out>>

LEMMA SteadyStep ==
  ASSUME Inv, Steady
  PROVE  Inv'
<1>1. Shaped'
  BY DEF Inv, Shaped, Steady
<1>2. Named' /\ LandedInPlace'
  BY DEF Inv, Named, LandedInPlace, InPlace, Writing, Steady
<1>3. SinceRead'
  BY DEF Inv, SinceRead, Routed, Steady
<1> QED
  BY <1>1, <1>2, <1>3 DEF Inv

\* One command moves on, to anything but writing.
Moves(p) ==
  /\ procs' = [c \in Commands |-> procs'[c]]
  /\ \A c \in Commands : c # p => procs'[c] = procs[c]
  /\ {"pc", "jobs", "path", "key", "shared"} \subseteq DOMAIN procs'[p]
  /\ procs'[p].pc # "write"
  /\ UNCHANGED <<pile, landed, filter, out>>

LEMMA MovesStep ==
  ASSUME Inv, NEW p \in Commands, Moves(p)
  PROVE  Inv'
<1>1. Steady
  BY DEF Moves, Inv, Shaped, Steady
<1> QED
  BY <1>1, SteadyStep

LEMMA PreparesMoves ==
  ASSUME Inv, NEW p \in Commands,
         LoadConfig(p) \/ LoadArguments(p) \/ Skip(p) \/ Begin(p) \/ Finish(p) \/ Check(p) \/ Kill(p)
  PROVE  Moves(p)
<1>1. CASE LoadConfig(p)
  BY <1>1 DEF LoadConfig, Moves, Inv, Shaped, filtering
<1>2. CASE LoadArguments(p)
  BY <1>2 DEF LoadArguments, Moves, Inv, Shaped, filtering
<1>3. CASE Skip(p)
  BY <1>3 DEF Skip, Moves, Inv, Shaped, filtering
<1>4. CASE Begin(p)
  BY <1>4 DEF Begin, Start, Moves, Inv, Shaped, filtering
<1>5. CASE Finish(p)
  BY <1>5 DEF Finish, Moves, Inv, Shaped, filtering
<1>6. CASE Check(p)
  BY <1>6 DEF Check, Moves, Inv, Shaped, filtering
<1>7. CASE Kill(p)
  BY <1>7 DEF Kill, Moves, Inv, Shaped, filtering
<1> QED
  BY <1>1, <1>2, <1>3, <1>4, <1>5, <1>6, <1>7

LEMMA RequestsMove ==
  ASSUME Inv, NEW p \in Commands,
         \/ RequestWhole(p) \/ RequestLinkedIn(p) \/ LimitLinkedIn(p) \/ LinkedInCard(p)
         \/ LinkedInPage(p) \/ RequestSel(p) \/ SelDetail(p) \/ SelPage(p)
  PROVE  Moves(p)
<1>1. CASE RequestWhole(p)
  BY <1>1 DEF RequestWhole, Moves, Inv, Shaped, filtering
<1>2. CASE RequestLinkedIn(p)
  BY <1>2 DEF RequestLinkedIn, Moves, Inv, Shaped, filtering
<1>3. CASE LimitLinkedIn(p)
  BY <1>3 DEF LimitLinkedIn, Moves, Inv, Shaped, filtering
<1>4. CASE LinkedInCard(p)
  <2>1. /\ UNCHANGED <<pile, landed, filter, out>>
        /\ procs[p].pc = "cards" /\ p \in DOMAIN procs
        /\ procs = [c \in Commands |-> procs[c]]
        /\ {"pc", "jobs", "path", "key", "shared"} \subseteq DOMAIN procs[p]
    BY <1>4 DEF LinkedInCard, Inv, Shaped, filtering
  <2>2. \E me : /\ procs' = [procs EXCEPT ![p] = me]
               /\ DOMAIN me = DOMAIN procs[p] /\ me.pc = procs[p].pc
    BY <1>4, <2>1 DEF LinkedInCard
  <2> QED
    BY <2>1, <2>2 DEF Moves
<1>5. CASE LinkedInPage(p)
  BY <1>5 DEF LinkedInPage, Moves, Inv, Shaped, filtering
<1>6. CASE RequestSel(p)
  BY <1>6 DEF RequestSel, Moves, Inv, Shaped, filtering
<1>7. CASE SelDetail(p)
  BY <1>7 DEF SelDetail, Moves, Inv, Shaped, filtering
<1>8. CASE SelPage(p)
  BY <1>8 DEF SelPage, Moves, Inv, Shaped, filtering
<1> QED
  BY <1>1, <1>2, <1>3, <1>4, <1>5, <1>6, <1>7, <1>8

LEMMA RefusalsMove ==
  ASSUME Inv, NEW p \in Commands,
         \/ SelDetailGone(p) \/ BoardGone(p) \/ RequestFails(p)
         \/ RecordRead(p) \/ RecordTruncate(p) \/ RecordWrite(p)
  PROVE  Moves(p)
<1>1. CASE SelDetailGone(p)
  BY <1>1 DEF SelDetailGone, Raise, Moves, Inv, Shaped, filtering
<1>2. CASE BoardGone(p)
  BY <1>2 DEF BoardGone, Raise, Moves, Inv, Shaped, filtering
<1>3. CASE RequestFails(p)
  BY <1>3 DEF RequestFails, OnTheWire, Raise, Moves, Inv, Shaped, filtering
<1>4. CASE RecordRead(p)
  BY <1>4 DEF RecordRead, Moves, Inv, Shaped, filtering
<1>5. CASE RecordTruncate(p)
  BY <1>5 DEF RecordTruncate, Moves, Inv, Shaped, filtering
<1>6. CASE RecordWrite(p)
  BY <1>6 DEF RecordWrite, Moves, Inv, Shaped, filtering
<1> QED
  BY <1>1, <1>2, <1>3, <1>4, <1>5, <1>6

(* The boards and the clock move under the commands.                       *)
LEMMA WorldStep ==
  ASSUME Inv, World
  PROVE  Inv'
<1>1. ASSUME NEW b, NEW grown, NEW shrunk, procs' = Moved(b, grown, shrunk),
             UNCHANGED <<pile, landed, filter, out>>
      PROVE  Steady
  BY <1>1 DEF Moved, Inv, Shaped, Steady
<1>2. CASE \E b \in DOMAIN plan.news : Publish(b)
  BY <1>1, <1>2, SteadyStep DEF Publish, filtering
<1>3. CASE \E b \in DOMAIN plan.news : \E i \in DOMAIN boards[b] : Withdraw(b, i)
  BY <1>1, <1>3, SteadyStep DEF Withdraw, filtering
<1>4. CASE Tick
  <2>1. Steady
    BY <1>4 DEF Tick, Inv, Shaped, Steady, filtering
  <2> QED
    BY <2>1, SteadyStep
<1> QED
  BY <1>2, <1>3, <1>4 DEF World

-----------------------------------------------------------------------------
(* Steps that write a file of the pile.                                    *)

LEMMA OpenStep ==
  ASSUME Inv, NEW p \in Commands, Open(p)
  PROVE  Inv'
<1> DEFINE path == AutoPath(p, procs[p].q)
<1>1. Key(p, procs[p].q) = path
  BY DEF Key, AutoPath
<1>2. /\ pile' = Put(pile, path, [jobs |-> <<>>, cut |-> FALSE])
      /\ procs' = [c \in Commands |->
           IF c = p THEN [procs[p] EXCEPT !.pc = "write", !.path = path, !.key = path,
                                          !.shared = Writers(path) # {}]
           ELSE IF c \in Writers(path) THEN [procs[c] EXCEPT !.shared = TRUE] ELSE procs[c]]
      /\ landed' = Standing(landed, path)
      /\ filter' = [filter EXCEPT !.since = Standing(@, path)]
      /\ UNCHANGED out
  BY <1>1 DEF Open
<1> HIDE DEF path
<1>3. /\ procs' = [c \in Commands |-> procs'[c]]
      /\ \A c \in Commands : {"pc", "jobs", "path", "key", "shared"} \subseteq DOMAIN procs'[c]
      /\ procs'[p].pc = "write" /\ procs'[p].path = path /\ procs'[p].key = path
      /\ procs'[p].shared = (Writers(path) # {})
      /\ \A c \in Commands : c # p =>
           /\ procs'[c].pc = procs[c].pc /\ procs'[c].path = procs[c].path
           /\ procs'[c].key = procs[c].key
           /\ procs'[c].shared = IF c \in Writers(path) THEN TRUE ELSE procs[c].shared
  BY <1>2 DEF Inv, Shaped
<1>4. /\ DOMAIN pile' = DOMAIN pile \cup {path}
      /\ pile'[path] = [jobs |-> <<>>, cut |-> FALSE]
      /\ \A f \in DOMAIN pile : f # path => pile'[f] = pile[f]
  BY <1>2 DEF Put
<1>5. /\ filter'.since = Standing(filter.since, path) /\ filter'.pc = filter.pc
      /\ filter'.files = filter.files /\ filter'.jobs = filter.jobs
      /\ filter' = [pc |-> filter'.pc, files |-> filter'.files, jobs |-> filter'.jobs,
                    since |-> filter'.since]
  BY <1>2 DEF Inv, Shaped
<1>6. Shaped'
  BY <1>3, <1>4, <1>5 DEF Inv, Shaped
<1>7. Named'
  <2>1. ASSUME NEW c \in Commands, procs'[c].pc = "write"
        PROVE  /\ procs'[c].path = procs'[c].key /\ procs'[c].path \in DOMAIN pile'
               /\ procs'[c].shared \in BOOLEAN
    <3>1. CASE c = p
      <4>1. procs'[c].shared \in BOOLEAN
        BY <1>3, <3>1
      <4> QED
        BY <1>3, <1>4, <3>1, <4>1
    <3>2. CASE c # p
      <4>1. procs[c].pc = "write" /\ procs[c].shared \in BOOLEAN
        BY <1>3, <2>1, <3>2 DEF Inv, Named, Writing
      <4>2. CASE c \in Writers(path)
        <5>1. procs'[c].shared = TRUE
          BY <1>3, <3>2, <4>2
        <5> QED
          BY <1>3, <1>4, <3>2, <4>1, <5>1 DEF Inv, Named, Writing
      <4>3. CASE c \notin Writers(path)
        <5>1. procs'[c].shared = procs[c].shared
          BY <1>3, <3>2, <4>3
        <5> QED
          BY <1>3, <1>4, <3>2, <4>1, <5>1 DEF Inv, Named, Writing
      <4> QED
        BY <4>2, <4>3
    <3> QED
      BY <3>1, <3>2
  <2>2. ASSUME NEW c \in Commands, NEW d \in Commands, procs'[c].pc = "write",
               procs'[d].pc = "write", c # d, procs'[c].path = procs'[d].path
        PROVE  procs'[c].shared
    <3>1. CASE c # p /\ d # p
      <4>1. procs[c].pc = "write" /\ procs[d].pc = "write" /\ procs[c].path = procs[d].path
        BY <1>3, <2>2, <3>1
      <4>2. procs[c].shared
        BY <2>2, <4>1 DEF Inv, Named, Writing
      <4>3. procs'[c].shared = IF c \in Writers(path) THEN TRUE ELSE procs[c].shared
        BY <1>3, <3>1
      <4> QED
        BY <4>2, <4>3
    <3>2. CASE c = p
      <4>1. d \in Writers(path)
        BY <1>3, <2>2, <3>2 DEF Writers
      <4> QED
        BY <1>3, <3>2, <4>1
    <3>3. CASE d = p
      <4>1. c \in Writers(path)
        BY <1>3, <2>2, <3>3 DEF Writers
      <4> QED
        BY <1>3, <2>2, <3>3, <4>1
    <3> QED
      BY <3>1, <3>2, <3>3
  <2> QED
    BY <2>1, <2>2 DEF Named, Writing
<1>8. LandedInPlace'
  <2> SUFFICES ASSUME NEW l \in landed' PROVE InPlace(l)'
    BY DEF LandedInPlace
  <2>1. l \in landed /\ l.key # path /\ InPlace(l)
    BY <1>2 DEF Standing, Inv, LandedInPlace
  <2> QED
    BY <1>3, <1>4, <2>1 DEF InPlace, Writing
<1>9. SinceRead'
  <2>1. filter'.since \subseteq landed' /\ filter'.since \subseteq filter.since
    BY <1>2, <1>5 DEF Inv, SinceRead, Standing
  <2>2. \A j : Routed(j)' <=> Routed(j)
    BY <1>2 DEF Routed
  <2> QED
    BY <1>4, <1>5, <2>1, <2>2 DEF Inv, SinceRead
<1> QED
  BY <1>6, <1>7, <1>8, <1>9 DEF Inv

LEMMA FlushStep ==
  ASSUME Inv, NEW p \in Commands, Flush(p)
  PROVE  Inv'
<1> DEFINE path == procs[p].path
<1>1. /\ Writing(p) /\ path \in DOMAIN pile
      /\ DOMAIN pile' = DOMAIN pile
      /\ pile'[path] = [jobs |-> SubSeq(procs[p].jobs, 1, Len(procs[p].jobs) - 1), cut |-> TRUE]
      /\ \A f \in DOMAIN pile : f # path => pile'[f] = pile[f]
      /\ UNCHANGED <<procs, filter, out, landed>>
  BY DEF Flush, Writing, Inv, Named, filtering
<1> HIDE DEF path
<1>2. \A l \in landed : l.key # path
  BY <1>1 DEF Inv, LandedInPlace, InPlace, path
<1>3. Shaped' /\ Named'
  BY <1>1 DEF Inv, Shaped, Named, Writing
<1>4. LandedInPlace'
  BY <1>1, <1>2 DEF Inv, LandedInPlace, InPlace, Writing
<1>5. SinceRead'
  BY <1>1 DEF Inv, SinceRead, Routed
<1> QED
  BY <1>3, <1>4, <1>5 DEF Inv

LEMMA CloseStep ==
  ASSUME Inv, NEW p \in Commands, Close(p)
  PROVE  Inv'
<1> DEFINE path == procs[p].path
           mine == [key |-> procs[p].key, jobs |-> procs[p].jobs]
<1>1. PICK cut \in {FALSE, procs[p].shared} :
        pile' = [pile EXCEPT ![path] = [jobs |-> procs[p].jobs, cut |-> cut]]
  BY DEF Close
<1>2. /\ Writing(p) /\ path \in DOMAIN pile /\ path = procs[p].key
      /\ DOMAIN pile' = DOMAIN pile
      /\ pile'[path] = [jobs |-> procs[p].jobs, cut |-> cut]
      /\ \A f \in DOMAIN pile : f # path => pile'[f] = pile[f]
      /\ landed' = IF procs[p].shared THEN landed ELSE landed \cup {mine}
      /\ UNCHANGED <<filter, out>>
  BY <1>1 DEF Close, Writing, Inv, Named, filtering
<1>3. /\ procs' = [c \in Commands |-> procs'[c]]
      /\ \A c \in Commands : {"pc", "jobs", "path", "key", "shared"} \subseteq DOMAIN procs'[c]
      /\ procs'[p].pc = "next"
      /\ \A c \in Commands : c # p => procs'[c] = procs[c]
  BY DEF Close, Inv, Shaped
<1>4. mine.key = path /\ mine.jobs = procs[p].jobs
  BY <1>2
<1> HIDE DEF path, mine
<1>5. Shaped'
  BY <1>2, <1>3 DEF Inv, Shaped
<1>6. Named'
  BY <1>2, <1>3 DEF Inv, Named, Writing
<1>7. LandedInPlace'
  <2> SUFFICES ASSUME NEW l \in landed' PROVE InPlace(l)'
    BY DEF LandedInPlace
  <2>1. CASE l \in landed
    <3>1. InPlace(l) /\ l.key # path
      BY <1>2, <2>1 DEF Inv, LandedInPlace, InPlace, path
    <3> QED
      BY <1>2, <1>3, <3>1 DEF InPlace, Writing
  <2>2. CASE l = mine /\ ~procs[p].shared
    <3>1. cut = FALSE
      BY <1>2, <2>2 DEF Inv, Named
    <3>2. \A c \in Commands : c # p /\ Writing(c) => procs[c].path # path
      BY <1>2, <2>2 DEF Inv, Named, path
    <3> QED
      BY <1>2, <1>3, <1>4, <2>2, <3>1, <3>2 DEF InPlace, Writing
  <2> QED
    BY <1>2, <2>1, <2>2
<1>8. SinceRead'
  BY <1>2 DEF Inv, SinceRead, Routed
<1> QED
  BY <1>5, <1>6, <1>7, <1>8 DEF Inv

-----------------------------------------------------------------------------
(* The prefilter.                                                          *)

LEMMA FilterGlobStep ==
  ASSUME Inv, FilterGlob
  PROVE  Inv'
<1> DEFINE files == {f \in DOMAIN pile : f[1] = plan.filter.dir}
           since == {l \in landed : l.key[1] = plan.filter.dir}
<1>1. UNCHANGED <<pile, procs, out, landed>> /\ filter.pc = "start"
  BY DEF FilterGlob
<1>2. \/ filter' = [filter EXCEPT !.pc = "failed"]
      \/ filter' = [filter EXCEPT !.pc = "read", !.files = files, !.since = since]
  BY DEF FilterGlob
<1>3. \A l \in since : l.key \in files
  BY DEF Inv, LandedInPlace, InPlace
<1>4. files \subseteq DOMAIN pile /\ since \subseteq landed
  OBVIOUS
<1> HIDE DEF files, since
<1>5. Shaped' /\ Named' /\ LandedInPlace'
  BY <1>1, <1>2 DEF Inv, Shaped, Named, LandedInPlace, InPlace, Writing
<1>6. SinceRead'
  <2>1. CASE filter' = [filter EXCEPT !.pc = "failed"]
    <3>1. filter'.pc = "failed" /\ filter'.since = filter.since
      BY <2>1 DEF Inv, Shaped
    <3> QED
      BY <1>1, <3>1 DEF Inv, SinceRead
  <2>2. CASE filter' = [filter EXCEPT !.pc = "read", !.files = files, !.since = since]
    <3>1. filter'.pc = "read" /\ filter'.files = files /\ filter'.since = since
      BY <2>2 DEF Inv, Shaped
    <3> QED
      BY <1>1, <1>3, <1>4, <3>1 DEF SinceRead
  <2> QED
    BY <1>2, <2>1, <2>2
<1> QED
  BY <1>5, <1>6 DEF Inv

LEMMA FilterReadStep ==
  ASSUME Inv, FilterRead
  PROVE  Inv'
<1>1. UNCHANGED <<pile, procs, out, landed>> /\ filter.pc = "read"
  BY DEF FilterRead
<1>2. PICK f \in filter.files :
        filter' = IF pile[f].cut THEN [filter EXCEPT !.pc = "failed"]
                  ELSE [filter EXCEPT !.files = @ \ {f}, !.jobs = @ \cup ToSet(pile[f].jobs)]
  BY DEF FilterRead
<1>3. Shaped' /\ Named' /\ LandedInPlace'
  BY <1>1, <1>2 DEF Inv, Shaped, Named, LandedInPlace, InPlace, Writing
<1>4. CASE pile[f].cut
  <2>1. filter'.pc = "failed" /\ filter'.since = filter.since
    BY <1>2, <1>4 DEF Inv, Shaped
  <2> QED
    BY <1>1, <1>3, <2>1 DEF Inv, SinceRead
<1>5. CASE ~pile[f].cut
  <2>1. /\ filter'.pc = "read" /\ filter'.since = filter.since
        /\ filter'.files = filter.files \ {f} /\ filter'.jobs = filter.jobs \cup ToSet(pile[f].jobs)
    BY <1>1, <1>2, <1>5 DEF Inv, Shaped
  <2>2. ASSUME NEW l \in filter.since
        PROVE  l.key \in filter'.files \/ ToSet(l.jobs) \subseteq filter'.jobs
    <3>1. pile[l.key].jobs = l.jobs
      <4>1. InPlace(l)
        BY DEF Inv, SinceRead, LandedInPlace
      <4>2. pile[l.key] = [jobs |-> l.jobs, cut |-> FALSE]
        BY <4>1 DEF InPlace
      <4> QED
        BY <4>2
    <3> QED
      BY <1>1, <2>1, <3>1 DEF Inv, SinceRead
  <2> QED
    BY <1>1, <1>3, <2>1, <2>2 DEF Inv, SinceRead
<1> QED
  BY <1>4, <1>5

LEMMA FilterLoadedStep ==
  ASSUME Inv, FilterLoaded
  PROVE  Inv'
<1>1. UNCHANGED <<pile, procs, landed>> /\ filter.pc = "read" /\ filter.files = {}
  BY DEF FilterLoaded
<1>2. /\ filter'.pc \in {"failed", "counted", "route"} /\ filter'.since = filter.since
      /\ filter'.jobs = filter.jobs
      /\ filter' = [pc |-> filter'.pc, files |-> filter'.files, jobs |-> filter'.jobs,
                    since |-> filter'.since]
  BY DEF FilterLoaded, Inv, Shaped
<1>3. Shaped' /\ Named' /\ LandedInPlace'
  BY <1>1, <1>2 DEF Inv, Shaped, Named, LandedInPlace, InPlace, Writing
<1>4. SinceRead'
  BY <1>1, <1>2 DEF Inv, SinceRead
<1> QED
  BY <1>3, <1>4 DEF Inv

(* A job is routed by what it says, so to one output and no other.         *)
LEMMA FilterRouteStep ==
  ASSUME Inv, FilterRoute
  PROVE  Inv'
<1> DEFINE Way(j) == RouteJob(Routable(j), plan.filter.config)
<1>1. /\ UNCHANGED <<pile, procs, landed>> /\ filter.pc = "route"
      /\ filter' = [filter EXCEPT !.pc = "done"]
      /\ out' = [r \in Routes |-> {Line(j) : j \in {k \in filter.jobs : Way(k) = r}}]
  BY DEF FilterRoute
<1>2. filter'.pc = "done" /\ filter'.since = filter.since
      /\ filter' = [pc |-> filter'.pc, files |-> filter'.files, jobs |-> filter'.jobs,
                    since |-> filter'.since]
  BY <1>1 DEF Inv, Shaped
<1>3. \A j : Way(j) \in Routes /\ Line(j).posting = j
  BY DEF RouteJob, Routes, Line
<1> HIDE DEF Way
<1>4. Shaped' /\ Named' /\ LandedInPlace'
  BY <1>1, <1>2 DEF Inv, Shaped, Named, LandedInPlace, InPlace, Writing
<1>5. ASSUME NEW j \in filter.jobs PROVE Routed(j)'
  <2>1. \A q \in Routes : (\E line \in out'[q] : line.posting = j) <=> q = Way(j)
    <3> SUFFICES ASSUME NEW q \in Routes
                 PROVE  (\E line \in out'[q] : line.posting = j) <=> q = Way(j)
      OBVIOUS
    <3>1. out'[q] = {Line(k) : k \in {k \in filter.jobs : Way(k) = q}}
      BY <1>1
    <3>2. ASSUME q = Way(j) PROVE \E line \in out'[q] : line.posting = j
      BY <1>3, <3>1, <3>2
    <3>3. ASSUME NEW line \in out'[q], line.posting = j PROVE q = Way(j)
      BY <1>3, <3>1, <3>3
    <3> QED
      BY <3>2, <3>3
  <2> QED
    BY <1>3, <2>1 DEF Routed
<1>6. SinceRead'
  BY <1>1, <1>2, <1>5 DEF Inv, SinceRead
<1> QED
  BY <1>4, <1>6 DEF Inv

-----------------------------------------------------------------------------
(* The theorems.                                                           *)

LEMMA CommandStep ==
  ASSUME Inv, NEW p \in Commands, Command(p)
  PROVE  Inv'
BY PreparesMoves, RequestsMove, RefusalsMove, MovesStep, OpenStep, FlushStep, CloseStep DEF Command

LEMMA NextHolds ==
  ASSUME Inv, [Next]_vars
  PROVE  Inv'
<1>1. CASE \E p \in Commands : Command(p)
  BY <1>1, CommandStep
<1>2. CASE Filter
  BY <1>2, FilterGlobStep, FilterReadStep, FilterLoadedStep, FilterRouteStep DEF Filter
<1>3. CASE World
  BY <1>3, WorldStep
<1>4. CASE UNCHANGED vars
  <2>1. Steady
    BY <1>4 DEF vars, Inv, Shaped, Steady
  <2> QED
    BY <2>1, SteadyStep
<1> QED
  BY <1>1, <1>2, <1>3, <1>4 DEF Next

(* What a command wrote to the end lies in the pile whole until another    *)
(* search takes its file, and the prefilter that saw it there reads it.    *)
THEOREM InvHolds == Spec => []Inv
<1>1. Inv /\ [Next]_vars => Inv'
  BY NextHolds
<1> QED
  BY <1>1, InitHolds, PTL DEF Spec

(* What a command wrote to the end before the prefilter listed the         *)
(* directory is in exactly one output once the prefilter is done.          *)
THEOREM LandedRoutedHolds == Spec => []LandedRouted
<1>1. Inv => LandedRouted
  <2> SUFFICES ASSUME Inv, filter.pc = "done", NEW l \in filter.since, NEW i \in DOMAIN l.jobs
               PROVE  Cardinality({r \in Routes : \E line \in out[r] : line.posting = l.jobs[i]}) = 1
    BY DEF LandedRouted
  <2>1. Routed(l.jobs[i])
    BY DEF Inv, SinceRead, ToSet
  <2>2. PICK r \in Routes : \A q \in Routes : (\E line \in out[q] : line.posting = l.jobs[i]) <=> q = r
    BY <2>1 DEF Routed
  <2>3. {q \in Routes : \E line \in out[q] : line.posting = l.jobs[i]} = {r}
    BY <2>2
  <2> QED
    BY <2>3, FS_Singleton
<1> QED
  BY <1>1, InvHolds, PTL

-----------------------------------------------------------------------------
\* What the regular expressions can find: amounts are whole, and a form with two
\* amounts has both.
Matches ==
    {m \in [form : Forms, lo : Nat, hi : Nat \cup {None}, pos : Nat, end : Nat,
            money : BOOLEAN, context : BOOLEAN, budget : BOOLEAN] :
        m.form \in {"k_range_both", "k_range_one", "money_range"} => m.hi # None}

\* From the smallest hourly amount, a year, to the largest yearly one.
Least == 15080
Yearly(amount) == amount \in Nat /\ Least <= amount /\ amount <= YearlyMax

-----------------------------------------------------------------------------
(* The salary of a description *)

\* Rounding an hourly amount to dollars a year keeps it in order and in bounds.
LEMMA AnnualBounds ==
    ASSUME NEW lo \in Nat, NEW hi \in Nat, HourlyMin <= lo, lo <= hi, Affordable(hi)
    PROVE  /\ Yearly(AnnualOfCents(lo)) /\ Yearly(AnnualOfCents(hi))
           /\ AnnualOfCents(lo) <= AnnualOfCents(hi)
<1>1. PerYear.hourly = 2080
  BY DEF PerYear
<1>2. /\ Annualise(lo, "hourly") = lo * 2080
      /\ Annualise(hi, "hourly") = hi * 2080
  BY <1>1 DEF Annualise, PerYear
<1> DEFINE x == lo * 2080
           y == hi * 2080
<1>3. x \in Nat /\ y \in Nat /\ 1508000 <= x /\ x <= y /\ y <= 99999900
  BY <1>2, SMT DEF Affordable, YearlyMax, HourlyMin
<1>4. AnnualOfCents(lo) = (x + 50) \div 100 /\ AnnualOfCents(hi) = (y + 50) \div 100
  BY <1>2 DEF AnnualOfCents
<1> HIDE DEF x, y
<1>5. /\ (x + 50) \div 100 \in Nat /\ 15080 <= (x + 50) \div 100
      /\ (y + 50) \div 100 \in Nat /\ (y + 50) \div 100 <= 999999
      /\ (x + 50) \div 100 <= (y + 50) \div 100
  BY <1>3, SMT
<1> QED
  BY <1>4, <1>5, SMT DEF Yearly, Least, YearlyMax

\* The pay of a match that passes its tests is a plausible one.
LEMMA PayPlausible ==
    ASSUME NEW ms \in Seq(Matches), NEW i \in DOMAIN ms, Plausible(ms, i)
    PROVE  /\ Yearly(Pay(ms[i]).min)
           /\ Pay(ms[i]).max # None =>
                Yearly(Pay(ms[i]).max) /\ Pay(ms[i]).min <= Pay(ms[i]).max
<1> DEFINE m == ms[i]
<1>1. m \in Matches /\ m.lo \in Nat /\ (m.hi = None \/ m.hi \in Nat)
  BY DEF Matches
<1>2. CASE m.form = "hourly"
  <2>1. PlausibleHourly(m.lo, m.hi)
    BY <1>2 DEF Plausible
  <2>2. Pay(m).min = AnnualOfCents(m.lo)
        /\ Pay(m).max = IF m.hi = None THEN None ELSE AnnualOfCents(m.hi)
    BY <1>2 DEF Pay
  <2>3. CASE m.hi = None
    BY <2>1, <2>2, <2>3, <1>1, AnnualBounds DEF PlausibleHourly
  <2>4. CASE m.hi # None
    BY <2>1, <2>2, <2>4, <1>1, AnnualBounds DEF PlausibleHourly
  <2> QED
    BY <2>3, <2>4
<1>3. CASE m.form \in {"k_range_both", "k_range_one", "money_range"}
  <2>1. PlausibleYearly(m.lo, m.hi)
    BY <1>3 DEF Plausible
  <2>2. Pay(m).min = m.lo /\ Pay(m).max = m.hi /\ m.hi \in Nat
    BY <1>1, <1>3 DEF Pay, Matches
  <2> QED
    BY <1>1, <2>1, <2>2, SMT DEF PlausibleYearly, Yearly, YearlyMin, YearlyMax, Least
<1>4. CASE m.form = "k_single"
  <2>1. YearlyMin <= m.lo /\ m.lo <= YearlyMax
    BY <1>4 DEF Plausible
  <2>2. Pay(m).min = m.lo /\ Pay(m).max = None
    BY <1>4 DEF Pay
  <2> QED
    BY <1>1, <2>1, <2>2, SMT DEF Yearly, YearlyMin, YearlyMax, Least
<1> QED
  BY <1>1, <1>2, <1>3, <1>4 DEF Matches, Forms

\* Whatever the text says, the salary read out of it is none, or an amount a year
\* of 15,080 to 999,999 dollars with its maximum not below its minimum: it fits
\* the INTEGER columns of raw.job_postings (salary.py:186-274), which the
\* amounts a board gives need not.
THEOREM ReadSalaryPlausible ==
    ASSUME NEW ms \in Seq(Matches), ExtractSalary(ms) # None
    PROVE  LET pay == ExtractSalary(ms) IN
           /\ Yearly(pay.min)
           /\ pay.max # None => Yearly(pay.max) /\ pay.min <= pay.max
<1>1. \E i \in DOMAIN ms : Best(ms, i)
  BY DEF ExtractSalary
<1>2. PICK i \in DOMAIN ms : Best(ms, i) /\ ExtractSalary(ms) = Pay(ms[i])
  <2> DEFINE i == CHOOSE i \in DOMAIN ms : Best(ms, i)
  <2>1. i \in DOMAIN ms /\ Best(ms, i)
    BY <1>1
  <2>2. ExtractSalary(ms) = Pay(ms[i])
    BY <1>1 DEF ExtractSalary
  <2> QED
    BY <2>1, <2>2
<1>3. Plausible(ms, i)
  BY <1>2 DEF Best
<1> QED
  BY <1>2, <1>3, PayPlausible

-----------------------------------------------------------------------------
(* The router *)

\* A configuration that bans at least as much and agrees on all else.
Stricter(cfg, more) ==
    /\ cfg.banned_in_title \subseteq more.banned_in_title
    /\ cfg.banned_anywhere \subseteq more.banned_anywhere
    /\ more.reject_non_us = cfg.reject_non_us /\ more.country = cfg.country
    /\ more.aliases = cfg.aliases /\ more.sources = cfg.sources
    /\ more.allowed_locations = cfg.allowed_locations
    /\ more.home_location = cfg.home_location /\ more.weak_signal = cfg.weak_signal
    /\ more.route_local_jobs = cfg.route_local_jobs
    /\ more.route_remote_candidates = cfg.route_remote_candidates

\* A ban only rejects: with more banned phrases a job is routed as before or
\* rejected, never moved from one kind of candidate to the other (router.py).
THEOREM BansOnlyReject ==
    ASSUME NEW job, NEW cfg, NEW more, Stricter(cfg, more)
    PROVE  RouteJob(job, more) \in {RouteJob(job, cfg), "prefilter_reject"}
<1>1. Foreign(job, more) = Foreign(job, cfg)
  <2>1. MergeCountryAliases(more) = MergeCountryAliases(cfg)
    BY DEF MergeCountryAliases, Stricter
  <2>2. CountryHits(job, more) = CountryHits(job, cfg)
    BY <2>1 DEF CountryHits, Stricter
  <2> QED
    BY <2>2 DEF Foreign, Stricter
<1>2. Banned(job, cfg) => Banned(job, more)
  BY DEF Banned, Stricter
<1>3. LocalMatch(job, more) = LocalMatch(job, cfg)
  BY DEF LocalMatch, Stricter
<1> QED
  BY <1>1, <1>2, <1>3 DEF RouteJob, Stricter

-----------------------------------------------------------------------------
(* What a search of a moving board has come to, page by page.              *)

Ads == UNION ({ToSet(plan.boards[b]) : b \in DOMAIN plan.boards}
              \cup {ToSet(plan.news[b]) : b \in DOMAIN plan.news})
Given == UNION {ToSet(SearchesOf(plan.commands[p])) : p \in DOMAIN plan.commands}
Scrapings == {LinkedInPosting(q, ad, answered) : q \in Given, ad \in Ads, answered \in BOOLEAN}
             \cup {SelPosting(q, ad) : q \in Given, ad \in Ads}

\* The boards list no ad twice, and none that is still to be published.
SiteTyped ==
  /\ plan \in Scenarios /\ changes \in Nat
  /\ DOMAIN boards = DOMAIN plan.boards
  /\ \A b \in DOMAIN boards : boards[b] \in Seq(Ads) /\ Distinct(boards[b])
  /\ \A b \in DOMAIN plan.news : \A i \in DOMAIN plan.news[b], k \in DOMAIN boards[b] :
       i <= changes /\ HasId(plan.news[b][i]) => boards[b][k].id # plan.news[b][i].id

\* The fields a search needs, and the searches a process has.
SearchFields ==
  {"pc", "todo", "q", "jobs", "seen", "offset", "total", "page", "fresh", "base", "grown", "shrunk", "limited"}
Searching(s) == s.pc \in {"request", "cards", "check"}
Paging(s) == Searching(s) /\ s.q.kind \in {"linkedin", "sel"}
SearchesTyped ==
  /\ procs = [p \in Commands |-> procs[p]]
  /\ \A p \in Commands : /\ SearchFields \subseteq DOMAIN procs[p] /\ procs[p].todo \in Seq(Given)
                         /\ Searching(procs[p]) => procs[p].q \in Given
                         /\ procs[p].pc = "start" => p \in DOMAIN plan.commands

\* Before its first request a search has nothing.
Unread(s) ==
  /\ s.jobs = <<>> /\ s.seen = {} /\ s.base = <<>> /\ s.page = <<>>
  /\ s.grown = 0 /\ s.shrunk = FALSE /\ s.total = Unset

\* The listing is still the one the search began with, under what came in.
Under(base, listed, grown) ==
  Len(listed) = Len(base) + grown /\ \A i \in DOMAIN base : listed[grown + i] = base[i]
Tracks(s, listed) == ~s.shrunk => Under(s.base, listed, s.grown)

PageTyped(s) ==
  /\ s.jobs \in Seq(Scrapings) /\ s.base \in Seq(Ads) /\ s.page \in Seq(Ads) /\ Distinct(s.base)
  /\ s.offset \in Nat /\ s.grown \in Nat /\ s.shrunk \in BOOLEAN
  /\ s.pc = "request" /\ s.offset = 0 => Unread(s)
  /\ s.pc = "request" /\ s.offset > 0 => s.base # <<>>
  /\ s.pc = "cards" => s.base # <<>> /\ (s.q.kind = "sel" => s.offset > 0)
  /\ s.pc # "check" /\ s.base # <<>> => Tracks(s, boards[s.q.board])

\* LinkedIn: the search has the ads of the first n.
Held(s) == ~s.shrunk /\ s.grown + Cardinality(Blanks(s.base)) < PageSize
Got(s, n) ==
  /\ s.seen = {s.base[i].id : i \in Offered(s.base, n)}
  /\ Lists(s.jobs, s.base, Offered(s.base, n))

\* The ads of a listing after the first a, up to the b-th.
Part(ads, a, b) == SubSeq(ads, a + 1, b)

\* Of its page, base[k + 1] to base[m], what comes before n is known already.
OnPage(s, n, k, m) ==
  /\ k <= n /\ n <= m /\ m <= s.offset + PageSize
  /\ m = Len(s.base) \/ m + s.grown >= s.offset + PageSize
  /\ s.page = Part(s.base, k, m)
  /\ s.fresh \/ \A i \in (s.offset + 1)..n : ~HasId(s.base[i])
  /\ Got(s, n)

OnceEach(s) ==
  /\ \A i \in DOMAIN s.jobs : s.jobs[i].id \in s.seen
  /\ \A i, k \in DOMAIN s.jobs : s.jobs[i].id = s.jobs[k].id => i = k

LinkedInRead(s) ==
  LET Upto == 0..Len(s.base) IN
  /\ s.pc = "request" /\ s.offset > 0 => s.offset >= PageSize /\ \E n \in Upto :
       Got(s, n) /\ n <= s.offset /\ (n = Len(s.base) \/ n + s.grown >= s.offset)
  /\ s.pc = "cards" =>
       \/ s.page = <<>> /\ s.fresh /\ Len(s.jobs) = s.q.max /\ \E n \in Upto : Got(s, n)
       \/ Len(s.jobs) < s.q.max /\ \E n, k, m \in Upto : OnPage(s, n, k, m)
  /\ s.pc = "check" /\ ~s.limited =>
       \E n \in Upto : Got(s, n) /\ (Len(s.jobs) = s.q.max \/ (n = Len(s.base) /\ Len(s.jobs) < s.q.max))

LinkedInInv(s) ==
  /\ OnceEach(s)
  /\ s.pc = "request" => Len(s.jobs) < s.q.max
  /\ Held(s) => LinkedInRead(s)

\* Workday: the search has the wanted ads of the pages before its offset.
SelRead(s) ==
  /\ s.pc = "request" /\ s.offset > 0 =>
       /\ s.offset <= Len(s.base) /\ s.total = Len(s.base)
       /\ Lists(s.jobs, s.base, Wanted(s.q, s.base, s.offset))
  /\ s.pc = "cards" =>
       /\ s.offset <= Len(s.base) /\ s.total = Len(s.base) /\ Len(s.page) <= s.offset
       /\ s.page = Part(s.base, s.offset - Len(s.page), s.offset)
       /\ Lists(s.jobs, s.base, Wanted(s.q, s.base, s.offset - Len(s.page)))
  /\ s.pc = "check" => Lists(s.jobs, s.base, Wanted(s.q, s.base, Len(s.base)))

SelInv(s) == ~s.shrunk /\ s.grown = 0 => SelRead(s)

SearchInv(s) ==
  Paging(s) => /\ PageTyped(s)
               /\ s.q.kind = "linkedin" => LinkedInInv(s)
               /\ s.q.kind = "sel" => SelInv(s)

PagedInv == SiteTyped /\ SearchesTyped /\ \A p \in Commands : SearchInv(procs[p])

-----------------------------------------------------------------------------
(* Listings and what a search has of them.                                 *)

LEMMA NoneListed ==
  ASSUME NEW ads
  PROVE  Lists(<<>>, ads, {})
<1>1. DOMAIN <<>> = {}
  <2>1. <<>> \in Seq({}) /\ Len(<<>>) = 0
    BY EmptySeq
  <2>2. DOMAIN <<>> = 1..Len(<<>>)
    BY <2>1, LenProperties
  <2> QED
    BY <2>1, <2>2
<1> DEFINE none == [i \in DOMAIN <<>> |-> i]
<1>2. none \in [DOMAIN <<>> -> {}]
  BY <1>1
<1> HIDE DEF none
<1> QED
  BY <1>1, <1>2 DEF Lists

(* A job more, of a position behind all the others.                        *)
LEMMA OneMoreListed ==
  ASSUME NEW S, NEW jobs \in Seq(S), NEW x \in S, NEW ads, NEW I \in SUBSET Nat, NEW k \in Nat,
         \A i \in I : i < k, x.id = ads[k].id, Lists(jobs, ads, I)
  PROVE  Lists(Append(jobs, x), ads, I \cup {k})
<1> DEFINE more == Append(jobs, x)
           n == Len(jobs) + 1
<1>1. PICK at \in [DOMAIN jobs -> I] :
        /\ \A i \in DOMAIN jobs : jobs[i].id = ads[at[i]].id
        /\ \A i, j \in DOMAIN jobs : i < j => at[i] < at[j]
        /\ \A h \in I : \E i \in DOMAIN jobs : at[i] = h
  BY DEF Lists
<1>2. /\ Len(jobs) \in Nat /\ DOMAIN jobs = 1..Len(jobs)
      /\ DOMAIN more = 1..n /\ more[n] = x /\ \A i \in DOMAIN jobs : more[i] = jobs[i]
  BY AppendProperties, LenProperties
<1> DEFINE to == [i \in DOMAIN more |-> IF i = n THEN k ELSE at[i]]
<1>3. to \in [DOMAIN more -> I \cup {k}]
  BY <1>1, <1>2
<1>4. /\ to[n] = k /\ \A i \in DOMAIN jobs : to[i] = at[i] /\ at[i] \in I /\ i < n /\ i \in DOMAIN more
      /\ \A i \in DOMAIN more : i = n \/ i \in DOMAIN jobs
  BY <1>1, <1>2
<1> HIDE DEF more, to, n
<1>5. \A i \in DOMAIN more : more[i].id = ads[to[i]].id
  BY <1>1, <1>2, <1>4
<1>6. \A i, j \in DOMAIN more : i < j => to[i] < to[j]
  <2> SUFFICES ASSUME NEW i \in DOMAIN more, NEW j \in DOMAIN more, i < j
               PROVE  to[i] < to[j]
    OBVIOUS
  <2>0. i \in DOMAIN jobs
    BY <1>2, <1>4 DEF n
  <2>1. CASE j = n
    BY <1>4, <2>0, <2>1
  <2>2. CASE j \in DOMAIN jobs
    BY <1>1, <1>4, <2>0, <2>2
  <2> QED
    BY <1>4, <2>1, <2>2
<1>7. \A h \in I \cup {k} : \E i \in DOMAIN more : to[i] = h
  <2>1. n \in DOMAIN more
    BY <1>2 DEF n
  <2> QED
    BY <1>1, <1>4, <2>1
<1> QED
  BY <1>3, <1>5, <1>6, <1>7 DEF Lists, more

(* The first n + 1 ads of a listing are the first n and one more.          *)
LEMMA OfferedNext ==
  ASSUME NEW ads, NEW n \in Nat
  PROVE  /\ Offered(ads, n) \in SUBSET (1..n)
         /\ ~HasId(ads[n + 1]) => Offered(ads, n + 1) = Offered(ads, n)
         /\ HasId(ads[n + 1]) => Offered(ads, n + 1) = Offered(ads, n) \cup {n + 1}
<1>1. 1..(n + 1) = (1..n) \cup {n + 1}
  OBVIOUS
<1> QED
  BY <1>1 DEF Offered

LEMMA WantedNext ==
  ASSUME NEW q, NEW ads, NEW n \in Nat
  PROVE  /\ Wanted(q, ads, n) \in SUBSET (1..n)
         /\ ~SelRelevant(q, ads[n + 1]) => Wanted(q, ads, n + 1) = Wanted(q, ads, n)
         /\ SelRelevant(q, ads[n + 1]) => Wanted(q, ads, n + 1) = Wanted(q, ads, n) \cup {n + 1}
<1>1. 1..(n + 1) = (1..n) \cup {n + 1}
  OBVIOUS
<1> QED
  BY <1>1 DEF Wanted

LEMMA NothingOffered ==
  ASSUME NEW q, NEW ads
  PROVE  Offered(ads, 0) = {} /\ Wanted(q, ads, 0) = {}
BY DEF Offered, Wanted

(* Ads in a row that have no id are no more than the listing has.          *)
LEMMA BlankRun ==
  ASSUME NEW ads, Len(ads) \in Nat, DOMAIN ads = 1..Len(ads),
         NEW a \in Nat, NEW b \in Nat, b <= Len(ads), \A i \in (a + 1)..b : ~HasId(ads[i])
  PROVE  b - a <= Cardinality(Blanks(ads)) /\ Cardinality(Blanks(ads)) \in Nat
<1> DEFINE all == 1..Len(ads)
           run == (a + 1)..b
<1>1. IsFiniteSet(all) /\ IsFiniteSet(run) /\ Cardinality(run) = IF a + 1 > b THEN 0 ELSE b - (a + 1) + 1
  <2>1. 1 \in Int /\ Len(ads) \in Int /\ a + 1 \in Int /\ b \in Int
    OBVIOUS
  <2>2. IsFiniteSet(all)
    BY <2>1, FS_Interval
  <2> QED
    BY <2>1, <2>2, FS_Interval
<1>2. Blanks(ads) \in SUBSET all /\ run \in SUBSET Blanks(ads)
  BY DEF Blanks, Offered
<1> HIDE DEF all, run
<1>3. IsFiniteSet(Blanks(ads)) /\ Cardinality(Blanks(ads)) \in Nat
  <2>1. IsFiniteSet(Blanks(ads))
    BY <1>1, <1>2, FS_Subset
  <2> QED
    BY <2>1, FS_CardinalityType
<1>4. Cardinality(run) <= Cardinality(Blanks(ads))
  BY <1>2, <1>3, FS_Subset
<1> QED
  BY <1>1, <1>3, <1>4

(* A posting keeps its ad's id.                                            *)
LEMMA PostingIds ==
  ASSUME NEW q, NEW ad, NEW answered
  PROVE  LinkedInPosting(q, ad, answered).id = ad.id /\ SelPosting(q, ad).id = ad.id
BY DEF LinkedInPosting, SelPosting, Posting

-----------------------------------------------------------------------------
(* The boards and the searches of a scenario.                              *)

LEMMA GivenSearch ==
  ASSUME SiteTyped, NEW q \in Given
  PROVE  /\ q.max \in Nat /\ q.board \in DOMAIN boards
         /\ boards[q.board] \in Seq(Ads) /\ Distinct(boards[q.board])
<1>1. PICK p \in DOMAIN plan.commands : q \in ToSet(SearchesOf(plan.commands[p]))
  BY DEF Given
<1>2. PICK i \in DOMAIN SearchesOf(plan.commands[p]) : q = SearchesOf(plan.commands[p])[i]
  BY <1>1 DEF ToSet
<1>3. q.max \in Nat /\ q.board \in DOMAIN plan.boards
  BY <1>2, SearchesOK DEF SiteTyped
<1> QED
  BY <1>3 DEF SiteTyped

LEMMA GivenAll ==
  ASSUME SiteTyped, NEW p \in DOMAIN plan.commands
  PROVE  SearchesOf(plan.commands[p]) \in Seq(Given)
<1> DEFINE todo == SearchesOf(plan.commands[p])
<1>1. todo \in Seq(ToSet(todo))
  BY SearchesOK DEF SiteTyped
<1>2. ToSet(todo) \subseteq Given
  BY DEF Given
<1> HIDE DEF todo
<1> QED
  BY <1>1, <1>2, SeqMonotonic DEF todo

LEMMA PagedInit ==
  Init => PagedInv
<1> SUFFICES ASSUME Init PROVE PagedInv
  OBVIOUS
<1>1. plan \in Scenarios /\ boards = plan.boards /\ changes = plan.changes
  BY DEF Init
<1>2. SiteTyped
  <2>1. changes \in Nat
    BY <1>1, BoardsOK
  <2>2. ASSUME NEW b \in DOMAIN plan.boards
        PROVE  boards[b] \in Seq(Ads) /\ Distinct(boards[b])
    <3>1. boards[b] \in Seq(ToSet(boards[b])) /\ Distinct(boards[b])
      BY <1>1, BoardsOK
    <3>2. ToSet(boards[b]) \subseteq Ads
      BY <1>1 DEF Ads
    <3> QED
      BY <3>1, <3>2, SeqMonotonic
  <2>3. ASSUME NEW b \in DOMAIN plan.news, NEW i \in DOMAIN plan.news[b], NEW k \in DOMAIN boards[b],
               HasId(plan.news[b][i])
        PROVE  boards[b][k].id # plan.news[b][i].id
    BY <1>1, <2>3, BoardsOK
  <2> QED
    BY <1>1, <2>1, <2>2, <2>3 DEF SiteTyped
<1>3. procs = [p \in Commands |-> [Start EXCEPT !.pc = IF p \in DOMAIN plan.commands THEN "start" ELSE "done"]]
  BY DEF Init
<1>4. SearchesTyped
  <2>1. <<>> \in Seq(Given)
    BY EmptySeq
  <2> QED
    BY <1>3, <2>1 DEF SearchesTyped, SearchFields, Searching, Start
<1>5. \A p \in Commands : SearchInv(procs[p])
  BY <1>3 DEF SearchInv, Paging, Searching, Start
<1> QED
  BY <1>2, <1>4, <1>5 DEF PagedInv

-----------------------------------------------------------------------------
(* Steps of one command.                                                   *)

\* Only the process of p moves.
Alone(p) ==
  /\ procs' = [procs EXCEPT ![p] = procs'[p]]
  /\ UNCHANGED <<plan, boards, changes>>

\* The process keeps the fields of a search and has searches to make.
Keeps(t) ==
  /\ SearchFields \subseteq DOMAIN t /\ t.todo \in Seq(Given) /\ t.pc # "start"
  /\ Searching(t) => t.q \in Given

LEMMA PagedTurn ==
  ASSUME PagedInv, NEW p \in Commands, Alone(p), Keeps(procs'[p]), SearchInv(procs'[p])
  PROVE  PagedInv'
<1>1. SiteTyped'
  <2>1. Ads' = Ads
    BY DEF Alone, Ads
  <2> QED
    BY <2>1 DEF PagedInv, SiteTyped, Alone
<1>2. \A c \in Commands : c # p => procs'[c] = procs[c]
  BY DEF Alone, PagedInv, SearchesTyped
<1>3. Given' = Given /\ Ads' = Ads /\ Scrapings' = Scrapings
  BY DEF Alone, Given, Ads, Scrapings
<1>4. SearchesTyped'
  <2>1. procs' = [c \in Commands |-> procs'[c]]
    BY DEF Alone, PagedInv, SearchesTyped
  <2> QED
    BY <1>2, <1>3, <2>1 DEF SearchesTyped, PagedInv, Keeps, Alone
<1>5. ASSUME NEW c \in Commands
      PROVE  SearchInv(procs[c])'
  <2>1. SearchInv(procs'[c])
    BY <1>2 DEF PagedInv
  <2> QED
    BY <1>3, <2>1 DEF Alone, SearchInv, PageTyped, LinkedInInv, SelInv, Tracks, Under
<1> QED
  BY <1>1, <1>4, <1>5 DEF PagedInv

LEMMA IdleTurn ==
  ASSUME PagedInv, NEW p \in Commands, Alone(p), Keeps(procs'[p]), ~Paging(procs'[p])
  PROVE  PagedInv'
<1>1. SearchInv(procs'[p])
  BY DEF SearchInv
<1> QED
  BY <1>1, PagedTurn

(* Nothing is read before a search begins or after its check.              *)
LEMMA LoadTurn ==
  ASSUME PagedInv, NEW p \in Commands, LoadConfig(p) \/ LoadArguments(p)
  PROVE  PagedInv'
<1> DEFINE c == plan.commands[p]
<1>1. /\ UNCHANGED <<plan, boards, changes>>
      /\ procs[p].pc = "start" /\ p \in DOMAIN plan.commands
      /\ SearchFields \subseteq DOMAIN procs[p] /\ procs[p].todo \in Seq(Given)
      /\ SearchesOf(c) \in Seq(Given)
  <2>1. procs[p].pc = "start" /\ UNCHANGED <<plan, boards, changes>>
    BY DEF LoadConfig, LoadArguments, site
  <2> QED
    BY <2>1, GivenAll DEF PagedInv, SearchesTyped
<1>2. CASE LoadConfig(p)
  <2>1. ConfigError(c.raw) \/ SearchesOf(c) = BuildScrapers(c.raw)
    BY <1>2 DEF LoadConfig, SearchesOf
  <2>2. /\ procs'[p].pc \in {"done", "next"} /\ Alone(p)
        /\ SearchFields \subseteq DOMAIN procs'[p] /\ procs'[p].todo \in Seq(Given)
    BY <1>1, <1>2, <2>1 DEF LoadConfig, SearchFields, PagedInv, SearchesTyped, Alone
  <2> QED
    BY <2>2, IdleTurn DEF Keeps, Paging, Searching
<1>3. CASE LoadArguments(p)
  <2>1. SearchesOf(c) = <<c.query>>
    BY <1>3 DEF LoadArguments, SearchesOf
  <2>2. /\ procs'[p].pc \in {"done", "next"} /\ Alone(p)
        /\ SearchFields \subseteq DOMAIN procs'[p] /\ procs'[p].todo \in Seq(Given)
    BY <1>1, <1>3, <2>1 DEF LoadArguments, SearchFields, PagedInv, SearchesTyped, Alone
  <2> QED
    BY <2>2, IdleTurn DEF Keeps, Paging, Searching
<1> QED
  BY <1>2, <1>3

\* The process stops searching and keeps its searches to come.
Stops(p) ==
  /\ Alone(p) /\ SearchFields \subseteq DOMAIN procs'[p]
  /\ procs'[p].todo = procs[p].todo /\ ~Searching(procs'[p]) /\ procs'[p].pc # "start"

LEMMA StopTurn ==
  ASSUME PagedInv, NEW p \in Commands, Stops(p)
  PROVE  PagedInv'
BY IdleTurn DEF Stops, Keeps, Paging, PagedInv, SearchesTyped

LEMMA QueueTurn ==
  ASSUME PagedInv, NEW p \in Commands, Skip(p) \/ Finish(p) \/ Check(p) \/ Close(p) \/ Kill(p)
  PROVE  PagedInv'
<1> USE DEF Stops, Searching, SearchFields, Alone, site
<1>1. SearchesTyped
  BY DEF PagedInv
<1>2. CASE Skip(p)
  <2>1. /\ procs[p].todo \in Seq(Given) /\ procs[p].todo # <<>>
        /\ procs' = [procs EXCEPT ![p].todo = Tail(procs[p].todo)]
        /\ procs[p].pc = "next" /\ UNCHANGED <<plan, boards, changes>>
    BY <1>1, <1>2 DEF Skip, SearchesTyped
  <2>2. Tail(procs[p].todo) \in Seq(Given)
    BY <2>1, HeadTailProperties
  <2>3. Keeps(procs'[p]) /\ Alone(p) /\ ~Paging(procs'[p])
    BY <1>1, <2>1, <2>2 DEF Keeps, Paging, SearchesTyped
  <2> QED
    BY <2>3, IdleTurn
<1>3. CASE Finish(p)
  <2>1. Stops(p)
    BY <1>1, <1>3 DEF Finish, SearchesTyped
  <2> QED
    BY <2>1, StopTurn
<1>4. CASE Check(p)
  <2>1. Stops(p)
    BY <1>1, <1>4 DEF Check, SearchesTyped
  <2> QED
    BY <2>1, StopTurn
<1>5. CASE Close(p)
  <2>1. Stops(p)
    BY <1>1, <1>5 DEF Close, SearchesTyped
  <2> QED
    BY <2>1, StopTurn
<1>6. CASE Kill(p)
  <2>1. Stops(p)
    BY <1>1, <1>6 DEF Kill, SearchesTyped
  <2> QED
    BY <2>1, StopTurn
<1> QED
  BY <1>2, <1>3, <1>4, <1>5, <1>6

LEMMA RefusalTurn ==
  ASSUME PagedInv, NEW p \in Commands,
         \/ SelDetailGone(p) \/ BoardGone(p) \/ RequestFails(p)
         \/ RecordRead(p) \/ RecordTruncate(p) \/ RecordWrite(p)
  PROVE  PagedInv'
<1> USE DEF Stops, Searching, SearchFields, Alone, site
<1>1. SearchesTyped
  BY DEF PagedInv
<1>2. CASE SelDetailGone(p)
  <2>1. Stops(p)
    BY <1>1, <1>2 DEF SelDetailGone, Raise, SearchesTyped
  <2> QED
    BY <2>1, StopTurn
<1>3. CASE BoardGone(p)
  <2>1. Stops(p)
    BY <1>1, <1>3 DEF BoardGone, Raise, SearchesTyped
  <2> QED
    BY <2>1, StopTurn
<1>4. CASE RequestFails(p)
  <2>1. Stops(p)
    BY <1>1, <1>4 DEF RequestFails, OnTheWire, Raise, SearchesTyped
  <2> QED
    BY <2>1, StopTurn
<1>5. CASE RecordRead(p)
  <2>1. Stops(p)
    BY <1>1, <1>5 DEF RecordRead, SearchesTyped
  <2> QED
    BY <2>1, StopTurn
<1>6. CASE RecordTruncate(p)
  <2>1. Stops(p)
    BY <1>1, <1>6 DEF RecordTruncate, SearchesTyped
  <2> QED
    BY <2>1, StopTurn
<1>7. CASE RecordWrite(p)
  <2>1. Stops(p)
    BY <1>1, <1>7 DEF RecordWrite, SearchesTyped
  <2> QED
    BY <2>1, StopTurn
<1> QED
  BY <1>2, <1>3, <1>4, <1>5, <1>6, <1>7

(* Opening a file tells the others that write it.                          *)
LEMMA OpenTurn ==
  ASSUME PagedInv, NEW p \in Commands, Open(p)
  PROVE  PagedInv'
<1> DEFINE path == AutoPath(p, procs[p].q)
           key == Key(p, procs[p].q)
<1>1. /\ UNCHANGED <<plan, boards, changes>>
      /\ procs' = [c \in Commands |->
           IF c = p THEN [procs[p] EXCEPT !.pc = "write", !.path = path, !.key = key,
                                          !.shared = Writers(path) # {}]
           ELSE IF c \in Writers(path) THEN [procs[c] EXCEPT !.shared = TRUE] ELSE procs[c]]
  BY DEF Open, site
<1> HIDE DEF path, key
<1>2. \A c \in Writers(path) : procs[c].pc = "write"
  BY DEF Writers
<1>3. SiteTyped'
  <2>1. Ads' = Ads
    BY <1>1 DEF Ads
  <2> QED
    BY <1>1, <2>1 DEF PagedInv, SiteTyped
<1>4. Given' = Given /\ Ads' = Ads /\ Scrapings' = Scrapings
  <2>1. plan' = plan
    BY <1>1
  <2> QED
    BY <2>1 DEF Given, Ads, Scrapings
<1>5. \A c \in Commands :
        /\ SearchFields \subseteq DOMAIN procs'[c] /\ procs'[c].todo = procs[c].todo
        /\ procs'[c] = procs[c] \/ procs'[c].pc = "write"
  BY <1>1, <1>2 DEF PagedInv, SearchesTyped, SearchFields
<1>6. SearchesTyped'
  <2>1. procs' = [c \in Commands |-> procs'[c]]
    BY <1>1
  <2>2. plan' = plan
    BY <1>1
  <2>3. ASSUME NEW c \in Commands
        PROVE  /\ SearchFields \subseteq DOMAIN procs'[c] /\ procs'[c].todo \in Seq(Given)
               /\ Searching(procs'[c]) => procs'[c].q \in Given
               /\ procs'[c].pc = "start" => c \in DOMAIN plan.commands
    BY <1>5 DEF PagedInv, SearchesTyped, Searching
  <2> QED
    BY <1>4, <2>1, <2>2, <2>3 DEF SearchesTyped, Searching
<1>7. ASSUME NEW c \in Commands
      PROVE  SearchInv(procs[c])'
  <2>1. CASE procs'[c] = procs[c]
    <3>1. SearchInv(procs[c])
      BY DEF PagedInv
    <3> QED
      BY <1>1, <1>4, <2>1, <3>1 DEF SearchInv, PageTyped, LinkedInInv, SelInv, Tracks, Under
  <2>2. CASE procs'[c].pc = "write"
    BY <2>2 DEF SearchInv, Paging, Searching
  <2> QED
    BY <1>5, <2>1, <2>2
<1> QED
  BY <1>3, <1>6, <1>7 DEF PagedInv

-----------------------------------------------------------------------------
(* Steps of the boards, the clock and the prefilter.                       *)

LEMMA PagedStill ==
  ASSUME PagedInv, UNCHANGED <<plan, boards, changes, procs>>
  PROVE  PagedInv'
<1>1. Given' = Given /\ Ads' = Ads /\ Scrapings' = Scrapings
  BY DEF Given, Ads, Scrapings
<1>2. SiteTyped' /\ SearchesTyped'
  BY <1>1 DEF PagedInv, SiteTyped, SearchesTyped
<1>3. ASSUME NEW c \in Commands
      PROVE  SearchInv(procs[c])'
  <2>1. SearchInv(procs[c])
    BY DEF PagedInv
  <2> QED
    BY <1>1, <2>1 DEF SearchInv, PageTyped, LinkedInInv, SelInv, Tracks, Under
<1> QED
  BY <1>2, <1>3 DEF PagedInv

\* A search knows of an ad that came in; the rest of it is as it was.
Sees(s, t) ==
  /\ t.pc = s.pc /\ t.q = s.q /\ t.jobs = s.jobs /\ t.seen = s.seen /\ t.offset = s.offset
  /\ t.total = s.total /\ t.page = s.page /\ t.fresh = s.fresh /\ t.base = s.base
  /\ t.limited = s.limited
  /\ t.grown = s.grown + 1 /\ t.shrunk = s.shrunk

LEMMA SeesMore ==
  ASSUME NEW s, NEW t, Sees(s, t), s.grown \in Nat, s.offset \in Nat, Len(s.base) \in Nat,
         DOMAIN s.base = 1..Len(s.base), LinkedInInv(s)
  PROVE  LinkedInInv(t)
<1>1. PageSize \in Nat \ {0}
  BY PageSizeOK
<1>2. Cardinality(Blanks(s.base)) \in Nat
  <2>1. 0 \in Nat /\ 0 <= Len(s.base) /\ \A i \in (0 + 1)..0 : ~HasId(s.base[i])
    OBVIOUS
  <2> QED
    BY <2>1, BlankRun
<1>3. Held(t) => Held(s)
  BY <1>1, <1>2 DEF Held, Sees
<1>4. ASSUME LinkedInRead(s) PROVE LinkedInRead(t)
  <2>1. \A n : Got(s, n) => Got(t, n)
    BY DEF Got, Sees
  <2>2. \A n, k, m \in 0..Len(s.base) : OnPage(s, n, k, m) => OnPage(t, n, k, m)
    BY <1>1, <2>1 DEF OnPage, Sees
  <2>3. ASSUME t.pc = "request", t.offset > 0
        PROVE  t.offset >= PageSize /\ \E n \in 0..Len(t.base) :
                 Got(t, n) /\ n <= t.offset /\ (n = Len(t.base) \/ n + t.grown >= t.offset)
    BY <1>1, <1>4, <2>1, <2>3 DEF LinkedInRead, Sees
  <2>4. ASSUME t.pc = "cards"
        PROVE  \/ t.page = <<>> /\ t.fresh /\ Len(t.jobs) = t.q.max /\ \E n \in 0..Len(t.base) : Got(t, n)
               \/ Len(t.jobs) < t.q.max /\ \E n, k, m \in 0..Len(t.base) : OnPage(t, n, k, m)
    BY <1>4, <2>1, <2>2, <2>4 DEF LinkedInRead, Sees
  <2>5. ASSUME t.pc = "check", ~t.limited
        PROVE  \E n \in 0..Len(t.base) :
                 Got(t, n) /\ (Len(t.jobs) = t.q.max \/ (n = Len(t.base) /\ Len(t.jobs) < t.q.max))
    BY <1>4, <2>1, <2>5 DEF LinkedInRead, Sees
  <2> QED
    BY <2>3, <2>4, <2>5 DEF LinkedInRead
<1> QED
  BY <1>3, <1>4 DEF LinkedInInv, OnceEach, Sees

(* An ad put first moves the others by one, and is new to the board.       *)
LEMMA PutFirst ==
  ASSUME NEW S, NEW ads \in Seq(S), NEW ad \in S, Distinct(ads),
         \A k \in DOMAIN ads : HasId(ad) => ads[k].id # ad.id
  PROVE  LET more == <<ad>> \o ads IN
         /\ more \in Seq(S) /\ Len(more) = Len(ads) + 1 /\ Distinct(more) /\ more[1] = ad
         /\ \A k \in DOMAIN ads : more[k + 1] = ads[k]
         /\ \A k \in DOMAIN more : k = 1 \/ (k - 1 \in DOMAIN ads /\ more[k] = ads[k - 1])
<1> DEFINE more == <<ad>> \o ads
           one == <<ad>>
<1>1. one \in Seq(S) /\ Len(one) = 1 /\ one[1] = ad
  OBVIOUS
<1>2. Len(ads) \in Nat /\ DOMAIN ads = 1..Len(ads)
  BY LenProperties
<1>3. /\ more \in Seq(S) /\ Len(more) = Len(one) + Len(ads)
      /\ \A i \in 1..(Len(one) + Len(ads)) :
           more[i] = IF i <= Len(one) THEN one[i] ELSE ads[i - Len(one)]
  BY <1>1, ConcatProperties
<1>4. DOMAIN more = 1..(Len(ads) + 1)
  BY <1>1, <1>2, <1>3, LenProperties
<1> HIDE DEF more, one
<1>5. /\ more[1] = ad /\ \A k \in DOMAIN ads : more[k + 1] = ads[k]
      /\ \A k \in DOMAIN more : k = 1 \/ (k - 1 \in DOMAIN ads /\ more[k] = ads[k - 1])
  BY <1>1, <1>2, <1>3, <1>4
<1>6. Distinct(more)
  <2> SUFFICES ASSUME NEW i \in DOMAIN more, NEW k \in DOMAIN more, HasId(more[i]), more[i].id = more[k].id
               PROVE  i = k
    BY DEF Distinct
  <2>0. i \in Nat /\ k \in Nat
    BY <1>2, <1>4
  <2>h. HasId(more[k])
    BY DEF HasId
  <2>1. CASE i = 1 /\ k # 1
    BY <1>5, <2>1
  <2>2. CASE i # 1 /\ k = 1
    BY <1>5, <2>2, <2>h
  <2>3. CASE i # 1 /\ k # 1
    <3>1. i - 1 = k - 1
      BY <1>5, <2>3 DEF Distinct
    <3> QED
      BY <2>0, <3>1
  <2> QED
    BY <2>1, <2>2, <2>3
<1> QED
  BY <1>1, <1>2, <1>3, <1>5, <1>6 DEF more

(* An ad taken out leaves the others in their order.                       *)
LEMMA TakenOut ==
  ASSUME NEW S, NEW ads \in Seq(S), NEW i \in DOMAIN ads, Distinct(ads)
  PROVE  /\ RemoveAt(ads, i) \in Seq(S) /\ Distinct(RemoveAt(ads, i))
         /\ \A k \in DOMAIN RemoveAt(ads, i) : \E h \in DOMAIN ads : RemoveAt(ads, i)[k] = ads[h]
<1> DEFINE front == SubSeq(ads, 1, i - 1)
           back == SubSeq(ads, i + 1, Len(ads))
           less == front \o back
           from == [k \in DOMAIN less |-> IF k < i THEN k ELSE k + 1]
<1>1. Len(ads) \in Nat /\ DOMAIN ads = 1..Len(ads) /\ \A k \in 1..Len(ads) : ads[k] \in S
  BY LenProperties, ElementOfSeq
<1>2. /\ front \in Seq(S) /\ Len(front) = i - 1
      /\ \A k \in 1..(i - 1) : front[k] = ads[k]
  <2>1. 1 \in Int /\ i - 1 \in Int /\ \A k \in 1..(i - 1) : ads[k] \in S
    BY <1>1
  <2>2. /\ front \in Seq(S) /\ Len(front) = IF 1 <= i - 1 THEN i - 1 - 1 + 1 ELSE 0
        /\ \A k \in 1..(i - 1 - 1 + 1) : front[k] = ads[1 + k - 1]
    BY <2>1, SubSeqProperties
  <2> QED
    BY <1>1, <2>2
<1>3. /\ back \in Seq(S) /\ Len(back) = Len(ads) - i
      /\ \A k \in 1..(Len(ads) - i) : back[k] = ads[i + k]
  <2>1. i + 1 \in Int /\ Len(ads) \in Int /\ \A k \in (i + 1)..Len(ads) : ads[k] \in S
    BY <1>1
  <2>2. /\ back \in Seq(S) /\ Len(back) = IF i + 1 <= Len(ads) THEN Len(ads) - (i + 1) + 1 ELSE 0
        /\ \A k \in 1..(Len(ads) - (i + 1) + 1) : back[k] = ads[i + 1 + k - 1]
    BY <2>1, SubSeqProperties
  <2>3. i \in Nat /\ i <= Len(ads) /\ Len(ads) \in Nat
    BY <1>1
  <2>4. Len(ads) - (i + 1) + 1 = Len(ads) - i
    BY <2>3
  <2>5. Len(back) = Len(ads) - i
    BY <2>2, <2>3
  <2>6. ASSUME NEW k \in 1..(Len(ads) - i)
        PROVE  back[k] = ads[i + k]
    <3>1. back[k] = ads[i + 1 + k - 1]
      BY <2>2, <2>4
    <3>2. i + 1 + k - 1 = i + k
      BY <2>3
    <3> QED
      BY <3>1, <3>2
  <2> QED
    BY <2>2, <2>5, <2>6
<1> HIDE DEF front, back
<1>4. /\ less \in Seq(S) /\ Len(less) = Len(front) + Len(back)
      /\ \A k \in 1..(Len(front) + Len(back)) :
           less[k] = IF k <= Len(front) THEN front[k] ELSE back[k - Len(front)]
  BY <1>2, <1>3, ConcatProperties
<1>5. DOMAIN less = 1..(Len(ads) - 1) /\ i \in Nat /\ 1 <= i /\ i <= Len(ads)
  <2>1. i \in Nat /\ 1 <= i /\ i <= Len(ads)
    BY <1>1
  <2>2. DOMAIN less = 1..Len(less)
    BY <1>4, LenProperties
  <2>3. Len(less) = Len(ads) - 1
    BY <1>1, <1>2, <1>3, <1>4, <2>1
  <2> QED
    BY <2>1, <2>2, <2>3
<1> HIDE DEF less
<1>6. \A k \in DOMAIN less : from[k] \in DOMAIN ads /\ less[k] = ads[from[k]]
  <2> SUFFICES ASSUME NEW k \in DOMAIN less
               PROVE  from[k] \in DOMAIN ads /\ less[k] = ads[from[k]]
    OBVIOUS
  <2>0. k \in Nat /\ 1 <= k /\ k <= Len(ads) - 1 /\ k \in 1..(Len(front) + Len(back))
    BY <1>1, <1>2, <1>3, <1>5
  <2>1. CASE k < i
    BY <1>1, <1>2, <1>4, <1>5, <2>0, <2>1
  <2>2. CASE ~(k < i)
    <3>1. k - (i - 1) \in 1..(Len(ads) - i) /\ i + (k - (i - 1)) = k + 1
      BY <1>1, <1>5, <2>0, <2>2
    <3>2. less[k] = back[k - (i - 1)]
      BY <1>2, <1>4, <1>5, <2>0, <2>2
    <3>3. less[k] = ads[k + 1]
      BY <1>3, <3>1, <3>2
    <3>4. k + 1 \in DOMAIN ads
      BY <1>1, <2>0
    <3> QED
      BY <2>2, <3>3, <3>4
  <2> QED
    BY <2>1, <2>2
<1>7. \A k, h \in DOMAIN less : from[k] = from[h] => k = h
  BY <1>1, <1>5
<1> HIDE DEF from
<1>8. Distinct(less)
  BY <1>6, <1>7 DEF Distinct
<1>9. RemoveAt(ads, i) = less
  BY DEF RemoveAt, less, front, back
<1> QED
  BY <1>4, <1>6, <1>8, <1>9

\* What the searches of board b see, and what they were before.
Reads(s, b) == s.pc \in {"request", "cards"} /\ s.q.board = b /\ s.base # <<>>

LEMMA PublishSite ==
  ASSUME SiteTyped, NEW b \in DOMAIN plan.news, Publish(b)
  PROVE  /\ SiteTyped' /\ b \in DOMAIN boards
         /\ DOMAIN boards' = DOMAIN boards /\ \A c \in DOMAIN boards : c # b => boards'[c] = boards[c]
         /\ Len(boards'[b]) = Len(boards[b]) + 1
         /\ \A k \in DOMAIN boards[b] : boards'[b][k + 1] = boards[b][k]
<1> DEFINE ad == plan.news[b][changes]
           more == <<ad>> \o boards[b]
<1>1. /\ plan \in Scenarios /\ changes \in Nat /\ changes > 0 /\ changes \in DOMAIN plan.news[b]
      /\ b \in DOMAIN boards /\ boards[b] \in Seq(Ads) /\ Distinct(boards[b]) /\ plan' = plan
      /\ changes' = changes - 1 /\ Distinct(plan.news[b])
      /\ boards' = [boards EXCEPT ![b] = more]
  BY BoardsOK DEF SiteTyped, Publish
<1>2. ad \in Ads
  <2>1. ad \in ToSet(plan.news[b])
    BY <1>1 DEF ToSet
  <2>2. ToSet(plan.news[b]) \subseteq Ads
    BY DEF Ads
  <2> QED
    BY <2>1, <2>2
<1>3. \A k \in DOMAIN boards[b] : HasId(ad) => boards[b][k].id # ad.id
  <2>1. \A i \in DOMAIN plan.news[b], k \in DOMAIN boards[b] :
          i <= changes /\ HasId(plan.news[b][i]) => boards[b][k].id # plan.news[b][i].id
    BY DEF SiteTyped
  <2>2. changes <= changes
    BY <1>1
  <2> QED
    BY <1>1, <2>1, <2>2
<1> HIDE DEF ad
<1>4. /\ more \in Seq(Ads) /\ Len(more) = Len(boards[b]) + 1 /\ Distinct(more) /\ more[1] = ad
      /\ \A k \in DOMAIN boards[b] : more[k + 1] = boards[b][k]
      /\ \A k \in DOMAIN more : k = 1 \/ (k - 1 \in DOMAIN boards[b] /\ more[k] = boards[b][k - 1])
  BY <1>1, <1>2, <1>3, PutFirst
<1> HIDE DEF more
<1>5. /\ DOMAIN boards' = DOMAIN boards /\ boards'[b] = more
      /\ \A c \in DOMAIN boards : c # b => boards'[c] = boards[c]
  BY <1>1
<1>6. ASSUME NEW c \in DOMAIN plan.news, NEW i \in DOMAIN plan.news[c], NEW k \in DOMAIN boards'[c],
             i <= changes - 1, HasId(plan.news[c][i])
      PROVE  boards'[c][k].id # plan.news[c][i].id
  <2>0. i \in Nat
    <3>1. plan.news[c] \in Seq(ToSet(plan.news[c]))
      BY <1>1, BoardsOK
    <3>2. DOMAIN plan.news[c] = 1..Len(plan.news[c])
      BY <3>1, LenProperties
    <3> QED
      BY <3>2
  <2>1. i <= changes /\ i # changes
    BY <1>1, <1>6, <2>0
  <2>2. \A h \in DOMAIN boards[c] : boards[c][h].id # plan.news[c][i].id
    BY <1>6, <2>1 DEF SiteTyped
  <2>3. c \in DOMAIN boards
    BY <1>1, BoardsOK DEF SiteTyped
  <2>4. CASE c # b
    BY <1>5, <1>6, <2>2, <2>3, <2>4
  <2>5. CASE c = b /\ k # 1
    BY <1>4, <1>5, <1>6, <2>2, <2>5
  <2>6. CASE c = b /\ k = 1
    <3>1. ad.id # plan.news[b][i].id
      BY <1>1, <1>6, <2>1, <2>6 DEF Distinct, ad
    <3> QED
      BY <1>4, <1>5, <2>6, <3>1
  <2> QED
    BY <2>4, <2>5, <2>6
<1>7. SiteTyped'
  <2>1. Ads' = Ads
    BY <1>1 DEF Ads
  <2>2. \A c \in DOMAIN boards' : boards'[c] \in Seq(Ads) /\ Distinct(boards'[c])
    BY <1>4, <1>5 DEF SiteTyped
  <2>3. changes - 1 \in Nat
    BY <1>1
  <2> QED
    BY <1>1, <1>5, <1>6, <2>1, <2>2, <2>3 DEF SiteTyped
<1> QED
  BY <1>1, <1>4, <1>5, <1>7

LEMMA WithdrawSite ==
  ASSUME SiteTyped, NEW b \in DOMAIN plan.news, NEW i \in DOMAIN boards[b], Withdraw(b, i)
  PROVE  /\ SiteTyped' /\ b \in DOMAIN boards
         /\ DOMAIN boards' = DOMAIN boards /\ \A c \in DOMAIN boards : c # b => boards'[c] = boards[c]
<1> DEFINE less == RemoveAt(boards[b], i)
<1>1. /\ plan \in Scenarios /\ changes \in Nat /\ changes > 0 /\ plan' = plan
      /\ b \in DOMAIN boards /\ boards[b] \in Seq(Ads) /\ Distinct(boards[b])
      /\ changes' = changes - 1 /\ boards' = [boards EXCEPT ![b] = less]
  BY BoardsOK DEF SiteTyped, Withdraw
<1>2. /\ less \in Seq(Ads) /\ Distinct(less)
      /\ \A k \in DOMAIN less : \E h \in DOMAIN boards[b] : less[k] = boards[b][h]
  BY <1>1, TakenOut
<1> HIDE DEF less
<1>3. /\ DOMAIN boards' = DOMAIN boards /\ boards'[b] = less
      /\ \A c \in DOMAIN boards : c # b => boards'[c] = boards[c]
  BY <1>1
<1>4. ASSUME NEW c \in DOMAIN plan.news, NEW n \in DOMAIN plan.news[c], NEW k \in DOMAIN boards'[c],
             n <= changes - 1, HasId(plan.news[c][n])
      PROVE  boards'[c][k].id # plan.news[c][n].id
  <2>0. n \in Nat
    <3>1. plan.news[c] \in Seq(ToSet(plan.news[c]))
      BY <1>1, BoardsOK
    <3>2. DOMAIN plan.news[c] = 1..Len(plan.news[c])
      BY <3>1, LenProperties
    <3> QED
      BY <3>2
  <2>1. n <= changes
    BY <1>1, <1>4, <2>0
  <2>2. \A h \in DOMAIN boards[c] : boards[c][h].id # plan.news[c][n].id
    BY <1>4, <2>1 DEF SiteTyped
  <2>3. c \in DOMAIN boards
    BY <1>1, BoardsOK DEF SiteTyped
  <2> QED
    BY <1>2, <1>3, <1>4, <2>2, <2>3
<1>5. SiteTyped'
  <2>1. Ads' = Ads
    BY <1>1 DEF Ads
  <2>2. \A c \in DOMAIN boards' : boards'[c] \in Seq(Ads) /\ Distinct(boards'[c])
    BY <1>2, <1>3 DEF SiteTyped
  <2>3. changes - 1 \in Nat
    BY <1>1
  <2> QED
    BY <1>1, <1>3, <1>4, <2>1, <2>2, <2>3 DEF SiteTyped
<1> QED
  BY <1>1, <1>3, <1>5

\* The searches of other boards, and those that read nothing yet, are as they were.
Apart(b) ==
  /\ plan' = plan /\ procs' = [c \in Commands |-> procs'[c]]
  /\ \A c \in DOMAIN boards : c # b => boards'[c] = boards[c]
  /\ \A c \in Commands : /\ SearchFields \subseteq DOMAIN procs'[c] /\ procs'[c].pc = procs[c].pc
                         /\ procs'[c].todo = procs[c].todo /\ procs'[c].q = procs[c].q
                         /\ ~Reads(procs[c], b) => procs'[c] = procs[c]

LEMMA ApartTurn ==
  ASSUME PagedInv, NEW b, SiteTyped', Apart(b),
         \A c \in Commands : Reads(procs[c], b) => SearchInv(procs[c])'
  PROVE  PagedInv'
<1>1. Given' = Given /\ Ads' = Ads /\ Scrapings' = Scrapings
  BY DEF Apart, Given, Ads, Scrapings
<1>2. SearchesTyped'
  BY <1>1 DEF Apart, PagedInv, SearchesTyped, Searching
<1>3. ASSUME NEW c \in Commands, ~Reads(procs[c], b)
      PROVE  SearchInv(procs[c])'
  <2>1. SearchInv(procs[c]) /\ procs'[c] = procs[c]
    BY <1>3 DEF PagedInv, Apart
  <2>2. CASE ~Paging(procs[c])
    BY <2>1, <2>2 DEF SearchInv, Paging, Searching
  <2>3. CASE Paging(procs[c])
    <3>1. procs[c].q.board \in DOMAIN boards
      BY <2>3, GivenSearch DEF PagedInv, SearchesTyped, Paging
    <3>2. procs[c].pc # "check" /\ procs[c].base # <<>> =>
            boards'[procs[c].q.board] = boards[procs[c].q.board]
      BY <1>3, <2>3, <3>1 DEF Apart, Reads, Paging, Searching
    <3>3. PageTyped(procs[c])'
      BY <1>1, <2>1, <2>3, <3>2 DEF SearchInv, PageTyped, Tracks, Under
    <3> QED
      BY <2>1, <3>3 DEF SearchInv, Paging, LinkedInInv, SelInv
  <2> QED
    BY <2>2, <2>3
<1> QED
  BY <1>2, <1>3 DEF PagedInv

LEMMA PublishTurn ==
  ASSUME PagedInv, NEW b \in DOMAIN plan.news, Publish(b)
  PROVE  PagedInv'
<1>1. /\ plan' = plan
      /\ procs' = [c \in Commands |->
           IF procs[c].pc \in {"request", "cards"} /\ procs[c].q.board = b /\ procs[c].base # <<>>
             THEN [procs[c] EXCEPT !.grown = procs[c].grown + 1, !.shrunk = procs[c].shrunk \/ FALSE]
             ELSE procs[c]]
  BY DEF Publish, Moved
<1>2. /\ SiteTyped' /\ b \in DOMAIN boards
      /\ DOMAIN boards' = DOMAIN boards /\ \A c \in DOMAIN boards : c # b => boards'[c] = boards[c]
      /\ Len(boards'[b]) = Len(boards[b]) + 1
      /\ \A k \in DOMAIN boards[b] : boards'[b][k + 1] = boards[b][k]
  BY PublishSite DEF PagedInv
<1>3. Apart(b)
  BY <1>1, <1>2 DEF Apart, Reads, PagedInv, SearchesTyped, SearchFields
<1>4. Ads' = Ads /\ Scrapings' = Scrapings
  <2>1. plan' = plan
    BY <1>1
  <2> QED
    BY <2>1 DEF Given, Ads, Scrapings
<1>5. boards[b] \in Seq(Ads) /\ Len(boards[b]) \in Nat /\ DOMAIN boards[b] = 1..Len(boards[b])
  BY <1>2, LenProperties DEF PagedInv, SiteTyped
<1>6. ASSUME NEW c \in Commands, Reads(procs[c], b)
      PROVE  SearchInv(procs[c])'
  <2> DEFINE s == procs[c]
             t == procs'[c]
  <2>1. CASE ~Paging(s)
    BY <1>3, <2>1 DEF SearchInv, Paging, Searching, Apart
  <2>2. CASE Paging(s)
    <3>1. PageTyped(s) /\ Paging(t)
      BY <1>3, <2>2 DEF PagedInv, SearchInv, Paging, Searching, Apart
    <3>2. /\ s.grown \in Nat /\ s.offset \in Nat /\ s.shrunk \in BOOLEAN /\ s.q.board = b
          /\ s.base \in Seq(Ads) /\ s.base # <<>> /\ s.pc \in {"request", "cards"}
          /\ Len(s.base) \in Nat /\ DOMAIN s.base = 1..Len(s.base)
      BY <1>6, <3>1, LenProperties DEF PageTyped, Reads
    <3>3. Sees(s, t)
      <4>1. t = [s EXCEPT !.grown = s.grown + 1, !.shrunk = s.shrunk \/ FALSE]
        BY <1>1, <1>6 DEF Reads
      <4>2. SearchFields \subseteq DOMAIN s
        BY DEF PagedInv, SearchesTyped
      <4> HIDE DEF s, t
      <4> QED
        BY <3>2, <4>1, <4>2 DEF Sees, SearchFields
    <3> HIDE DEF s, t
    <3>4. Tracks(s, boards[b])
      BY <3>1, <3>2 DEF PageTyped
    <3>5. Tracks(t, boards'[b])
      <4> SUFFICES ASSUME ~s.shrunk
                   PROVE  /\ Len(boards'[b]) = Len(s.base) + (s.grown + 1)
                          /\ \A i \in DOMAIN s.base : boards'[b][s.grown + 1 + i] = s.base[i]
        BY <3>3 DEF Tracks, Under, Sees
      <4>1. Len(boards[b]) = Len(s.base) + s.grown
        BY <3>4 DEF Tracks, Under
      <4>2. ASSUME NEW i \in DOMAIN s.base
            PROVE  boards'[b][s.grown + 1 + i] = s.base[i]
        <5>1. s.grown + i \in DOMAIN boards[b] /\ s.grown + 1 + i = (s.grown + i) + 1
          BY <1>5, <3>2, <4>1
        <5>2. boards'[b][(s.grown + i) + 1] = boards[b][s.grown + i]
          BY <1>2, <5>1
        <5>3. boards[b][s.grown + i] = s.base[i]
          BY <3>4 DEF Tracks, Under
        <5> QED
          BY <5>1, <5>2, <5>3
      <4> QED
        BY <1>2, <1>5, <3>2, <4>1, <4>2
    <3>6. /\ t.jobs \in Seq(Scrapings) /\ t.base \in Seq(Ads) /\ t.page \in Seq(Ads) /\ Distinct(t.base)
          /\ t.offset \in Nat /\ t.grown \in Nat /\ t.shrunk \in BOOLEAN /\ t.base # <<>>
          /\ t.pc = "request" => t.offset > 0
          /\ t.pc = "cards" /\ t.q.kind = "sel" => t.offset > 0
          /\ t.q.board = b
      BY <3>1, <3>2, <3>3 DEF PageTyped, Sees, Unread
    <3>7. t.q.kind = "linkedin" => LinkedInInv(t)
      <4>1. s.q.kind = "linkedin" => LinkedInInv(s)
        BY <2>2 DEF PagedInv, SearchInv, s
      <4> QED
        BY <3>2, <3>3, <4>1, SeesMore DEF Sees
    <3>8. SelInv(t)
      BY <3>2, <3>3 DEF SelInv, Sees
    <3>9. PageTyped(procs[c])'
      BY <1>4, <3>5, <3>6 DEF PageTyped, t
    <3> QED
      BY <3>7, <3>8, <3>9 DEF SearchInv, LinkedInInv, SelInv, t
  <2> QED
    BY <2>1, <2>2
<1> QED
  BY <1>2, <1>3, <1>6, ApartTurn

LEMMA WithdrawTurn ==
  ASSUME PagedInv, NEW b \in DOMAIN plan.news, NEW i \in DOMAIN boards[b], Withdraw(b, i)
  PROVE  PagedInv'
<1>1. /\ plan' = plan
      /\ procs' = [c \in Commands |->
           IF procs[c].pc \in {"request", "cards"} /\ procs[c].q.board = b /\ procs[c].base # <<>>
             THEN [procs[c] EXCEPT !.grown = procs[c].grown + 0, !.shrunk = procs[c].shrunk \/ TRUE]
             ELSE procs[c]]
  BY DEF Withdraw, Moved
<1>2. SiteTyped' /\ \A c \in DOMAIN boards : c # b => boards'[c] = boards[c]
  BY WithdrawSite DEF PagedInv
<1>3. Apart(b)
  BY <1>1, <1>2 DEF Apart, Reads, PagedInv, SearchesTyped, SearchFields
<1>4. Ads' = Ads /\ Scrapings' = Scrapings
  <2>1. plan' = plan
    BY <1>1
  <2> QED
    BY <2>1 DEF Given, Ads, Scrapings
<1>6. ASSUME NEW c \in Commands, Reads(procs[c], b)
      PROVE  SearchInv(procs[c])'
  <2> DEFINE s == procs[c]
             t == procs'[c]
  <2>1. CASE ~Paging(s)
    BY <1>3, <2>1 DEF SearchInv, Paging, Searching, Apart
  <2>2. CASE Paging(s)
    <3>1. SearchInv(s)
      BY DEF PagedInv
    <3>2. PageTyped(s)
      BY <2>2, <3>1 DEF SearchInv
    <3>3. /\ t.pc = s.pc /\ t.q = s.q /\ t.jobs = s.jobs /\ t.seen = s.seen /\ t.offset = s.offset
          /\ t.page = s.page /\ t.base = s.base /\ t.shrunk = TRUE /\ t.grown \in Nat
      <4>1. t = [s EXCEPT !.grown = s.grown + 0, !.shrunk = s.shrunk \/ TRUE]
        BY <1>1, <1>6 DEF Reads
      <4>2. SearchFields \subseteq DOMAIN s
        BY DEF PagedInv, SearchesTyped
      <4>3. s.grown \in Nat /\ s.shrunk \in BOOLEAN
        BY <3>2 DEF PageTyped
      <4>4. (s.shrunk \/ TRUE) = TRUE
        BY <4>3
      <4> HIDE DEF s, t
      <4>5. t = [s EXCEPT !.grown = s.grown + 0, !.shrunk = TRUE]
        BY <4>1, <4>4
      <4> QED
        BY <4>2, <4>3, <4>5 DEF SearchFields
    <3>4. s.base # <<>>
      BY <1>6 DEF Reads
    <3> HIDE DEF s, t
    <3>5. PageTyped(procs[c])'
      BY <1>4, <3>2, <3>3, <3>4 DEF PageTyped, Tracks, Under, Unread, t
    <3>6. t.q.kind = "linkedin" => LinkedInInv(t)
      BY <2>2, <3>1, <3>3 DEF SearchInv, LinkedInInv, OnceEach, Held
    <3>7. SelInv(t)
      BY <3>3 DEF SelInv
    <3> QED
      BY <3>5, <3>6, <3>7 DEF SearchInv, LinkedInInv, SelInv, t
  <2> QED
    BY <2>1, <2>2
<1> QED
  BY <1>2, <1>3, <1>6, ApartTurn

-----------------------------------------------------------------------------
(* Steps that read the boards.                                             *)

(* Some ads in a row.                                                      *)
LEMMA PartHolds ==
  ASSUME NEW S, NEW ads \in Seq(S), NEW a \in Nat, NEW b \in Nat, a < b, b <= Len(ads)
  PROVE  /\ Part(ads, a, b) \in Seq(S) /\ Len(Part(ads, a, b)) = b - a
         /\ \A i \in 1..(b - a) : Part(ads, a, b)[i] = ads[a + i]
<1> DEFINE part == SubSeq(ads, a + 1, b)
<1>1. Len(ads) \in Nat /\ \A i \in 1..Len(ads) : ads[i] \in S
  BY LenProperties, ElementOfSeq
<1>2. a + 1 \in Int /\ b \in Int /\ \A i \in (a + 1)..b : ads[i] \in S
  BY <1>1
<1>3. /\ part \in Seq(S) /\ Len(part) = IF a + 1 <= b THEN b - (a + 1) + 1 ELSE 0
      /\ \A i \in 1..(b - (a + 1) + 1) : part[i] = ads[a + 1 + i - 1]
  BY <1>2, SubSeqProperties
<1>4. b - (a + 1) + 1 = b - a /\ \A i \in Int : a + 1 + i - 1 = a + i
  OBVIOUS
<1>5. Part(ads, a, b) = part
  BY DEF Part
<1> HIDE DEF part
<1>6. \A i \in 1..(b - a) : part[i] = ads[a + i]
  BY <1>3, <1>4
<1>7. Len(part) = b - a
  BY <1>3
<1> QED
  BY <1>3, <1>5, <1>6, <1>7

LEMMA PartNone ==
  ASSUME NEW ads, NEW a \in Nat, NEW b \in Nat, b <= a
  PROVE  Part(ads, a, b) = <<>>
<1>1. a + 1 \in Int /\ b \in Int /\ b < a + 1
  OBVIOUS
<1> QED
  BY <1>1, SubSeqEmpty DEF Part

LEMMA PartNext ==
  ASSUME NEW S, NEW ads \in Seq(S), NEW a \in Nat, NEW b \in Nat, a < b, b <= Len(ads)
  PROVE  Head(Part(ads, a, b)) = ads[a + 1] /\ Tail(Part(ads, a, b)) = Part(ads, a + 1, b)
<1>1. a + 1 \in 1..Len(ads) /\ b \in (a + 1)..Len(ads)
  BY LenProperties
<1>2. /\ Head(SubSeq(ads, a + 1, b)) = ads[a + 1]
      /\ Tail(SubSeq(ads, a + 1, b)) = SubSeq(ads, a + 1 + 1, b)
  BY <1>1, HeadTailOfSubSeq
<1> QED
  BY <1>2 DEF Part

(* A page is the ads after the offset, at most PageSize.                   *)
LEMMA PageHolds ==
  ASSUME NEW S, NEW ads \in Seq(S), NEW offset \in Nat
  PROVE  LET end == IF offset + PageSize < Len(ads) THEN offset + PageSize ELSE Len(ads) IN
         /\ end \in Nat /\ end <= offset + PageSize /\ end <= Len(ads)
         /\ end = Len(ads) \/ end = offset + PageSize
         /\ PageOf(ads, offset) = Part(ads, offset, end) /\ PageOf(ads, offset) \in Seq(S)
         /\ PageOf(ads, offset) = <<>> <=> Len(ads) <= offset
         /\ Len(ads) > offset => end > offset /\ Len(PageOf(ads, offset)) = end - offset
<1> DEFINE end == IF offset + PageSize < Len(ads) THEN offset + PageSize ELSE Len(ads)
           page == PageOf(ads, offset)
<1>1. PageSize \in Nat /\ PageSize > 0 /\ Len(ads) \in Nat
  BY PageSizeOK, LenProperties
<1>2. /\ end \in Nat /\ end <= offset + PageSize /\ end <= Len(ads)
      /\ end = Len(ads) \/ end = offset + PageSize
      /\ Len(ads) > offset <=> end > offset
  BY <1>1
<1>3. page = Part(ads, offset, end)
  BY DEF PageOf, Part
<1> HIDE DEF end, page
<1>4. end > offset => page \in Seq(S) /\ Len(page) = end - offset
  BY <1>2, <1>3, PartHolds
<1>n. ~(end > offset) => page = <<>> /\ <<>> \in Seq(S)
  BY <1>2, <1>3, PartNone, EmptySeq
<1>m. end > offset => page # <<>>
  <2> SUFFICES ASSUME end > offset, page = <<>> PROVE FALSE
    OBVIOUS
  <2>1. Len(page) = 0
    BY EmptySeq
  <2> QED
    BY <1>2, <1>4, <2>1
<1>5. page = <<>> <=> Len(ads) <= offset
  BY <1>1, <1>2, <1>n, <1>m
<1>6. Len(ads) > offset => end > offset /\ Len(page) = end - offset
  BY <1>1, <1>2, <1>4
<1> QED
  BY <1>2, <1>3, <1>4, <1>n, <1>5, <1>6 DEF end, page

(* The same page, counted in the listing that the search began with.       *)
Shifted(S, ads, base, grown, a, b, k, m) ==
  /\ ads \in Seq(S) /\ base \in Seq(S) /\ Under(base, ads, grown)
  /\ grown \in Nat /\ a \in Nat /\ b \in Nat /\ k \in Nat /\ m \in Nat
  /\ a < b /\ b <= Len(ads) /\ k + grown = a /\ m + grown = b

LEMMA PageOfBase ==
  ASSUME NEW S, NEW ads, NEW base, NEW grown, NEW a, NEW b, NEW k, NEW m,
         Shifted(S, ads, base, grown, a, b, k, m)
  PROVE  Part(ads, a, b) = Part(base, k, m)
<1>0. /\ ads \in Seq(S) /\ base \in Seq(S) /\ Under(base, ads, grown)
      /\ grown \in Nat /\ a \in Nat /\ b \in Nat /\ k \in Nat /\ m \in Nat
      /\ a < b /\ b <= Len(ads) /\ k + grown = a /\ m + grown = b
  BY DEF Shifted
<1> DEFINE page == Part(ads, a, b)
           same == Part(base, k, m)
<1>1. /\ Len(ads) \in Nat /\ Len(base) \in Nat /\ DOMAIN base = 1..Len(base)
      /\ Len(ads) = Len(base) + grown
  BY <1>0, LenProperties DEF Under
<1>2. m - k = b - a /\ m <= Len(base) /\ k < m
  BY <1>0, <1>1
<1>3. page \in Seq(S) /\ Len(page) = b - a /\ \A i \in 1..(b - a) : page[i] = ads[a + i]
  <2>1. ads \in Seq(S) /\ a \in Nat /\ b \in Nat /\ a < b /\ b <= Len(ads)
    BY <1>0
  <2> QED
    BY <2>1, PartHolds
<1>4. same \in Seq(S) /\ Len(same) = b - a /\ \A i \in 1..(b - a) : same[i] = base[k + i]
  <2>1. /\ same \in Seq(S) /\ Len(same) = m - k
        /\ \A i \in 1..(m - k) : same[i] = base[k + i]
    <3>1. base \in Seq(S) /\ k \in Nat /\ m \in Nat /\ k < m /\ m <= Len(base)
      BY <1>0, <1>2
    <3> QED
      BY <3>1, PartHolds
  <2> QED
    BY <1>2, <2>1
<1> HIDE DEF page, same
<1>5. ASSUME NEW i \in 1..(b - a)
      PROVE  page[i] = same[i]
  <2>1. k + i \in DOMAIN base /\ grown + (k + i) = a + i
    BY <1>0, <1>1, <1>2
  <2>2. ads[grown + (k + i)] = base[k + i]
    BY <1>0, <2>1 DEF Under
  <2> QED
    BY <1>3, <1>4, <2>1, <2>2
<1>6. page = same
  BY <1>3, <1>4, <1>5, SeqEqual
<1> QED
  BY <1>6 DEF page, same

LEMMA BeginTurn ==
  ASSUME PagedInv, NEW p \in Commands, Begin(p)
  PROVE  PagedInv'
<1> DEFINE q == Head(procs[p].todo)
           t == [Start EXCEPT !.pc = IF NothingAsked(q) THEN "check" ELSE "request",
                              !.q = q, !.todo = Tail(procs[p].todo), !.skip = procs[p].skip]
<1>1. /\ procs[p].todo \in Seq(Given) /\ procs[p].todo # <<>>
      /\ procs' = [procs EXCEPT ![p] = t] /\ UNCHANGED <<plan, boards, changes>>
      /\ procs = [c \in Commands |-> procs[c]]
  BY DEF Begin, site, PagedInv, SearchesTyped
<1>2. q \in Given /\ Tail(procs[p].todo) \in Seq(Given)
  BY <1>1, HeadTailProperties
<1> HIDE DEF q
<1>3. /\ t.pc = IF NothingAsked(q) THEN "check" ELSE "request"
      /\ t.q = q /\ t.todo = Tail(procs[p].todo) /\ t.jobs = <<>> /\ t.seen = {} /\ t.offset = 0
      /\ t.total = Unset /\ t.page = <<>> /\ t.fresh = FALSE /\ t.base = <<>> /\ t.grown = 0
      /\ t.shrunk = FALSE /\ t.limited = FALSE /\ SearchFields \subseteq DOMAIN t
  BY DEF Start, SearchFields
<1> HIDE DEF t
<1>4. procs'[p] = t /\ Alone(p)
  BY <1>1 DEF Alone
<1>5. Keeps(t)
  BY <1>2, <1>3 DEF Keeps
<1>6. q.max \in Nat
  BY <1>2, GivenSearch DEF PagedInv
<1>7. <<>> \in Seq(Scrapings) /\ <<>> \in Seq(Ads) /\ Len(<<>>) = 0 /\ DOMAIN <<>> = {}
  <2>1. <<>> \in Seq(Ads) /\ Len(<<>>) = 0 /\ <<>> \in Seq(Scrapings)
    BY EmptySeq
  <2>2. DOMAIN <<>> = 1..Len(<<>>)
    BY <2>1, LenProperties
  <2> QED
    BY <2>1, <2>2
<1>8. PageTyped(t)
  <2>1. Unread(t)
    BY <1>3 DEF Unread
  <2>2. Distinct(<<>>)
    BY <1>7 DEF Distinct
  <2>3. t.pc # "cards" /\ 0 \in Nat /\ ~(0 > 0)
    BY <1>3
  <2> QED
    BY <1>3, <1>7, <2>1, <2>2, <2>3 DEF PageTyped
<1>9. t.q.kind = "linkedin" => LinkedInInv(t)
  <2> SUFFICES ASSUME t.q.kind = "linkedin" PROVE LinkedInInv(t)
    OBVIOUS
  <2>1. OnceEach(t)
    BY <1>3, <1>7 DEF OnceEach
  <2>2. t.pc = "request" => Len(t.jobs) < t.q.max
    BY <1>3, <1>6, <1>7 DEF NothingAsked
  <2>3. Got(t, 0) /\ 0 \in 0..Len(t.base)
    <3>1. Offered(<<>>, 0) = {} /\ Lists(<<>>, <<>>, {})
      BY NothingOffered, NoneListed
    <3>2. t.seen = {t.base[i].id : i \in Offered(t.base, 0)}
      BY <1>3, <3>1
    <3>3. Lists(t.jobs, t.base, Offered(t.base, 0))
      BY <1>3, <3>1
    <3>4. Len(t.base) = 0 /\ 0 \in 0..0
      BY <1>3, <1>7
    <3> QED
      BY <3>2, <3>3, <3>4 DEF Got
  <2>4. t.pc = "check" => Len(t.jobs) = t.q.max
    BY <1>3, <1>7 DEF NothingAsked
  <2>5. LinkedInRead(t)
    BY <1>3, <2>3, <2>4 DEF LinkedInRead
  <2> QED
    BY <2>1, <2>2, <2>5 DEF LinkedInInv
<1>10. t.q.kind = "sel" => SelInv(t)
  BY <1>3 DEF SelInv, SelRead, NothingAsked
<1>11. SearchInv(t)
  BY <1>8, <1>9, <1>10 DEF SearchInv
<1> QED
  BY <1>4, <1>5, <1>11, PagedTurn

(* A board that answers with all it lists is not paged.                    *)
LEMMA WholeTurn ==
  ASSUME PagedInv, NEW p \in Commands, RequestWhole(p)
  PROVE  PagedInv'
<1> DEFINE jobs == WholeBoard(procs[p].q, Listed(p))
           listed == Listed(p)
<1>1. /\ procs' = [procs EXCEPT ![p] = [procs[p] EXCEPT !.pc = "check", !.jobs = jobs, !.base = listed]]
      /\ UNCHANGED <<plan, boards, changes>> /\ procs[p].pc = "request"
      /\ procs[p].q.kind \in {"greenhouse", "lever", "ashby", "jobspy"}
  BY DEF RequestWhole, Answers, Asking, site
<1> HIDE DEF jobs, listed
<1>2. SearchesTyped
  BY DEF PagedInv
<1>3. Alone(p) /\ Keeps(procs'[p]) /\ ~Paging(procs'[p])
  BY <1>1, <1>2 DEF Alone, Keeps, Paging, Searching, SearchesTyped, SearchFields
<1> QED
  BY <1>3, IdleTurn

\* A search asks for the page at its offset, of the board as it is listed.
Asks(s, t, listed) ==
  /\ s.pc = "request" /\ t.page = PageOf(listed, s.offset)
  /\ t.pc = IF t.page = <<>> THEN "check" ELSE "cards"
  /\ t.base = IF s.offset = 0 THEN listed ELSE s.base
  /\ t.q = s.q /\ t.jobs = s.jobs /\ t.seen = s.seen /\ t.grown = s.grown /\ t.shrunk = s.shrunk
  /\ t.limited = s.limited

LEMMA AskTyped ==
  ASSUME SiteTyped, NEW s, NEW t, s.q \in Given, PageTyped(s), Asks(s, t, boards[s.q.board]),
         t.offset \in Nat, t.q.kind = "sel" /\ t.pc = "cards" => t.offset > 0
  PROVE  /\ PageTyped(t) /\ Tracks(t, boards[s.q.board])
         /\ s.offset \in Nat /\ s.offset = 0 => Unread(s)
         /\ t.base \in Seq(Ads) /\ Len(t.base) \in Nat /\ DOMAIN t.base = 1..Len(t.base)
<1> DEFINE listed == boards[s.q.board]
<1>1. listed \in Seq(Ads) /\ Distinct(listed)
  BY GivenSearch
<1> HIDE DEF listed
<1>2. /\ s.jobs \in Seq(Scrapings) /\ s.base \in Seq(Ads) /\ Distinct(s.base)
      /\ s.offset \in Nat /\ s.grown \in Nat /\ s.shrunk \in BOOLEAN
      /\ s.offset = 0 => Unread(s)
      /\ s.offset > 0 => s.base # <<>>
      /\ s.base # <<>> => Tracks(s, listed)
      /\ s.pc = "request"
  BY DEF PageTyped, Asks, listed
<1>3. Asks(s, t, listed)
  BY DEF listed
<1>4. PageOf(listed, s.offset) \in Seq(Ads) /\ (PageOf(listed, s.offset) = <<>> <=> Len(listed) <= s.offset)
  BY <1>1, <1>2, PageHolds
<1>5. Len(listed) \in Nat /\ DOMAIN listed = 1..Len(listed)
  BY <1>1, LenProperties
<1>6. t.base \in Seq(Ads) /\ Distinct(t.base) /\ Len(t.base) \in Nat /\ DOMAIN t.base = 1..Len(t.base)
  <2>1. t.base \in Seq(Ads) /\ Distinct(t.base)
    BY <1>1, <1>2, <1>3 DEF Asks
  <2> QED
    BY <2>1, LenProperties
<1>7. Tracks(t, listed)
  <2>1. CASE s.offset = 0
    <3>1. t.grown = 0 /\ t.base = listed
      BY <1>2, <1>3, <2>1 DEF Asks, Unread
    <3>2. \A i \in DOMAIN t.base : 0 + i = i
      BY <1>6
    <3> QED
      BY <1>5, <3>1, <3>2 DEF Tracks, Under
  <2>2. CASE s.offset > 0
    <3>1. Tracks(s, listed)
      BY <1>2, <2>2
    <3>2. t.base = s.base /\ t.grown = s.grown /\ t.shrunk = s.shrunk
      BY <1>2, <1>3, <2>2 DEF Asks
    <3> QED
      BY <3>1, <3>2 DEF Tracks, Under
  <2> QED
    BY <1>2, <2>1, <2>2
<1>8. t.pc = "cards" => t.base # <<>>
  <2> SUFFICES ASSUME t.pc = "cards", t.base = <<>> PROVE FALSE
    OBVIOUS
  <2>1. s.offset = 0 /\ listed = <<>>
    BY <1>2, <1>3 DEF Asks
  <2>2. Len(listed) = 0
    BY <2>1, EmptySeq
  <2>3. t.page = <<>>
    BY <1>3, <1>4, <2>1, <2>2 DEF Asks
  <2> QED
    BY <1>3, <2>3 DEF Asks
<1>9. PageTyped(t)
  <2>1. /\ t.jobs \in Seq(Scrapings) /\ t.page \in Seq(Ads) /\ t.grown \in Nat /\ t.shrunk \in BOOLEAN
        /\ t.pc \in {"check", "cards"} /\ t.q = s.q
    BY <1>2, <1>3, <1>4 DEF Asks
  <2> QED
    BY <1>6, <1>7, <1>8, <2>1 DEF PageTyped, listed
<1> QED
  BY <1>2, <1>6, <1>7, <1>9 DEF listed

(* What LinkedIn's next page shows is some of what is known and what       *)
(* follows it.                                                             *)
LEMMA AskLinkedIn ==
  ASSUME NEW s, NEW t, NEW listed \in Seq(Ads), Asks(s, t, listed), Tracks(t, listed), LinkedInInv(s),
         s.offset \in Nat, s.grown \in Nat, s.offset = 0 => Unread(s), t.offset = s.offset, t.fresh = FALSE,
         t.base \in Seq(Ads), Len(t.base) \in Nat, s.q.max \in Nat
  PROVE  LinkedInInv(t)
<1>1. OnceEach(t) /\ t.pc \in {"check", "cards"} /\ t.shrunk = s.shrunk
  BY DEF Asks, OnceEach, LinkedInInv
<1> SUFFICES ASSUME Held(t) PROVE LinkedInRead(t)
  BY <1>1 DEF LinkedInInv
<1>2. PageSize \in Nat /\ PageSize > 0 /\ Len(listed) \in Nat /\ DOMAIN t.base = 1..Len(t.base)
  BY PageSizeOK, LenProperties
<1>3. t.grown = s.grown /\ t.grown < PageSize /\ ~t.shrunk
  <2>1. Cardinality(Blanks(t.base)) \in Nat
    <3>1. 0 \in Nat /\ 0 <= Len(t.base) /\ \A i \in (0 + 1)..0 : ~HasId(t.base[i])
      OBVIOUS
    <3> QED
      BY <1>2, <3>1, BlankRun
  <2> QED
    BY <1>2, <2>1 DEF Held, Asks
<1>4. Under(t.base, listed, t.grown) /\ Len(listed) = Len(t.base) + t.grown
  BY <1>3 DEF Tracks, Under
<1>5. PICK n \in 0..Len(t.base) :
        /\ Got(t, n) /\ n <= s.offset /\ (n = Len(t.base) \/ n + t.grown >= s.offset) /\ t.grown <= s.offset
  <2>1. CASE s.offset = 0
    <3>1. t.jobs = <<>> /\ t.seen = {} /\ t.grown = 0
      BY <2>1 DEF Asks, Unread
    <3>2. Offered(t.base, 0) = {} /\ Lists(<<>>, t.base, {})
      BY NothingOffered, NoneListed
    <3>3. t.seen = {t.base[i].id : i \in Offered(t.base, 0)} /\ Lists(t.jobs, t.base, Offered(t.base, 0))
      BY <3>1, <3>2
    <3>4. Got(t, 0)
      BY <3>3 DEF Got
    <3>5. 0 \in 0..Len(t.base) /\ 0 <= s.offset /\ 0 + t.grown >= s.offset /\ t.grown <= s.offset
      BY <2>1, <3>1
    <3> QED
      BY <3>4, <3>5
  <2>2. CASE s.offset > 0
    <3>1. t.base = s.base /\ t.seen = s.seen /\ t.jobs = s.jobs /\ s.pc = "request"
      BY <2>2 DEF Asks
    <3>2. Held(s)
      BY <1>1, <1>3, <3>1 DEF Held
    <3>3. LinkedInRead(s)
      BY <3>2 DEF LinkedInInv
    <3>4. /\ s.offset >= PageSize
          /\ \E n \in 0..Len(s.base) :
               Got(s, n) /\ n <= s.offset /\ (n = Len(s.base) \/ n + s.grown >= s.offset)
      BY <2>2, <3>1, <3>3 DEF LinkedInRead
    <3>5. PICK n \in 0..Len(s.base) :
            Got(s, n) /\ n <= s.offset /\ (n = Len(s.base) \/ n + s.grown >= s.offset)
      BY <3>4
    <3>6. Got(t, n)
      BY <3>1, <3>5 DEF Got
    <3>7. t.grown <= s.offset
      BY <1>2, <1>3, <3>4
    <3> QED
      BY <1>3, <3>1, <3>5, <3>6, <3>7
  <2> QED
    BY <2>1, <2>2
<1>6. CASE Len(listed) <= s.offset
  <2>1. t.pc = "check"
    <3>1. PageOf(listed, s.offset) = <<>> <=> Len(listed) <= s.offset
      BY PageHolds
    <3>2. PageOf(listed, s.offset) = <<>>
      BY <1>6, <3>1
    <3> QED
      BY <3>2 DEF Asks
  <2>2. n = Len(t.base)
    BY <1>2, <1>3, <1>4, <1>5, <1>6
  <2>3. Len(t.jobs) < t.q.max
    BY DEF Asks, LinkedInInv
  <2> QED
    BY <1>5, <2>1, <2>2, <2>3 DEF LinkedInRead
<1>7. CASE Len(listed) > s.offset
  <2> DEFINE end == IF s.offset + PageSize < Len(listed) THEN s.offset + PageSize ELSE Len(listed)
             k == s.offset - t.grown
             m == end - t.grown
  <2>1. /\ end \in Nat /\ end <= s.offset + PageSize /\ end <= Len(listed)
        /\ end = Len(listed) \/ end = s.offset + PageSize
        /\ PageOf(listed, s.offset) = Part(listed, s.offset, end)
        /\ (PageOf(listed, s.offset) = <<>> <=> Len(listed) <= s.offset)
        /\ (Len(listed) > s.offset => end > s.offset /\ Len(PageOf(listed, s.offset)) = end - s.offset)
    BY PageHolds
  <2> HIDE DEF end
  <2>n. n \in Nat /\ t.grown \in Nat /\ s.offset \in Nat /\ Len(t.base) \in Nat /\ end > s.offset
    BY <1>3, <1>7, <2>1
  <2>2. t.pc = "cards" /\ t.page = Part(listed, s.offset, end)
    <3>1. PageOf(listed, s.offset) # <<>>
      BY <1>2, <1>7, <2>1, <2>n
    <3> QED
      BY <2>1, <3>1 DEF Asks
  <2>3. t.page = Part(t.base, k, m)
    <3>1. /\ Under(t.base, listed, t.grown)
          /\ t.grown <= s.offset /\ s.offset < end /\ end <= Len(listed)
      BY <1>4, <1>5, <2>1, <2>n
    <3>0. k \in Nat /\ m \in Nat /\ k + t.grown = s.offset /\ m + t.grown = end
      BY <1>5, <2>1, <2>n
    <3> HIDE DEF k, m
    <3>2. Shifted(Ads, listed, t.base, t.grown, s.offset, end, k, m)
      BY <2>1, <2>n, <3>0, <3>1 DEF Shifted
    <3>3. Part(listed, s.offset, end) = Part(t.base, k, m)
      BY <3>2, PageOfBase
    <3> QED
      BY <2>2, <3>3
  <2>4. /\ n <= Len(t.base) /\ n <= s.offset /\ (n = Len(t.base) \/ n + t.grown >= s.offset)
        /\ t.grown <= s.offset /\ t.grown < PageSize /\ end <= Len(t.base) + t.grown
        /\ end = Len(t.base) + t.grown \/ end = s.offset + PageSize
    BY <1>3, <1>4, <1>5, <2>1, <2>n
  <2>5. /\ k \in 0..Len(t.base) /\ m \in 0..Len(t.base) /\ k <= n /\ n <= m
        /\ m <= s.offset + PageSize /\ (m = Len(t.base) \/ m + t.grown >= s.offset + PageSize)
    <3>0. k \in Int /\ m \in Int /\ k + t.grown = s.offset /\ m + t.grown = end
      BY <2>1, <2>n
    <3> HIDE DEF k, m
    <3>1. 0 <= k /\ 0 <= m
      BY <2>1, <2>n, <2>4, <3>0
    <3>2. k <= n
      BY <2>1, <2>n, <2>4, <3>0
    <3>3. n <= m
      <4>1. CASE end = Len(t.base) + t.grown
        <5>1. m = Len(t.base)
          BY <2>n, <3>0, <4>1
        <5> QED
          BY <2>4, <5>1
      <4>2. CASE end = s.offset + PageSize
        <5>1. s.offset <= m
          BY <1>2, <2>n, <2>4, <3>0, <4>2
        <5> QED
          BY <2>n, <2>4, <3>0, <5>1
      <4> QED
        BY <2>4, <4>1, <4>2
    <3>4. m <= Len(t.base)
      BY <2>1, <2>n, <2>4, <3>0
    <3>5. m <= s.offset + PageSize
      BY <1>2, <2>1, <2>n, <2>4, <3>0
    <3>6. m = Len(t.base) \/ m + t.grown >= s.offset + PageSize
      <4>1. CASE end = Len(t.base) + t.grown
        BY <2>n, <3>0, <4>1
      <4>2. CASE end = s.offset + PageSize
        <5>1. m + t.grown = s.offset + PageSize /\ s.offset + PageSize \in Int
          BY <1>2, <2>n, <3>0, <4>2
        <5> QED
          BY <5>1
      <4> QED
        BY <2>4, <4>1, <4>2
    <3> QED
      BY <2>n, <3>0, <3>1, <3>2, <3>3, <3>4, <3>5, <3>6
  <2>6. \A i \in (t.offset + 1)..n : ~HasId(t.base[i])
    BY <1>5
  <2> HIDE DEF k, m
  <2>7. OnPage(t, n, k, m)
    BY <1>5, <2>3, <2>5, <2>6 DEF OnPage
  <2>8. Len(t.jobs) < t.q.max
    BY DEF Asks, LinkedInInv
  <2> QED
    BY <1>5, <2>2, <2>5, <2>7, <2>8 DEF LinkedInRead
<1> QED
  BY <1>2, <1>6, <1>7

LEMMA RequestLinkedInTurn ==
  ASSUME PagedInv, NEW p \in Commands, RequestLinkedIn(p)
  PROVE  PagedInv'
<1> DEFINE s == procs[p]
           listed == boards[s.q.board]
           page == PageOf(listed, s.offset)
           t == [s EXCEPT !.pc = IF page = <<>> THEN "check" ELSE "cards", !.page = page,
                          !.fresh = FALSE, !.base = IF s.offset = 0 THEN listed ELSE s.base]
<1>1. /\ procs' = [procs EXCEPT ![p] = t] /\ UNCHANGED <<plan, boards, changes>>
      /\ s.pc = "request" /\ s.q.kind = "linkedin"
  BY DEF RequestLinkedIn, Answers, Asking, Listed, Base, site
<1>2. /\ SearchFields \subseteq DOMAIN s /\ s.todo \in Seq(Given) /\ s.q \in Given /\ SearchInv(s)
      /\ procs = [c \in Commands |-> procs[c]] /\ SiteTyped
  BY <1>1 DEF PagedInv, SearchesTyped, Searching
<1>3. PageTyped(s) /\ LinkedInInv(s)
  BY <1>1, <1>2 DEF SearchInv, Paging, Searching
<1>4. s.q.max \in Nat /\ listed \in Seq(Ads)
  BY <1>2, GivenSearch
<1>5. procs'[p] = t /\ Alone(p)
  BY <1>1, <1>2 DEF Alone
<1> HIDE DEF s, listed
<1>6. /\ Asks(s, t, listed) /\ t.offset = s.offset /\ t.fresh = FALSE /\ t.todo = s.todo
      /\ SearchFields \subseteq DOMAIN t
  BY <1>1, <1>2 DEF Asks, SearchFields
<1> HIDE DEF t, page
<1>7. s.offset \in Nat /\ s.grown \in Nat
  BY <1>3 DEF PageTyped
<1>8. /\ PageTyped(t) /\ Tracks(t, listed) /\ (s.offset = 0 => Unread(s))
      /\ t.base \in Seq(Ads) /\ Len(t.base) \in Nat
  <2>1. Asks(s, t, boards[s.q.board]) /\ t.offset \in Nat /\ t.q.kind # "sel"
    BY <1>1, <1>6, <1>7 DEF listed, Asks
  <2> QED
    BY <1>2, <1>3, <2>1, AskTyped DEF listed
<1>9. LinkedInInv(t)
  BY <1>3, <1>4, <1>6, <1>7, <1>8, AskLinkedIn
<1>10. SearchInv(t) /\ Keeps(t)
  BY <1>1, <1>2, <1>6, <1>8, <1>9 DEF SearchInv, Keeps, Asks
<1> QED
  BY <1>5, <1>10, PagedTurn

LEMMA LimitLinkedInTurn ==
  ASSUME PagedInv, NEW p \in Commands, LimitLinkedIn(p)
  PROVE  PagedInv'
<1> DEFINE s == procs[p]
           listed == boards[s.q.board]
           t == [s EXCEPT !.pc = "check", !.limited = TRUE, !.base = IF s.offset = 0 THEN listed ELSE s.base]
<1>1. /\ procs' = [procs EXCEPT ![p] = t] /\ UNCHANGED <<plan, boards, changes>>
      /\ s.pc = "request" /\ s.q.kind = "linkedin"
  BY DEF LimitLinkedIn, Answers, Asking, Listed, Base, site
<1>2. /\ SearchFields \subseteq DOMAIN s /\ s.todo \in Seq(Given) /\ s.q \in Given /\ SearchInv(s)
      /\ procs = [c \in Commands |-> procs[c]] /\ SiteTyped
  BY <1>1 DEF PagedInv, SearchesTyped, Searching
<1>3. PageTyped(s) /\ LinkedInInv(s)
  BY <1>1, <1>2 DEF SearchInv, Paging, Searching
<1>4. listed \in Seq(Ads) /\ Distinct(listed)
  BY <1>2, GivenSearch
<1>5. procs'[p] = t /\ Alone(p)
  BY <1>1, <1>2 DEF Alone
<1> HIDE DEF s, listed
<1>6. /\ t.pc = "check" /\ t.limited = TRUE /\ t.base = (IF s.offset = 0 THEN listed ELSE s.base)
      /\ t.q = s.q /\ t.todo = s.todo /\ t.jobs = s.jobs /\ t.page = s.page /\ t.offset = s.offset
      /\ t.grown = s.grown /\ t.shrunk = s.shrunk /\ t.seen = s.seen /\ SearchFields \subseteq DOMAIN t
  BY <1>2 DEF SearchFields
<1> HIDE DEF t
<1>7. PageTyped(t)
  BY <1>3, <1>4, <1>6 DEF PageTyped
<1>8. LinkedInInv(t)
  BY <1>3, <1>6 DEF LinkedInInv, OnceEach, LinkedInRead
<1>9. SearchInv(t) /\ Keeps(t)
  BY <1>1, <1>2, <1>6, <1>7, <1>8 DEF SearchInv, Keeps
<1> QED
  BY <1>5, <1>9, PagedTurn

\* A search takes the first card of its page, with the posting x when it is new.
Takes(s, t, x) ==
  LET ad == Head(s.page)
      new == NewCard(s.seen, ad)
      full == new /\ Len(s.jobs) + 1 >= s.q.max
  IN  /\ s.pc = "cards" /\ s.page # <<>> /\ x.id = ad.id
      /\ t.page = IF full THEN <<>> ELSE Tail(s.page)
      /\ t.seen = s.seen \cup (IF new THEN {ad.id} ELSE {})
      /\ t.fresh = (s.fresh \/ new)
      /\ t.jobs = IF new THEN Append(s.jobs, x) ELSE s.jobs
      /\ t.pc = s.pc /\ t.q = s.q /\ t.base = s.base /\ t.offset = s.offset /\ t.grown = s.grown
      /\ t.shrunk = s.shrunk

(* A card that is new has an id no job had.                                *)
LEMMA TakesOnce ==
  ASSUME NEW S, NEW s, NEW t, NEW x \in S, s.jobs \in Seq(S), Takes(s, t, x), OnceEach(s)
  PROVE  OnceEach(t)
<1> DEFINE ad == Head(s.page)
<1>1. CASE ~NewCard(s.seen, ad)
  <2>1. t.jobs = s.jobs /\ s.seen \subseteq t.seen
    BY <1>1 DEF Takes
  <2> QED
    BY <2>1 DEF OnceEach
<1>2. CASE NewCard(s.seen, ad)
  <2>1. t.jobs = Append(s.jobs, x) /\ t.seen = s.seen \cup {ad.id} /\ x.id = ad.id /\ ad.id \notin s.seen
    BY <1>2 DEF Takes, NewCard
  <2>2. /\ Len(s.jobs) \in Nat /\ DOMAIN s.jobs = 1..Len(s.jobs)
        /\ DOMAIN t.jobs = 1..(Len(s.jobs) + 1) /\ t.jobs[Len(s.jobs) + 1] = x
        /\ \A i \in DOMAIN s.jobs : t.jobs[i] = s.jobs[i]
    BY <2>1, AppendProperties, LenProperties
  <2>3. \A i \in DOMAIN t.jobs : i \in DOMAIN s.jobs \/ i = Len(s.jobs) + 1
    BY <2>2
  <2> HIDE DEF ad
  <2>4. \A i \in DOMAIN t.jobs : t.jobs[i].id \in t.seen
    BY <2>1, <2>2, <2>3 DEF OnceEach
  <2>5. \A i \in DOMAIN s.jobs : t.jobs[i].id # x.id
    BY <2>1, <2>2 DEF OnceEach
  <2>6. \A i, k \in DOMAIN t.jobs : t.jobs[i].id = t.jobs[k].id => i = k
    <3> SUFFICES ASSUME NEW i \in DOMAIN t.jobs, NEW k \in DOMAIN t.jobs, t.jobs[i].id = t.jobs[k].id
                 PROVE  i = k
      OBVIOUS
    <3>1. CASE i \in DOMAIN s.jobs /\ k \in DOMAIN s.jobs
      BY <2>2, <3>1 DEF OnceEach
    <3>2. CASE i \in DOMAIN s.jobs /\ k = Len(s.jobs) + 1
      BY <2>2, <2>5, <3>2
    <3>3. CASE i = Len(s.jobs) + 1 /\ k \in DOMAIN s.jobs
      BY <2>2, <2>5, <3>3
    <3> QED
      BY <2>3, <3>1, <3>2, <3>3
  <2> QED
    BY <2>4, <2>6 DEF OnceEach
<1> QED
  BY <1>1, <1>2

(* It is the next ad after those the search has, with an id, if it is new; *)
(* one of them or an ad without an id, if it is not.                       *)
LEMMA CardPlace ==
  ASSUME NEW s, s.base \in Seq(Ads), Len(s.base) \in Nat, DOMAIN s.base = 1..Len(s.base), Distinct(s.base),
         NEW n \in 0..Len(s.base), NEW k \in 0..Len(s.base), Got(s, n), k <= n, k < Len(s.base)
  PROVE  LET ad == s.base[k + 1] IN
         /\ NewCard(s.seen, ad) => k = n /\ HasId(ad)
         /\ ~NewCard(s.seen, ad) /\ k = n => ~HasId(ad)
<1> DEFINE ad == s.base[k + 1]
<1>1. k + 1 \in DOMAIN s.base /\ k \in Nat /\ n \in Nat
  OBVIOUS
<1>2. s.seen = {s.base[i].id : i \in Offered(s.base, n)}
  BY DEF Got
<1>3. ASSUME NewCard(s.seen, ad), k # n PROVE FALSE
  <2>1. k + 1 \in Offered(s.base, n)
    BY <1>1, <1>3 DEF NewCard, Offered
  <2>2. ad.id \in s.seen
    BY <1>2, <2>1
  <2> QED
    BY <1>3, <2>2 DEF NewCard
<1>4. ASSUME ~NewCard(s.seen, ad), k = n, HasId(ad) PROVE FALSE
  <2>1. ad.id \in s.seen
    BY <1>4 DEF NewCard
  <2>2. PICK i \in Offered(s.base, n) : s.base[i].id = ad.id
    BY <1>2, <2>1
  <2>3. i \in 1..n /\ i \in DOMAIN s.base
    BY <1>1, <2>2 DEF Offered
  <2>4. i = k + 1
    BY <1>1, <1>4, <2>2, <2>3 DEF Distinct
  <2> QED
    BY <1>1, <1>4, <2>3, <2>4
<1> QED
  BY <1>3, <1>4 DEF NewCard

LEMMA TakesRead ==
  ASSUME NEW S, NEW s, NEW t, NEW x \in S, s.jobs \in Seq(S), Takes(s, t, x), LinkedInRead(s),
         s.base \in Seq(Ads), Len(s.base) \in Nat, DOMAIN s.base = 1..Len(s.base), Distinct(s.base),
         s.offset \in Nat, s.grown \in Nat, s.q.max \in Nat
  PROVE  LinkedInRead(t)
<1> DEFINE Upto == 0..Len(s.base)
<1>0. t.pc = "cards" /\ s.pc = "cards" /\ s.page # <<>> /\ t.base = s.base /\ t.q = s.q
      /\ t.offset = s.offset /\ t.grown = s.grown /\ PageSize \in Nat
  BY PageSizeOK DEF Takes
<1> SUFFICES \/ t.page = <<>> /\ t.fresh /\ Len(t.jobs) = t.q.max /\ \E n \in Upto : Got(t, n)
             \/ Len(t.jobs) < t.q.max /\ \E n, k, m \in Upto : OnPage(t, n, k, m)
  BY <1>0 DEF LinkedInRead
<1>1. Len(s.jobs) < s.q.max /\ Len(s.jobs) \in Nat /\ \E n, k, m \in Upto : OnPage(s, n, k, m)
  BY <1>0, LenProperties DEF LinkedInRead
<1>2. PICK n, k, m \in Upto : OnPage(s, n, k, m)
  BY <1>1
<1>3. /\ k <= n /\ n <= m /\ m <= s.offset + PageSize
      /\ m = Len(s.base) \/ m + s.grown >= s.offset + PageSize
      /\ s.page = Part(s.base, k, m)
      /\ s.fresh \/ \A i \in (s.offset + 1)..n : ~HasId(s.base[i])
      /\ Got(s, n)
  BY <1>2 DEF OnPage
<1>4. k < m
  <2> SUFFICES ASSUME m <= k PROVE FALSE
    OBVIOUS
  <2>1. k \in Nat /\ m \in Nat
    OBVIOUS
  <2>2. Part(s.base, k, m) = <<>>
    BY <2>1, PartNone
  <2> QED
    BY <1>0, <1>3, <2>2
<1>5. /\ Head(s.page) = s.base[k + 1] /\ Tail(s.page) = Part(s.base, k + 1, m)
      /\ k \in Nat /\ m \in Nat /\ n \in Nat /\ m <= Len(s.base)
  <2>1. k \in Nat /\ m \in Nat /\ n \in Nat /\ m <= Len(s.base)
    OBVIOUS
  <2> QED
    BY <1>3, <1>4, <2>1, PartNext
<1> DEFINE ad == s.base[k + 1]
<1>6. k + 1 \in Upto /\ k < Len(s.base) /\ k + 1 <= m
  BY <1>4, <1>5
<1>7. /\ NewCard(s.seen, ad) => k = n /\ HasId(ad)
      /\ ~NewCard(s.seen, ad) /\ k = n => ~HasId(ad)
  BY <1>3, <1>6, CardPlace
<1>8. CASE ~NewCard(s.seen, ad)
  <2>1. t.page = Part(s.base, k + 1, m) /\ t.seen = s.seen /\ (t.fresh <=> s.fresh) /\ t.jobs = s.jobs
    BY <1>5, <1>8 DEF Takes
  <2>2. CASE k < n
    <3>1. Got(t, n)
      BY <1>0, <1>3, <2>1 DEF Got
    <3>2. k + 1 <= n
      BY <1>5, <2>2
    <3>3. OnPage(t, n, k + 1, m)
      BY <1>0, <1>3, <2>1, <3>1, <3>2 DEF OnPage
    <3> QED
      BY <1>0, <1>1, <1>6, <2>1, <3>3
  <2>3. CASE k = n
    <3>1. ~HasId(ad)
      BY <1>7, <1>8, <2>3
    <3>2. Offered(s.base, n + 1) = Offered(s.base, n)
      BY <1>5, <2>3, <3>1, OfferedNext
    <3>3. Got(t, k + 1)
      BY <1>0, <1>3, <2>1, <2>3, <3>2 DEF Got
    <3>4. t.fresh \/ \A i \in (t.offset + 1)..(k + 1) : ~HasId(s.base[i])
      <4> SUFFICES ASSUME ~t.fresh, NEW i \in (t.offset + 1)..(k + 1) PROVE ~HasId(s.base[i])
        OBVIOUS
      <4>1. i = k + 1 \/ i \in (s.offset + 1)..n
        BY <1>0, <1>5, <2>3
      <4> QED
        BY <1>3, <2>1, <3>1, <4>1
    <3>5. OnPage(t, k + 1, k + 1, m)
      <4>1. k + 1 <= k + 1
        BY <1>5
      <4> QED
        BY <1>0, <1>3, <1>6, <2>1, <3>3, <3>4, <4>1 DEF OnPage
    <3> QED
      BY <1>0, <1>1, <1>6, <2>1, <3>5
  <2> QED
    BY <1>3, <1>5, <2>2, <2>3
<1>9. CASE NewCard(s.seen, ad)
  <2>1. k = n /\ HasId(ad)
    BY <1>7, <1>9
  <2>2. t.seen = s.seen \cup {ad.id} /\ t.fresh /\ t.jobs = Append(s.jobs, x) /\ x.id = ad.id
    BY <1>5, <1>9 DEF Takes
  <2>3. Len(t.jobs) = Len(s.jobs) + 1
    BY <2>2, AppendProperties
  <2>4. Offered(s.base, k + 1) = Offered(s.base, k) \cup {k + 1} /\ Offered(s.base, k) \in SUBSET (1..k)
    BY <1>5, <2>1, OfferedNext
  <2>5. Got(t, k + 1)
    <3>1. t.seen = {t.base[i].id : i \in Offered(t.base, k + 1)}
      <4>1. s.seen = {s.base[i].id : i \in Offered(s.base, k)}
        BY <1>3, <2>1 DEF Got
      <4> QED
        BY <1>0, <2>2, <2>4, <4>1
    <3>2. Lists(Append(s.jobs, x), s.base, Offered(s.base, k) \cup {k + 1})
      <4>1. Lists(s.jobs, s.base, Offered(s.base, k))
        BY <1>3, <2>1 DEF Got
      <4>2. Offered(s.base, k) \in SUBSET Nat /\ (\A i \in Offered(s.base, k) : i < k + 1) /\ k + 1 \in Nat
        BY <1>5, <2>4
      <4> QED
        BY <2>2, <4>1, <4>2, OneMoreListed
    <3> QED
      BY <1>0, <2>2, <2>4, <3>1, <3>2 DEF Got
  <2>6. CASE Len(s.jobs) + 1 >= s.q.max
    <3>1. t.page = <<>>
      BY <1>5, <1>9, <2>6 DEF Takes
    <3>2. Len(t.jobs) = t.q.max
      BY <1>0, <1>1, <2>3, <2>6
    <3> QED
      BY <1>6, <2>2, <2>5, <3>1, <3>2
  <2>7. CASE ~(Len(s.jobs) + 1 >= s.q.max)
    <3>1. t.page = Part(s.base, k + 1, m)
      BY <1>5, <1>9, <2>7 DEF Takes
    <3>2. Len(t.jobs) < t.q.max
      BY <1>0, <1>1, <2>3, <2>7
    <3>3. OnPage(t, k + 1, k + 1, m)
      <4>1. k + 1 <= k + 1
        BY <1>5
      <4> QED
        BY <1>0, <1>3, <1>6, <2>2, <2>5, <3>1, <4>1 DEF OnPage
    <3> QED
      BY <1>6, <3>2, <3>3
  <2> QED
    BY <2>6, <2>7
<1> QED
  BY <1>8, <1>9

LEMMA LinkedInCardTurn ==
  ASSUME PagedInv, NEW p \in Commands, LinkedInCard(p)
  PROVE  PagedInv'
<1> DEFINE s == procs[p]
           ad == Head(s.page)
           new == NewCard(s.seen, ad)
           full == new /\ Len(s.jobs) + 1 >= s.q.max
           x(answered) == LinkedInPosting(s.q, ad, answered)
           page == IF full THEN <<>> ELSE Tail(s.page)
           seen == s.seen \cup (IF new THEN {ad.id} ELSE {})
           fresh == s.fresh \/ new
           jobs(answered) == IF new THEN Append(s.jobs, x(answered)) ELSE s.jobs
           t(answered) ==
             [s EXCEPT !.page = page, !.seen = seen, !.fresh = fresh, !.jobs = jobs(answered)]
<1>1. /\ s.pc = "cards" /\ s.q.kind = "linkedin" /\ s.page # <<>> /\ UNCHANGED <<plan, boards, changes>>
      /\ \E answered \in {StillListed(p, ad), FALSE} : procs' = [procs EXCEPT ![p] = t(answered)]
  BY DEF LinkedInCard, site
<1>2. PICK answered \in BOOLEAN : procs' = [procs EXCEPT ![p] = t(answered)]
  <2>1. StillListed(p, ad) \in BOOLEAN
    BY DEF StillListed
  <2> QED
    BY <1>1, <2>1
<1>3. /\ SearchFields \subseteq DOMAIN s /\ s.todo \in Seq(Given) /\ s.q \in Given /\ SearchInv(s)
      /\ procs = [c \in Commands |-> procs[c]] /\ SiteTyped
  BY <1>1 DEF PagedInv, SearchesTyped, Searching
<1>4. PageTyped(s) /\ LinkedInInv(s)
  BY <1>1, <1>3 DEF SearchInv, Paging, Searching
<1> DEFINE u == t(answered)
           y == x(answered)
<1>5. procs'[p] = u /\ Alone(p)
  <2>1. procs' = [procs EXCEPT ![p] = u] /\ UNCHANGED <<plan, boards, changes>>
    BY <1>1, <1>2
  <2> HIDE DEF t, u
  <2> QED
    BY <1>3, <2>1 DEF Alone
<1>6. s.page \in Seq(Ads) /\ ad \in Ads /\ Tail(s.page) \in Seq(Ads)
  <2>1. s.page \in Seq(Ads)
    BY <1>4 DEF PageTyped
  <2> QED
    BY <1>1, <2>1, HeadTailProperties
<1>7. x(answered) \in Scrapings /\ x(answered).id = ad.id
  BY <1>3, <1>6, PostingIds DEF Scrapings
<1>8. /\ Takes(s, u, y) /\ SearchFields \subseteq DOMAIN u /\ u.todo = s.todo /\ u.limited = s.limited
      /\ u.total = s.total
  <2> HIDE DEF x
  <2>1. /\ u.page = IF full THEN <<>> ELSE Tail(s.page)
        /\ u.seen = s.seen \cup (IF new THEN {ad.id} ELSE {}) /\ u.fresh = (s.fresh \/ new)
        /\ u.jobs = IF new THEN Append(s.jobs, y) ELSE s.jobs
    <3>1. u.page = page /\ u.seen = seen /\ u.fresh = fresh /\ u.jobs = jobs(answered)
      <4> HIDE DEF s, page, seen, fresh, jobs
      <4> QED
        BY <1>3 DEF SearchFields
    <3> QED
      BY <3>1
  <2>2. /\ u.pc = s.pc /\ u.q = s.q /\ u.base = s.base /\ u.offset = s.offset /\ u.grown = s.grown
        /\ u.shrunk = s.shrunk /\ u.todo = s.todo /\ u.limited = s.limited /\ u.total = s.total
        /\ SearchFields \subseteq DOMAIN u
    <3> HIDE DEF s, page, seen, fresh, jobs
    <3> QED
      BY <1>3 DEF SearchFields
  <2> QED
    BY <1>1, <1>7, <2>1, <2>2 DEF Takes
<1> HIDE DEF x, t, u, y
<1>9. y \in Scrapings /\ procs'[p] = u
  BY <1>5, <1>7 DEF u, y
<1> HIDE DEF s, ad, new, full
<1>10. /\ s.jobs \in Seq(Scrapings) /\ s.base \in Seq(Ads) /\ Len(s.base) \in Nat
       /\ DOMAIN s.base = 1..Len(s.base) /\ Distinct(s.base) /\ s.offset \in Nat /\ s.grown \in Nat
       /\ s.q.max \in Nat
  BY <1>3, <1>4, LenProperties, GivenSearch DEF PageTyped
<1>11. PageTyped(u)
  <2>1. u.page \in Seq(Ads)
    <3>1. <<>> \in Seq(Ads)
      BY EmptySeq
    <3>2. u.page \in {<<>>, Tail(s.page)}
      BY <1>8 DEF Takes
    <3> QED
      BY <1>6, <3>1, <3>2
  <2>2. u.jobs \in Seq(Scrapings)
    <3>1. Append(s.jobs, y) \in Seq(Scrapings)
      BY <1>9, <1>10, AppendProperties
    <3>2. u.jobs \in {s.jobs, Append(s.jobs, y)}
      BY <1>8 DEF Takes
    <3> QED
      BY <1>10, <3>1, <3>2
  <2>3. /\ u.pc = "cards" /\ u.q = s.q /\ u.base = s.base /\ u.offset = s.offset /\ u.grown = s.grown
        /\ u.shrunk = s.shrunk
    BY <1>8 DEF Takes
  <2> QED
    BY <1>1, <1>4, <2>1, <2>2, <2>3 DEF PageTyped, Tracks
<1>12. LinkedInInv(u)
  <2>1. OnceEach(u)
    BY <1>4, <1>8, <1>9, <1>10, TakesOnce DEF LinkedInInv
  <2>2. u.pc # "request" /\ (Held(u) => Held(s))
    BY <1>8 DEF Takes, Held
  <2>3. LinkedInRead(s) => LinkedInRead(u)
    BY <1>8, <1>9, <1>10, TakesRead
  <2> QED
    BY <1>4, <2>1, <2>2, <2>3 DEF LinkedInInv
<1>13. SearchInv(u) /\ Keeps(u)
  BY <1>1, <1>3, <1>8, <1>11, <1>12 DEF SearchInv, Keeps, Takes
<1> QED
  BY <1>5, <1>9, <1>13, PagedTurn

LEMMA PartSome ==
  ASSUME NEW S, NEW ads, NEW a, NEW b, ads \in Seq(S), a \in Nat, b \in Nat, a < b, b <= Len(ads)
  PROVE  Part(ads, a, b) # <<>>
<1>1. Part(ads, a, b) \in Seq(S) /\ Len(Part(ads, a, b)) = b - a
  BY PartHolds
<1>2. Len(<<>>) = 0 /\ b - a # 0
  BY EmptySeq
<1> QED
  BY <1>1, <1>2

\* A search has read its page, and goes on when that had a new ad.
Turns(s, t) ==
  LET again == s.fresh /\ Len(s.jobs) < s.q.max
  IN  /\ s.pc = "cards" /\ s.page = <<>>
      /\ t.pc = (IF again THEN "request" ELSE "check")
      /\ t.offset = (IF s.fresh THEN s.offset + PageSize ELSE s.offset)
      /\ t.q = s.q /\ t.base = s.base /\ t.jobs = s.jobs /\ t.seen = s.seen /\ t.grown = s.grown
      /\ t.shrunk = s.shrunk /\ t.page = s.page

LEMMA TurnsRead ==
  ASSUME NEW s, NEW t, Turns(s, t), LinkedInRead(s), Held(s),
         s.jobs \in Seq(Scrapings), s.base \in Seq(Ads), Len(s.base) \in Nat,
         DOMAIN s.base = 1..Len(s.base), s.offset \in Nat, s.grown \in Nat, s.q.max \in Nat
  PROVE  LinkedInRead(t)
<1>0. /\ t.base = s.base /\ t.q = s.q /\ t.jobs = s.jobs /\ t.grown = s.grown /\ s.page = <<>>
      /\ s.pc = "cards" /\ t.pc \in {"request", "check"} /\ Len(s.jobs) \in Nat
      /\ PageSize \in Nat /\ PageSize > 0
  BY PageSizeOK, LenProperties DEF Turns
<1>1. \A n : Got(s, n) => Got(t, n)
  BY DEF Turns, Got
<1>2. CASE s.fresh /\ Len(s.jobs) = s.q.max /\ \E n \in 0..Len(s.base) : Got(s, n)
  <2>1. t.pc = "check"
    BY <1>0, <1>2 DEF Turns
  <2> QED
    BY <1>0, <1>1, <1>2, <2>1 DEF LinkedInRead
<1>3. CASE Len(s.jobs) < s.q.max /\ \E n, k, m \in 0..Len(s.base) : OnPage(s, n, k, m)
  <2>1. PICK n, k, m \in 0..Len(s.base) : OnPage(s, n, k, m)
    BY <1>3
  <2>2. /\ k <= n /\ n <= m /\ m <= s.offset + PageSize
        /\ m = Len(s.base) \/ m + s.grown >= s.offset + PageSize
        /\ s.page = Part(s.base, k, m)
        /\ s.fresh \/ \A i \in (s.offset + 1)..n : ~HasId(s.base[i])
        /\ Got(s, n) /\ n \in Nat /\ k \in Nat /\ m \in Nat /\ m <= Len(s.base)
    BY <2>1 DEF OnPage
  <2>3. n = m
    <3>1. ~(k < m)
      <4> SUFFICES ASSUME k < m PROVE FALSE
        OBVIOUS
      <4>1. s.base \in Seq(Ads) /\ k \in Nat /\ m \in Nat /\ k < m /\ m <= Len(s.base)
        BY <2>2
      <4>2. Part(s.base, k, m) # <<>>
        BY <4>1, PartSome
      <4> QED
        BY <1>0, <2>2, <4>2
    <3> QED
      BY <2>2, <3>1
  <2>4. CASE s.fresh
    <3>1. t.pc = "request" /\ t.offset = s.offset + PageSize
      BY <1>3, <2>4 DEF Turns
    <3>2. n <= t.offset /\ t.offset >= PageSize
      BY <1>0, <2>2, <2>3, <3>1
    <3>3. n = Len(t.base) \/ n + t.grown >= t.offset
      BY <1>0, <2>2, <2>3, <3>1
    <3> QED
      BY <1>0, <1>1, <2>2, <3>1, <3>2, <3>3 DEF LinkedInRead
  <2>5. CASE ~s.fresh
    <3>1. t.pc = "check" /\ Len(t.jobs) < t.q.max
      BY <1>0, <1>3, <2>5 DEF Turns
    <3>2. n - s.offset <= Cardinality(Blanks(s.base)) /\ Cardinality(Blanks(s.base)) \in Nat
      BY <2>2, <2>3, <2>5, BlankRun
    <3>3. s.grown + Cardinality(Blanks(s.base)) < PageSize
      BY DEF Held
    <3>4. ~(n + s.grown >= s.offset + PageSize)
      BY <1>0, <2>2, <3>2, <3>3
    <3>5. n = Len(t.base)
      BY <1>0, <2>2, <2>3, <3>4
    <3> QED
      BY <1>0, <1>1, <2>2, <3>1, <3>5 DEF LinkedInRead
  <2> QED
    BY <2>4, <2>5
<1> QED
  BY <1>0, <1>2, <1>3 DEF LinkedInRead

LEMMA LinkedInPageTurn ==
  ASSUME PagedInv, NEW p \in Commands, LinkedInPage(p)
  PROVE  PagedInv'
<1> DEFINE s == procs[p]
           pc == IF s.fresh /\ Len(s.jobs) < s.q.max THEN "request" ELSE "check"
           offset == IF s.fresh THEN s.offset + PageSize ELSE s.offset
           t == [s EXCEPT !.pc = pc, !.offset = offset]
<1>1. /\ procs' = [procs EXCEPT ![p] = t] /\ UNCHANGED <<plan, boards, changes>>
      /\ s.pc = "cards" /\ s.q.kind = "linkedin" /\ s.page = <<>>
  BY DEF LinkedInPage, site
<1>2. /\ SearchFields \subseteq DOMAIN s /\ s.todo \in Seq(Given) /\ s.q \in Given /\ SearchInv(s)
      /\ procs = [c \in Commands |-> procs[c]] /\ SiteTyped
  BY <1>1 DEF PagedInv, SearchesTyped, Searching
<1>3. PageTyped(s) /\ LinkedInInv(s)
  BY <1>1, <1>2 DEF SearchInv, Paging, Searching
<1>4. procs'[p] = t /\ Alone(p)
  <2> HIDE DEF t
  <2> QED
    BY <1>1, <1>2 DEF Alone
<1>5. /\ t.pc = pc /\ t.offset = offset /\ t.q = s.q /\ t.base = s.base /\ t.jobs = s.jobs
      /\ t.seen = s.seen /\ t.grown = s.grown /\ t.shrunk = s.shrunk /\ t.page = s.page
      /\ t.todo = s.todo /\ SearchFields \subseteq DOMAIN t
  <2> HIDE DEF s, pc, offset
  <2> QED
    BY <1>2 DEF SearchFields
<1> HIDE DEF t
<1>6. Turns(s, t)
  BY <1>1, <1>5 DEF Turns
<1> HIDE DEF s
<1>7. /\ s.jobs \in Seq(Scrapings) /\ s.base \in Seq(Ads) /\ Len(s.base) \in Nat /\ s.base # <<>>
      /\ DOMAIN s.base = 1..Len(s.base) /\ s.offset \in Nat /\ s.grown \in Nat /\ s.q.max \in Nat
      /\ PageSize \in Nat /\ PageSize > 0
  BY <1>1, <1>2, <1>3, PageSizeOK, LenProperties, GivenSearch DEF PageTyped
<1>8. PageTyped(t)
  <2>1. t.offset \in Nat /\ (t.pc = "request" => t.offset > 0) /\ t.pc \in {"request", "check"}
    BY <1>5, <1>7
  <2> QED
    BY <1>1, <1>3, <1>5, <1>7, <2>1 DEF PageTyped, Tracks
<1>9. LinkedInInv(t)
  <2>1. OnceEach(t) /\ (t.pc = "request" => Len(t.jobs) < t.q.max) /\ (Held(t) => Held(s))
    BY <1>3, <1>5 DEF LinkedInInv, OnceEach, Held
  <2>2. Held(s) => LinkedInRead(t)
    BY <1>3, <1>6, <1>7, TurnsRead DEF LinkedInInv
  <2> QED
    BY <2>1, <2>2 DEF LinkedInInv
<1>10. SearchInv(t) /\ Keeps(t)
  BY <1>1, <1>2, <1>5, <1>8, <1>9 DEF SearchInv, Keeps
<1> QED
  BY <1>4, <1>10, PagedTurn

(* Workday's next page begins where the last one ended, and its total is   *)
(* the first page's.                                                       *)
LEMMA AskSel ==
  ASSUME NEW s, NEW t, NEW listed \in Seq(Ads), Asks(s, t, listed), Tracks(t, listed), SelInv(s),
         s.offset \in Nat, s.offset = 0 => Unread(s), t.base \in Seq(Ads), Len(t.base) \in Nat,
         t.offset = s.offset + Len(t.page),
         t.total = IF s.total = Unset THEN Len(listed) ELSE s.total
  PROVE  SelInv(t)
<1> SUFFICES ASSUME ~t.shrunk, t.grown = 0 PROVE SelRead(t)
  BY DEF SelInv
<1>1. /\ s.pc = "request" /\ t.q = s.q /\ t.jobs = s.jobs /\ t.page = PageOf(listed, s.offset)
      /\ t.pc = (IF t.page = <<>> THEN "check" ELSE "cards") /\ ~s.shrunk /\ s.grown = 0
      /\ t.base = (IF s.offset = 0 THEN listed ELSE s.base)
  BY DEF Asks
<1>2. /\ Under(t.base, listed, 0) /\ Len(listed) = Len(t.base) /\ Len(listed) \in Nat
  BY LenProperties DEF Tracks, Under
<1>3. /\ s.offset <= Len(t.base) /\ t.total = Len(t.base)
      /\ Lists(t.jobs, t.base, Wanted(t.q, t.base, s.offset))
  <2>1. CASE s.offset = 0
    <3>1. t.jobs = <<>> /\ s.total = Unset
      BY <1>1, <2>1 DEF Unread
    <3>2. Wanted(t.q, t.base, 0) = {} /\ Lists(<<>>, t.base, {})
      BY NothingOffered, NoneListed
    <3>3. Lists(t.jobs, t.base, Wanted(t.q, t.base, s.offset))
      BY <2>1, <3>1, <3>2
    <3>4. s.offset <= Len(t.base) /\ t.total = Len(t.base)
      BY <1>2, <2>1, <3>1
    <3> QED
      BY <3>3, <3>4
  <2>2. CASE s.offset > 0
    <3>1. SelRead(s) /\ t.base = s.base
      BY <1>1, <2>2 DEF SelInv
    <3>2. s.offset <= Len(s.base) /\ s.total = Len(s.base) /\ Lists(s.jobs, s.base, Wanted(s.q, s.base, s.offset))
      BY <1>1, <2>2, <3>1 DEF SelRead
    <3> QED
      BY <1>1, <1>2, <3>1, <3>2
  <2> QED
    BY <2>1, <2>2
<1>4. CASE Len(listed) <= s.offset
  <2>1. PageOf(listed, s.offset) = <<>> <=> Len(listed) <= s.offset
    BY PageHolds
  <2>2. t.pc = "check" /\ s.offset = Len(t.base)
    BY <1>1, <1>2, <1>3, <1>4, <2>1
  <2> QED
    BY <1>3, <2>2 DEF SelRead
<1>5. CASE Len(listed) > s.offset
  <2> DEFINE end == IF s.offset + PageSize < Len(listed) THEN s.offset + PageSize ELSE Len(listed)
  <2>1. /\ end \in Nat /\ end <= s.offset + PageSize /\ end <= Len(listed)
        /\ end = Len(listed) \/ end = s.offset + PageSize
        /\ PageOf(listed, s.offset) = Part(listed, s.offset, end)
        /\ (PageOf(listed, s.offset) = <<>> <=> Len(listed) <= s.offset)
        /\ (Len(listed) > s.offset => end > s.offset /\ Len(PageOf(listed, s.offset)) = end - s.offset)
    BY PageHolds
  <2> HIDE DEF end
  <2>2. end \in Nat /\ end <= Len(t.base) /\ s.offset < end /\ Len(t.page) = end - s.offset
    BY <1>1, <1>2, <1>5, <2>1
  <2>3. t.pc = "cards" /\ t.offset = end /\ t.offset - Len(t.page) = s.offset /\ Len(t.page) <= t.offset
    <3>1. t.page # <<>>
      BY <1>1, <1>2, <1>5, <2>1
    <3>2. t.offset = end
      BY <2>2
    <3> QED
      BY <1>1, <2>2, <3>1, <3>2
  <2>4. t.page = Part(t.base, s.offset, end)
    <3>1. Shifted(Ads, listed, t.base, 0, s.offset, end, s.offset, end)
      BY <1>2, <2>1, <2>2 DEF Shifted
    <3>2. Part(listed, s.offset, end) = Part(t.base, s.offset, end)
      BY <3>1, PageOfBase
    <3> QED
      BY <1>1, <2>1, <3>2
  <2>5. t.page = Part(t.base, t.offset - Len(t.page), t.offset)
    BY <2>3, <2>4
  <2>6. Lists(t.jobs, t.base, Wanted(t.q, t.base, t.offset - Len(t.page)))
    BY <1>3, <2>3
  <2> QED
    BY <1>3, <2>2, <2>3, <2>5, <2>6 DEF SelRead
<1> QED
  BY <1>2, <1>4, <1>5

LEMMA RequestSelTurn ==
  ASSUME PagedInv, NEW p \in Commands, RequestSel(p)
  PROVE  PagedInv'
<1> DEFINE s == procs[p]
           listed == boards[s.q.board]
           page == PageOf(listed, s.offset)
           total == IF s.total = Unset THEN Len(listed) ELSE s.total
           t == [s EXCEPT !.pc = IF page = <<>> THEN "check" ELSE "cards", !.page = page,
                          !.total = total, !.offset = s.offset + Len(page),
                          !.base = IF s.offset = 0 THEN listed ELSE s.base]
<1>1. /\ procs' = [procs EXCEPT ![p] = t] /\ UNCHANGED <<plan, boards, changes>>
      /\ s.pc = "request" /\ s.q.kind = "sel"
  BY DEF RequestSel, Answers, Asking, Listed, Base, site
<1>2. /\ SearchFields \subseteq DOMAIN s /\ s.todo \in Seq(Given) /\ s.q \in Given /\ SearchInv(s)
      /\ procs = [c \in Commands |-> procs[c]] /\ SiteTyped
  BY <1>1 DEF PagedInv, SearchesTyped, Searching
<1>3. PageTyped(s) /\ SelInv(s)
  BY <1>1, <1>2 DEF SearchInv, Paging, Searching
<1>4. listed \in Seq(Ads)
  BY <1>2, GivenSearch
<1>5. procs'[p] = t /\ Alone(p)
  BY <1>1, <1>2 DEF Alone
<1> HIDE DEF s, listed, total
<1>6. /\ Asks(s, t, listed) /\ t.offset = s.offset + Len(t.page) /\ t.total = total /\ t.todo = s.todo
      /\ t.page = page /\ SearchFields \subseteq DOMAIN t
  BY <1>1, <1>2 DEF Asks, SearchFields
<1> HIDE DEF t
<1>7. s.offset \in Nat /\ t.offset \in Nat /\ (t.pc = "cards" => t.offset > 0)
  <2>1. s.offset \in Nat
    BY <1>3 DEF PageTyped
  <2> DEFINE end == IF s.offset + PageSize < Len(listed) THEN s.offset + PageSize ELSE Len(listed)
  <2>2. /\ page \in Seq(Ads) /\ (page = <<>> <=> Len(listed) <= s.offset) /\ end \in Nat
        /\ (Len(listed) > s.offset => end > s.offset /\ Len(page) = end - s.offset)
    BY <1>4, <2>1, PageHolds
  <2> HIDE DEF end, page
  <2>3. Len(page) \in Nat /\ Len(listed) \in Nat
    BY <1>4, <2>2, LenProperties
  <2>4. t.pc = "cards" => Len(page) > 0
    BY <1>6, <2>1, <2>2, <2>3 DEF Asks
  <2> QED
    BY <1>6, <2>1, <2>3, <2>4
<1> HIDE DEF page
<1>8. /\ PageTyped(t) /\ Tracks(t, listed) /\ (s.offset = 0 => Unread(s))
      /\ t.base \in Seq(Ads) /\ Len(t.base) \in Nat
  <2>1. Asks(s, t, boards[s.q.board]) /\ t.offset \in Nat /\ (t.q.kind = "sel" /\ t.pc = "cards" => t.offset > 0)
    BY <1>6, <1>7 DEF listed
  <2> QED
    BY <1>2, <1>3, <2>1, AskTyped DEF listed
<1>9. SelInv(t)
  BY <1>3, <1>4, <1>6, <1>7, <1>8, AskSel DEF total
<1>10. SearchInv(t) /\ Keeps(t)
  BY <1>1, <1>2, <1>6, <1>8, <1>9 DEF SearchInv, Keeps, Asks
<1> QED
  BY <1>5, <1>10, PagedTurn

\* A search takes the first ad of its page, with the posting x when it is wanted.
Details(s, t, x) ==
  LET ad == Head(s.page)
  IN  /\ s.pc = "cards" /\ s.page # <<>> /\ x.id = ad.id /\ t.page = Tail(s.page)
      /\ t.jobs = IF SelRelevant(s.q, ad) THEN Append(s.jobs, x) ELSE s.jobs
      /\ t.pc = s.pc /\ t.q = s.q /\ t.base = s.base /\ t.offset = s.offset /\ t.grown = s.grown
      /\ t.shrunk = s.shrunk /\ t.total = s.total

LEMMA DetailsRead ==
  ASSUME NEW S, NEW s, NEW t, NEW x \in S, s.jobs \in Seq(S), Details(s, t, x), SelRead(s),
         s.base \in Seq(Ads), Len(s.base) \in Nat, s.page \in Seq(Ads), s.offset \in Nat
  PROVE  SelRead(t)
<1> DEFINE j == s.offset - Len(s.page)
           ad == s.base[j + 1]
<1>1. /\ t.pc = "cards" /\ s.pc = "cards" /\ s.page # <<>> /\ t.base = s.base /\ t.q = s.q
      /\ t.offset = s.offset /\ t.total = s.total /\ t.page = Tail(s.page) /\ x.id = Head(s.page).id
  BY DEF Details
<1>2. /\ s.offset <= Len(s.base) /\ s.total = Len(s.base) /\ Len(s.page) <= s.offset
      /\ s.page = Part(s.base, j, s.offset) /\ Lists(s.jobs, s.base, Wanted(s.q, s.base, j))
  BY <1>1 DEF SelRead
<1>3. Len(s.page) \in Nat /\ Len(s.page) > 0 /\ Len(t.page) = Len(s.page) - 1
  <2>1. Len(s.page) \in Nat /\ Len(Tail(s.page)) = Len(s.page) - 1 /\ Len(s.page) # 0
    BY <1>1, HeadTailProperties, EmptySeq, LenProperties
  <2> QED
    BY <1>1, <2>1
<1>4. j \in Nat /\ j < s.offset /\ t.offset - Len(t.page) = j + 1 /\ Len(t.page) <= t.offset
  BY <1>1, <1>2, <1>3
<1> HIDE DEF j
<1>5. Head(s.page) = ad /\ t.page = Part(s.base, j + 1, s.offset)
  BY <1>1, <1>2, <1>4, PartNext
<1>6. /\ Wanted(s.q, s.base, j) \in SUBSET (1..j)
      /\ ~SelRelevant(s.q, ad) => Wanted(s.q, s.base, j + 1) = Wanted(s.q, s.base, j)
      /\ SelRelevant(s.q, ad) => Wanted(s.q, s.base, j + 1) = Wanted(s.q, s.base, j) \cup {j + 1}
  BY <1>4, WantedNext
<1>7. Lists(t.jobs, s.base, Wanted(s.q, s.base, j + 1))
  <2>1. CASE ~SelRelevant(s.q, ad)
    BY <1>2, <1>5, <1>6, <2>1 DEF Details
  <2>2. CASE SelRelevant(s.q, ad)
    <3>1. t.jobs = Append(s.jobs, x)
      BY <1>5, <2>2 DEF Details
    <3>2. /\ Wanted(s.q, s.base, j) \in SUBSET Nat /\ (\A i \in Wanted(s.q, s.base, j) : i < j + 1)
          /\ j + 1 \in Nat /\ x.id = s.base[j + 1].id
      BY <1>1, <1>4, <1>5, <1>6
    <3>3. Lists(Append(s.jobs, x), s.base, Wanted(s.q, s.base, j) \cup {j + 1})
      BY <1>2, <3>2, OneMoreListed
    <3> QED
      BY <1>6, <2>2, <3>1, <3>3
  <2> QED
    BY <2>1, <2>2
<1>8. t.page = Part(t.base, t.offset - Len(t.page), t.offset)
  BY <1>1, <1>4, <1>5
<1>9. Lists(t.jobs, t.base, Wanted(t.q, t.base, t.offset - Len(t.page)))
  BY <1>1, <1>4, <1>7
<1> QED
  BY <1>1, <1>2, <1>4, <1>8, <1>9 DEF SelRead

LEMMA SelDetailTurn ==
  ASSUME PagedInv, NEW p \in Commands, SelDetail(p)
  PROVE  PagedInv'
<1> DEFINE s == procs[p]
           ad == Head(s.page)
           x == SelPosting(s.q, ad)
           jobs == IF SelRelevant(s.q, ad) THEN Append(s.jobs, x) ELSE s.jobs
           t == [s EXCEPT !.page = Tail(s.page), !.jobs = jobs]
<1>1. /\ procs' = [procs EXCEPT ![p] = t] /\ UNCHANGED <<plan, boards, changes>>
      /\ s.pc = "cards" /\ s.q.kind = "sel" /\ s.page # <<>>
  BY DEF SelDetail, site
<1>2. /\ SearchFields \subseteq DOMAIN s /\ s.todo \in Seq(Given) /\ s.q \in Given /\ SearchInv(s)
      /\ procs = [c \in Commands |-> procs[c]] /\ SiteTyped
  BY <1>1 DEF PagedInv, SearchesTyped, Searching
<1>3. PageTyped(s) /\ SelInv(s)
  BY <1>1, <1>2 DEF SearchInv, Paging, Searching
<1>4. procs'[p] = t /\ Alone(p)
  <2> HIDE DEF t
  <2> QED
    BY <1>1, <1>2 DEF Alone
<1>5. s.page \in Seq(Ads) /\ ad \in Ads /\ Tail(s.page) \in Seq(Ads)
  <2>1. s.page \in Seq(Ads)
    BY <1>3 DEF PageTyped
  <2> QED
    BY <1>1, <2>1, HeadTailProperties
<1>6. x \in Scrapings /\ x.id = ad.id
  <2>1. \A answered : SelPosting(s.q, ad).id = ad.id
    BY PostingIds
  <2> QED
    BY <1>2, <1>5, <2>1 DEF Scrapings
<1> HIDE DEF x
<1>7. /\ t.page = Tail(s.page) /\ t.jobs = jobs /\ t.pc = s.pc /\ t.q = s.q /\ t.base = s.base
      /\ t.offset = s.offset /\ t.grown = s.grown /\ t.shrunk = s.shrunk /\ t.total = s.total
      /\ t.todo = s.todo /\ t.limited = s.limited /\ t.seen = s.seen /\ SearchFields \subseteq DOMAIN t
  <2> HIDE DEF s, ad, jobs
  <2> QED
    BY <1>2 DEF SearchFields
<1> HIDE DEF t
<1>8. Details(s, t, x)
  BY <1>1, <1>6, <1>7 DEF Details
<1> HIDE DEF s, ad
<1>9. PageTyped(t)
  <2>1. t.jobs \in Seq(Scrapings)
    <3>1. s.jobs \in Seq(Scrapings)
      BY <1>3 DEF PageTyped
    <3>2. Append(s.jobs, x) \in Seq(Scrapings)
      BY <1>6, <3>1, AppendProperties
    <3>3. t.jobs \in {s.jobs, Append(s.jobs, x)}
      BY <1>7
    <3> QED
      BY <3>1, <3>2, <3>3
  <2>2. t.page \in Seq(Ads)
    BY <1>5, <1>7
  <2> HIDE DEF jobs
  <2> QED
    BY <1>1, <1>3, <1>7, <2>1, <2>2 DEF PageTyped, Tracks
<1>10. SelInv(t)
  <2> SUFFICES ASSUME ~t.shrunk, t.grown = 0 PROVE SelRead(t)
    BY DEF SelInv
  <2>1. SelRead(s)
    BY <1>3, <1>7 DEF SelInv
  <2>2. s.jobs \in Seq(Scrapings) /\ s.base \in Seq(Ads) /\ Len(s.base) \in Nat /\ s.offset \in Nat
    BY <1>3, LenProperties DEF PageTyped
  <2> QED
    BY <1>5, <1>6, <1>8, <2>1, <2>2, DetailsRead
<1>11. SearchInv(t) /\ Keeps(t)
  <2> HIDE DEF jobs
  <2> QED
    BY <1>1, <1>2, <1>7, <1>9, <1>10 DEF SearchInv, Keeps
<1> QED
  BY <1>4, <1>11, PagedTurn

LEMMA SelPageTurn ==
  ASSUME PagedInv, NEW p \in Commands, SelPage(p)
  PROVE  PagedInv'
<1> DEFINE s == procs[p]
           pc == IF s.offset >= s.total THEN "check" ELSE "request"
           t == [s EXCEPT !.pc = pc]
<1>1. /\ procs' = [procs EXCEPT ![p] = t] /\ UNCHANGED <<plan, boards, changes>>
      /\ s.pc = "cards" /\ s.q.kind = "sel" /\ s.page = <<>>
  BY DEF SelPage, site
<1>2. /\ SearchFields \subseteq DOMAIN s /\ s.todo \in Seq(Given) /\ s.q \in Given /\ SearchInv(s)
      /\ procs = [c \in Commands |-> procs[c]] /\ SiteTyped
  BY <1>1 DEF PagedInv, SearchesTyped, Searching
<1>3. PageTyped(s) /\ SelInv(s)
  BY <1>1, <1>2 DEF SearchInv, Paging, Searching
<1>4. procs'[p] = t /\ Alone(p)
  <2> HIDE DEF t
  <2> QED
    BY <1>1, <1>2 DEF Alone
<1>5. /\ t.page = s.page /\ t.jobs = s.jobs /\ t.pc = pc /\ t.q = s.q /\ t.base = s.base
      /\ t.offset = s.offset /\ t.grown = s.grown /\ t.shrunk = s.shrunk /\ t.total = s.total
      /\ t.todo = s.todo /\ SearchFields \subseteq DOMAIN t
  <2> HIDE DEF s, pc
  <2> QED
    BY <1>2 DEF SearchFields
<1> HIDE DEF t, s
<1>6. /\ s.offset \in Nat /\ s.offset > 0 /\ s.base # <<>> /\ s.base \in Seq(Ads) /\ Len(s.base) \in Nat
      /\ pc \in {"check", "request"}
  BY <1>1, <1>3, LenProperties DEF PageTyped
<1>7. PageTyped(t)
  BY <1>1, <1>3, <1>5, <1>6 DEF PageTyped, Tracks
<1>8. SelInv(t)
  <2> SUFFICES ASSUME ~t.shrunk, t.grown = 0 PROVE SelRead(t)
    BY DEF SelInv
  <2>1. SelRead(s)
    BY <1>3, <1>5 DEF SelInv
  <2>2. /\ s.offset <= Len(s.base) /\ s.total = Len(s.base)
        /\ Lists(s.jobs, s.base, Wanted(s.q, s.base, s.offset))
    <3>1. Len(s.page) = 0 /\ s.offset - 0 = s.offset
      BY <1>1, <1>6, EmptySeq
    <3>2. Lists(s.jobs, s.base, Wanted(s.q, s.base, s.offset - Len(s.page)))
      BY <1>1, <2>1 DEF SelRead
    <3> QED
      BY <1>1, <2>1, <3>1, <3>2 DEF SelRead
  <2>3. t.pc = "check" => s.offset = Len(s.base)
    BY <1>5, <1>6, <2>2
  <2>4. Lists(t.jobs, t.base, Wanted(t.q, t.base, t.offset))
    BY <1>5, <2>2
  <2> HIDE DEF pc
  <2> QED
    BY <1>5, <1>6, <2>2, <2>3, <2>4 DEF SelRead
<1>9. SearchInv(t) /\ Keeps(t)
  <2> HIDE DEF pc
  <2> QED
    BY <1>1, <1>2, <1>5, <1>6, <1>7, <1>8 DEF SearchInv, Keeps
<1> QED
  BY <1>4, <1>9, PagedTurn

-----------------------------------------------------------------------------
(* The theorems.                                                           *)

LEMMA PagedCommand ==
  ASSUME PagedInv, NEW p \in Commands, Command(p)
  PROVE  PagedInv'
<1>1. CASE LoadConfig(p) \/ LoadArguments(p)
  BY <1>1, LoadTurn
<1>2. CASE Skip(p) \/ Finish(p) \/ Check(p) \/ Close(p) \/ Kill(p)
  BY <1>2, QueueTurn
<1>3. CASE Begin(p)
  BY <1>3, BeginTurn
<1>4. CASE RequestWhole(p)
  BY <1>4, WholeTurn
<1>5. CASE RequestLinkedIn(p)
  BY <1>5, RequestLinkedInTurn
<1>6. CASE LimitLinkedIn(p)
  BY <1>6, LimitLinkedInTurn
<1>7. CASE LinkedInCard(p)
  BY <1>7, LinkedInCardTurn
<1>8. CASE LinkedInPage(p)
  BY <1>8, LinkedInPageTurn
<1>9. CASE RequestSel(p)
  BY <1>9, RequestSelTurn
<1>10. CASE SelDetail(p)
  BY <1>10, SelDetailTurn
<1>11. CASE SelPage(p)
  BY <1>11, SelPageTurn
<1>12. CASE \/ SelDetailGone(p) \/ BoardGone(p) \/ RequestFails(p)
            \/ RecordRead(p) \/ RecordTruncate(p) \/ RecordWrite(p)
  BY <1>12, RefusalTurn
<1>13. CASE Open(p)
  BY <1>13, OpenTurn
<1>14. CASE Flush(p)
  BY <1>14, PagedStill DEF Flush, site
<1> QED
  BY <1>1, <1>2, <1>3, <1>4, <1>5, <1>6, <1>7, <1>8, <1>9, <1>10, <1>11, <1>12, <1>13, <1>14
     DEF Command

LEMMA PagedNext ==
  PagedInv /\ [Next]_vars => PagedInv'
<1> SUFFICES ASSUME PagedInv, [Next]_vars PROVE PagedInv'
  OBVIOUS
<1>1. CASE \E p \in Commands : Command(p)
  BY <1>1, PagedCommand
<1>2. CASE Filter
  BY <1>2, PagedStill DEF Filter, FilterGlob, FilterRead, FilterLoaded, FilterRoute, site
<1>3. CASE World
  <2>1. CASE Tick
    BY <2>1, PagedStill DEF Tick
  <2>2. ASSUME NEW b \in DOMAIN plan.news, Publish(b) PROVE PagedInv'
    BY <2>2, PublishTurn
  <2>3. ASSUME NEW b \in DOMAIN plan.news, NEW i \in DOMAIN boards[b], Withdraw(b, i) PROVE PagedInv'
    BY <2>3, WithdrawTurn
  <2> QED
    BY <1>3, <2>1, <2>2, <2>3 DEF World
<1>4. CASE UNCHANGED vars
  BY <1>4, PagedStill DEF vars
<1> QED
  BY <1>1, <1>2, <1>3, <1>4 DEF Next

(* Whatever the boards, the searches and the budgets, and however the      *)
(* boards move, a search that reads page by page knows how much of the     *)
(* listing it began with it has (linkedin.py:92-146, sel.py:124-221).      *)
THEOREM PagedInvHolds == Spec => []PagedInv
<1>1. Init => PagedInv
  BY PagedInit
<1>2. PagedInv /\ [Next]_vars => PagedInv'
  BY PagedNext
<1> QED
  BY <1>1, <1>2, PTL DEF Spec

(* A scrape of a moving board brings home what the board held: LinkedIn's  *)
(* search no ad twice and, within the bounds PagedWhole names, the first   *)
(* max_results of the listing; Workday's all that are wanted of a board    *)
(* that stood still.                                                       *)
THEOREM PagedWholeHolds == Spec => []PagedWhole
<1>1. PagedInv => PagedWhole
  <2> SUFFICES ASSUME PagedInv, NEW p \in Commands, procs[p].pc = "check"
               PROVE  LET s == procs[p]  last == Len(s.base) IN
                      /\ s.q.kind = "linkedin" => \A i, k \in DOMAIN s.jobs : s.jobs[i].id = s.jobs[k].id => i = k
                      /\ s.q.kind = "linkedin" /\ ~s.limited /\ ~s.shrunk
                         /\ s.grown + Cardinality(Blanks(s.base)) < PageSize =>
                           \E n \in 0..last : /\ Lists(s.jobs, s.base, Offered(s.base, n))
                                              /\ Len(s.jobs) = s.q.max \/ (n = last /\ Len(s.jobs) < s.q.max)
                      /\ s.q.kind = "sel" /\ ~s.shrunk /\ s.grown = 0 =>
                           Lists(s.jobs, s.base, Wanted(s.q, s.base, last))
    BY DEF PagedWhole
  <2> DEFINE s == procs[p]
  <2>1. s.pc = "check" /\ SearchInv(s)
    BY DEF PagedInv
  <2> HIDE DEF s
  <2>2. CASE s.q.kind = "linkedin"
    <3>1. LinkedInInv(s)
      BY <2>1, <2>2 DEF SearchInv, Paging, Searching
    <3>2. \A i, k \in DOMAIN s.jobs : s.jobs[i].id = s.jobs[k].id => i = k
      BY <3>1 DEF LinkedInInv, OnceEach
    <3>3. ASSUME ~s.limited, ~s.shrunk, s.grown + Cardinality(Blanks(s.base)) < PageSize
          PROVE  \E n \in 0..Len(s.base) :
                   /\ Lists(s.jobs, s.base, Offered(s.base, n))
                   /\ Len(s.jobs) = s.q.max \/ (n = Len(s.base) /\ Len(s.jobs) < s.q.max)
      <4>1. LinkedInRead(s)
        BY <3>1, <3>3 DEF LinkedInInv, Held
      <4>2. PICK n \in 0..Len(s.base) :
              Got(s, n) /\ (Len(s.jobs) = s.q.max \/ (n = Len(s.base) /\ Len(s.jobs) < s.q.max))
        BY <2>1, <3>3, <4>1 DEF LinkedInRead
      <4> QED
        BY <4>2 DEF Got
    <3> QED
      BY <2>2, <3>2, <3>3 DEF s
  <2>3. CASE s.q.kind = "sel"
    <3>1. SelInv(s)
      BY <2>1, <2>3 DEF SearchInv, Paging, Searching
    <3>2. ~s.shrunk /\ s.grown = 0 => Lists(s.jobs, s.base, Wanted(s.q, s.base, Len(s.base)))
      BY <2>1, <3>1 DEF SelInv, SelRead
    <3> QED
      BY <2>3, <3>2 DEF s
  <2> QED
    BY <2>2, <2>3 DEF s
<1> QED
  BY <1>1, PagedInvHolds, PTL
=============================================================================
