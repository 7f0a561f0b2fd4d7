---------------------------- MODULE UpcomingSteps ----------------------------
(***************************************************************************)
(* The nudges of one user (src/src/api/upcoming_steps.py and               *)
(* routes/upcoming_steps.py): four rules over the transitions and          *)
(* follow-ups of all applications, and the endpoint that reads them, while *)
(* the user moves, follows up, edits and deletes applications.             *)
(*                                                                         *)
(* A tick of the clock is a request or a wait; thresholds are ticks.  The  *)
(* endpoint reads the follow-ups on a connection it has given back: on the *)
(* pool's connections a transaction may therefore be open that the next    *)
(* request on that connection runs in, with its now().  Requests are       *)
(* single transactions here; how they overlap is the subject of            *)
(* Applications.                                                           *)
(***************************************************************************)
EXTENDS Naturals, FiniteSetsExt

CONSTANTS Jobs,        \* the postings the user may apply for
          Horizon,     \* bound on the clock
          Conns,       \* the connections of the pool
          Default,     \* [stale, interview, inactivity, application -> ticks]
          Nothing      \* no row, no transaction, no status in the metadata

Stages == {"to_apply", "applied", "screening", "interview", "offer"}

ASSUME DefaultsOK ==
    /\ Default \in [{"stale", "interview", "inactivity", "application"} -> Nat \ {0}]
    /\ Horizon \in Nat
    /\ Nothing \notin Nat /\ Nothing \notin Stages

VARIABLES
    status,        \* app.user_applications: the status, Nothing without a row
    transitions,   \* app.application_events of kind status_change
    followups,     \* ... of kind event, tagged follow_up or contact
    configured,    \* the user has a row in app.user_search_configs
    clock,
    open,          \* per connection: begin of a transaction left open, or Nothing
    answer,        \* of the last GET, until something else happens
    entered,       \* history: tick at which the status became what it is
    submitted,     \* history: tick at which it was last set to applied
    misdated       \* history: a transition misdated or edited by hand

data == <<status, transitions, followups, configured>>
history == <<entered, submitted, misdated>>
upcomingVars == <<data, clock, open, answer, history>>

Ticks == 0..Horizon

Kinds == {"stale_to_apply", "post_interview", "inactivity", "post_application"}
Alerts == [kind : Kinds, jobs : SUBSET Jobs, days : Ticks]
Unasked == [how |-> "unasked", alerts |-> {}]

UpcomingTypeOK ==
    /\ status \in [Jobs -> Stages \cup {Nothing}]
    /\ transitions \subseteq [job : Jobs, to : Stages \cup {Nothing}, at : Ticks]
    /\ followups \subseteq [job : Jobs, at : Ticks]
    /\ configured \in BOOLEAN
    /\ clock \in Ticks
    /\ open \in [Conns -> Ticks \cup {Nothing}]
    /\ answer \in [how : {"unasked", "ok", "error"}, alerts : SUBSET Alerts]
    /\ entered \in [Jobs -> Ticks]
    /\ submitted \in [Jobs -> Ticks \cup {Nothing}]
    /\ misdated \in BOOLEAN

UpcomingInit ==
    /\ status = [j \in Jobs |-> Nothing]
    /\ transitions = {} /\ followups = {}
    /\ configured \in BOOLEAN
    /\ clock = 0
    /\ open = [c \in Conns |-> Nothing]
    /\ answer = Unasked
    /\ entered = [j \in Jobs |-> 0]
    /\ submitted = [j \in Jobs |-> Nothing]
    /\ misdated = FALSE

-----------------------------------------------------------------------------
(* The rules, at a time and over the rows the endpoint has read.  A        *)
(* deadline is compared as at + threshold < time, which no time is too     *)
(* early for.                                                              *)

Of(j, rows) == {r \in rows : r.job = j}
Told(rows) == {r.job : r \in rows}
Newest(rows) == CHOOSE r \in rows : \A q \in rows : q.at <= r.at

\* Current status = to_status of the last event.
Current(j) == Newest(Of(j, transitions)).to
StageEntry(j) == Newest(Of(j, transitions)).at
Entries == [j \in Told(transitions) |-> StageEntry(j)]

\* A batch of jobs in one of the stages, quiet since before the deadline.
Batch(kind, stages, dates, time, threshold) ==
    LET late == {j \in Told(transitions) :
                    Current(j) \in stages /\ dates[j] + threshold < time} IN
    IF late = {} THEN {}
    ELSE {[kind |-> kind, jobs |-> late,
           days |-> Max({time - dates[j] : j \in late})]}

StaleToApply(time) ==
    Batch("stale_to_apply", {"to_apply"}, Entries, time, Default.stale)

PostInterview(time) ==
    Batch("post_interview", {"interview"}, Entries, time, Default.interview)

\* The follow-up, if there is one, whenever it was.
TouchpointFollowup(j) ==
    LET f == {e.at : e \in Of(j, followups)} IN
    IF f = {} THEN StageEntry(j) ELSE Max(f)

\* The later of the stage entry and the last follow-up.
LastTouchpoint(j) ==
    Max({StageEntry(j)} \cup {e.at : e \in Of(j, followups)})

PostApplication(time) ==
    Batch("post_application", {"applied", "screening"},
          [j \in Told(transitions) |-> LastTouchpoint(j)], time, Default.application)

\* The applications that are in applied now.
AppliedNow == {StageEntry(j) : j \in {k \in Told(transitions) : Current(k) = "applied"}}

\* Every application that was ever made, whatever became of it.
AppliedEver == {e.at : e \in {f \in transitions : f.to = "applied"}}

Inactivity(time) ==
    IF AppliedEver # {} /\ Max(AppliedEver) + Default.inactivity < time
    THEN {[kind |-> "inactivity", jobs |-> {}, days |-> time - Max(AppliedEver)]}
    ELSE {}

Alerted(time) ==
    StaleToApply(time) \cup PostInterview(time) \cup Inactivity(time) \cup PostApplication(time)

\* A transition whose metadata names no status.
Malformed == \E e \in transitions : e.to = Nothing

-----------------------------------------------------------------------------
\* The requests

Tick == clock < Horizon /\ clock' = clock + 1

\* now() in a transaction on connection c, which ends with the request.
Dated(c) == IF open[c] = Nothing THEN clock + 1 ELSE open[c]
Committed(c) == open' = [open EXCEPT ![c] = Nothing]
Unanswered == answer' = Unasked

\* create_application or update_application with another status.
Move(j, s, c) ==
    /\ Tick /\ Committed(c) /\ Unanswered
    /\ status[j] # s
    /\ status' = [status EXCEPT ![j] = s]
    /\ transitions' = transitions \cup {[job |-> j, to |-> s, at |-> Dated(c)]}
    /\ entered' = [entered EXCEPT ![j] = clock']
    /\ submitted' = IF s = "applied" THEN [submitted EXCEPT ![j] = clock']
                                     ELSE submitted
    /\ misdated' = (misdated \/ Dated(c) # clock')
    /\ UNCHANGED <<followups, configured>>

\* create_event tagged follow_up or contact, of now or backdated.
FollowUp(j, c) ==
    /\ Tick /\ Committed(c) /\ Unanswered
    /\ status[j] # Nothing
    /\ \E at \in {Dated(c)} \cup 0..clock :
        followups' = followups \cup {[job |-> j, at |-> at]}
    /\ UNCHANGED <<status, transitions, configured, history>>

\* update_event with other metadata, which nothing compares with a transition's.
Edit(c) ==
    /\ Tick /\ Committed(c) /\ Unanswered
    /\ \E e \in transitions :
        transitions' = (transitions \ {e}) \cup {[e EXCEPT !.to = Nothing]}
    /\ misdated' = TRUE
    /\ UNCHANGED <<status, followups, configured, entered, submitted>>

\* delete_application, which takes its events with it.
DeleteApplication(j, c) ==
    /\ Tick /\ Committed(c) /\ Unanswered
    /\ status[j] # Nothing
    /\ status' = [status EXCEPT ![j] = Nothing]
    /\ transitions' = transitions \ Of(j, transitions)
    /\ followups' = followups \ Of(j, followups)
    /\ submitted' = [submitted EXCEPT ![j] = Nothing]
    /\ UNCHANGED <<configured, entered, misdated>>

\* put_search: the row every account gets with its first search settings.
Configure(c) ==
    /\ Tick /\ Committed(c) /\ Unanswered
    /\ ~configured /\ configured' = TRUE
    /\ UNCHANGED <<status, transitions, followups, history>>

\* get_upcoming_steps.  With a settings row it asks that row for a column it has
\* not selected.  Without one, the query for the follow-ups begins a transaction
\* on the connection it has given back, unless another request has it by then and
\* ends that transaction with its own.
GetUpcomingSteps(c) ==
    /\ Tick
    /\ IF configured
       THEN /\ answer' = [how |-> "error", alerts |-> {}]
            /\ Committed(c)
       ELSE /\ \E left \in {clock', Nothing} : open' = [open EXCEPT ![c] = left]
            /\ answer' = IF Malformed
                         THEN [how |-> "error", alerts |-> {}]
                         ELSE [how |-> "ok", alerts |-> Alerted(clock')]
    /\ UNCHANGED <<data, history>>

Wait ==
    /\ Tick /\ Unanswered
    /\ UNCHANGED <<data, open, history>>

UpcomingNext ==
    \/ Wait
    \/ \E c \in Conns :
        \/ Edit(c) \/ Configure(c) \/ GetUpcomingSteps(c)
        \/ \E j \in Jobs :
            FollowUp(j, c) \/ DeleteApplication(j, c) \/ \E s \in Stages : Move(j, s, c)

UpcomingSpec == UpcomingInit /\ [][UpcomingNext]_upcomingVars

-----------------------------------------------------------------------------
\* Properties

Answered == answer.how = "ok"
Given(kind) == {a \in answer.alerts : a.kind = kind}

\* The application has been where it is, without a follow-up, for how long.
Quiet(j) ==
    clock - Max({entered[j]} \cup
        IF status[j] \in {"applied", "screening"}
        THEN {e.at : e \in Of(j, followups)} ELSE {})

Due(stages, threshold) == {j \in Jobs : status[j] \in stages /\ Quiet(j) > threshold}

\* "Derives time-based alerts over the current user's application events"
\* (routes/upcoming_steps.py:3): as long as every transition carries its own time,
\* an answer names exactly the applications that have been in a stage, or without
\* a follow-up, for longer than its threshold, and the longest of those times.
NudgesDue ==
    Answered /\ ~misdated =>
        \A rule \in {<<"stale_to_apply", {"to_apply"}, Default.stale>>,
                     <<"post_interview", {"interview"}, Default.interview>>,
                     <<"post_application", {"applied", "screening"},
                       Default.application>>} :
            LET due == Due(rule[2], rule[3]) IN
            IF due = {} THEN Given(rule[1]) = {}
            ELSE \E a \in Given(rule[1]) :
                    a.jobs = due /\ a.days = Max({Quiet(j) : j \in due})

\* "you applied before and went quiet" (upcoming_steps.py:222): the inactivity
\* alert comes when the user has submitted applications, and the newest of those
\* they kept, at whatever stage it is today, is older than the window.
QuietTold ==
    Answered /\ ~misdated =>
        LET made == {submitted[j] : j \in Jobs} \ {Nothing} IN
        Given("inactivity") # {} <=> made # {} /\ Max(made) + Default.inactivity < clock
=============================================================================
