---------------------------- MODULE BatchScoring ----------------------------
(***************************************************************************)
(* `overnight --batch`: _score_run_batch of src/src/pipeline/scoring.py     *)
(* drives, for one run, the submissions of                                 *)
(* src/src/agents/skills_fit/batch.py.  Each submission owns a RunTracker   *)
(* that submit enters and that collect or abort must exit exactly once;    *)
(* one user's failure must not touch another user; an operator's signal    *)
(* may strike between any two steps.                                       *)
(*                                                                         *)
(* The gate's verdict, the batch service and the exceptions of I/O are     *)
(* nondeterministic.  A user stands for the submission made for it.        *)
(***************************************************************************)
EXTENDS Naturals, Sequences

CONSTANTS UserRows,   \* the users of the run, in the order of the SELECT
          Signals,    \* how many operator signals may arrive
          Faults      \* which steps may raise, a subset of FaultKinds

FaultKinds == {"gate", "submit", "poll", "collect", "telemetry", "stamp", "record"}

Users == {UserRows[k] : k \in 1..Len(UserRows)}

ASSUME ScoringConstants ==
    /\ UserRows \in Seq(Users)
    /\ \A k, l \in 1..Len(UserRows) : UserRows[k] = UserRows[l] => k = l
    /\ Signals \in Nat
    /\ Faults \subseteq FaultKinds

VARIABLES
    phase,      \* where _score_run_batch is
    step,       \* where it is inside the body of the current loop
    i,          \* the loop index, into UserRows or into pending
    pending,    \* users with a registered submission, in order
    open,       \* open_submissions
    polled,     \* terminal batches poll_all_until_done has retrieved
    batches,    \* the same, once it has returned
    aborted,    \* submissions the polling failure aborted
    drained,    \* submissions the BaseException handler has been through
    signals,    \* operator signals so far
    telemetryDown, \* _finalize_telemetry raises: it reads the pricing table
    tracker,    \* RunTracker: "none", "open", "closing" (_closed set), "exited"
    record,     \* run records the trackers have written, "ok" or "failed"
    batch,      \* the service's batch: "none" for a locally served submission
    out,        \* scored.jsonl
    verdicts,   \* the per_user entries of the summary
    blamed      \* users a step of their own has failed

loopVars == <<phase, step, i>>
subVars == <<pending, open, polled, batches, aborted, drained, signals,
           telemetryDown>>
userVars == <<tracker, record, batch, out, verdicts, blamed>>
vars == <<loopVars, subVars, userVars>>

BatchStatuses == {"none", "running", "completed", "failed", "expired", "cancelled"}

TypeOK ==
    /\ phase \in {"submit", "poll", "abort", "collect", "drain", "done", "raised"}
    /\ step \in {"top", "entered", "held", "close", "exit", "pop",
                 "stamp", "stamping", "abort"}
    /\ i \in 1..(Len(UserRows) + 1)
    /\ pending \in Seq(Users)
    /\ open \subseteq Users /\ polled \subseteq Users /\ batches \subseteq Users
    /\ aborted \subseteq Users /\ drained \subseteq Users /\ blamed \subseteq Users
    /\ signals \in 0..Signals /\ telemetryDown \in BOOLEAN
    /\ tracker \in [Users -> {"none", "open", "closing", "exited"}]
    /\ record \in [Users -> Seq({"ok", "failed"})]
    /\ batch \in [Users -> BatchStatuses]
    /\ out \in [Users -> {"none", "written", "stamping", "stamped"}]
    /\ verdicts \in [Users -> Seq({"scored", "skipped", "failed"})]

Init ==
    /\ phase = "submit" /\ step = "top" /\ i = 1
    /\ pending = <<>>
    /\ open = {} /\ polled = {} /\ batches = {} /\ aborted = {} /\ drained = {}
    /\ signals = 0
    /\ telemetryDown \in {FALSE, "telemetry" \in Faults}
    /\ tracker = [u \in Users |-> "none"]
    /\ record = [u \in Users |-> <<>>]
    /\ batch = [u \in Users |-> "none"]
    /\ out = [u \in Users |-> "none"]
    /\ verdicts = [u \in Users |-> <<>>]
    /\ blamed = {}

-----------------------------------------------------------------------------
\* The tracker

Verdict(u, v) == verdicts' = [verdicts EXCEPT ![u] = Append(@, v)]
Blame(u) == blamed' = blamed \cup {u}

\* _close_tracker up to `self._closed = True`.
SetClosed(u) == tracker' = [tracker EXCEPT ![u] = "closing"]

\* run.__exit__: the tracker writes its run record; a write that fails is logged
\* and the tracker is left without a record.
ExitTracker(u, r) ==
    /\ tracker' = [tracker EXCEPT ![u] = "exited"]
    /\ \/ record' = [record EXCEPT ![u] = Append(@, r)]
       \/ "record" \in Faults /\ UNCHANGED record

\* _safe_abort.  A tracker already closed makes abort raise, and a
\* _finalize_telemetry that raises leaves the tracker open; both are logged.
SafeAbort(u) ==
    IF tracker[u] # "open" \/ telemetryDown
    THEN UNCHANGED <<tracker, record>>
    ELSE ExitTracker(u, "failed")

-----------------------------------------------------------------------------
\* Phase 1: gate and submit

Row == UserRows[i]

InSubmit(s) == phase = "submit" /\ step = s /\ i <= Len(UserRows)

NextRow == step' = "top" /\ i' = i + 1 /\ UNCHANGED phase

\* _gate_user returns None.
GateSkips ==
    /\ InSubmit("top")
    /\ Verdict(Row, "skipped")
    /\ NextRow
    /\ UNCHANGED <<subVars, tracker, record, batch, out, blamed>>

\* ... or raises: malformed policies, no materialized profile.
GateRaises ==
    /\ InSubmit("top")
    /\ "gate" \in Faults
    /\ Verdict(Row, "failed") /\ Blame(Row)
    /\ NextRow
    /\ UNCHANGED <<subVars, tracker, record, batch, out>>

\* submit_skills_fit_batch enters its tracker.
SubmitEnters ==
    /\ InSubmit("top")
    /\ tracker' = [tracker EXCEPT ![Row] = "open"]
    /\ step' = "entered"
    /\ UNCHANGED <<phase, i, subVars, record, batch, out, verdicts, blamed>>

\* It raises inside its try block, which exits the tracker.
SubmitRaises ==
    /\ InSubmit("entered")
    /\ "submit" \in Faults
    /\ ExitTracker(Row, "failed")
    /\ Verdict(Row, "failed") /\ Blame(Row)
    /\ NextRow
    /\ UNCHANGED <<subVars, batch, out>>

\* It is past its try block: either nothing was left for the service or a
\* batch has been created.  The caller does not know the submission yet.
SubmitReturns ==
    /\ InSubmit("entered")
    /\ \E b \in {"none", "running"} : batch' = [batch EXCEPT ![Row] = b]
    /\ step' = "held"
    /\ UNCHANGED <<phase, i, subVars, tracker, record, out, verdicts, blamed>>

\* pending.append, then open_submissions[id(submission)] = submission.
Register ==
    /\ InSubmit("held")
    /\ pending' = Append(pending, Row)
    /\ open' = open \cup {Row}
    /\ NextRow
    /\ UNCHANGED <<polled, batches, aborted, drained, signals, telemetryDown, userVars>>

SubmitDone ==
    /\ phase = "submit" /\ step = "top" /\ i > Len(UserRows)
    /\ phase' = "poll"
    /\ UNCHANGED <<step, i, subVars, userVars>>

-----------------------------------------------------------------------------
\* Phase 2: poll

Pending == {pending[k] : k \in 1..Len(pending)}
ToPoll == {u \in Pending : batch[u] # "none"}

\* TERMINAL_STATUSES without "expired".
TerminalNeverExpires == {"completed", "failed", "cancelled"}

TERMINAL_STATUSES == {"completed", "failed", "expired", "cancelled"}

\* The service ends a batch; by its 24 h window every batch is ended.
BatchEnds(u) ==
    /\ batch[u] = "running"
    /\ \E s \in BatchStatuses \ {"none", "running"} : batch' = [batch EXCEPT ![u] = s]
    /\ UNCHANGED <<loopVars, subVars, tracker, record, out, verdicts, blamed>>

\* One retrieve that finds a terminal batch; a tick that finds none is a stutter.
PollRetrieves ==
    /\ phase = "poll"
    /\ \E u \in ToPoll \ polled :
        /\ batch[u] \in TERMINAL_STATUSES
        /\ polled' = polled \cup {u}
    /\ UNCHANGED <<loopVars, pending, open, batches, aborted, drained, signals, telemetryDown, userVars>>

\* The collect loop goes on from where the submit loop's index stopped.
PollReturnsMidway ==
    /\ phase = "poll"
    /\ ToPoll \subseteq polled
    /\ batches' = polled
    /\ phase' = "collect" /\ UNCHANGED <<step, i>>
    /\ UNCHANGED <<pending, open, polled, aborted, drained, signals,
                   telemetryDown, userVars>>

PollReturns ==
    /\ phase = "poll"
    /\ ToPoll \subseteq polled
    /\ batches' = polled
    /\ phase' = "collect" /\ step' = "top" /\ i' = 1
    /\ UNCHANGED <<pending, open, polled, aborted, drained, signals,
                   telemetryDown, userVars>>

\* A retrieve raises: what was polled is lost with the exception.
PollRaises ==
    /\ phase = "poll"
    /\ "poll" \in Faults
    /\ ToPoll # {}
    /\ phase' = "abort" /\ step' = "top" /\ i' = 1
    /\ UNCHANGED <<subVars, userVars>>

\* The whole of pending is failed, locally served submissions included.
AbortAll ==
    /\ phase = "abort" /\ i <= Len(pending)
    /\ LET u == pending[i] IN
        /\ SafeAbort(u)
        /\ open' = open \ {u}
        /\ aborted' = aborted \cup {u}
        /\ Verdict(u, "failed")
    /\ i' = i + 1
    /\ UNCHANGED <<phase, step, pending, polled, batches, drained, signals,
                   telemetryDown, batch, out, blamed>>

\* Each polled submission is aborted and its user failed.
AbortPolled ==
    /\ phase = "abort" /\ i <= Len(pending)
    /\ LET u == pending[i] IN
        IF u \in ToPoll
        THEN /\ SafeAbort(u)
             /\ open' = open \ {u}
             /\ aborted' = aborted \cup {u}
             /\ Verdict(u, "failed")
        ELSE UNCHANGED <<tracker, record, open, aborted, verdicts>>
    /\ i' = i + 1
    /\ UNCHANGED <<phase, step, pending, polled, batches, drained, signals,
                   telemetryDown, batch, out, blamed>>

AbortPolledDone ==
    /\ phase = "abort" /\ i > Len(pending)
    /\ phase' = "collect" /\ step' = "top" /\ i' = 1
    /\ UNCHANGED <<subVars, userVars>>

-----------------------------------------------------------------------------
\* Phase 3: collect

InCollect(s) == phase = "collect" /\ step = s /\ i <= Len(pending)

Sub == pending[i]

NextSub == step' = "top" /\ i' = i + 1 /\ UNCHANGED phase
ToStep(s) == step' = s /\ UNCHANGED <<phase, i>>

\* What collect_skills_fit_batch requires of the batch it is handed.
Collectable(u) == batch[u] = "none" \/ (u \in batches /\ batch[u] = "completed")

CollectSkips ==
    /\ InCollect("top")
    /\ Sub \in aborted
    /\ NextSub
    /\ UNCHANGED <<subVars, userVars>>

\* collect raises before it has written its output.
CollectRaises ==
    /\ InCollect("top")
    /\ Sub \notin aborted
    /\ IF Collectable(Sub)
       THEN "collect" \in Faults /\ Blame(Sub)
       ELSE UNCHANGED blamed
    /\ ToStep("abort")
    /\ UNCHANGED <<subVars, tracker, record, batch, out, verdicts>>

\* ... or writes scored.jsonl.
CollectWrites ==
    /\ InCollect("top")
    /\ Sub \notin aborted
    /\ Collectable(Sub)
    /\ out' = [out EXCEPT ![Sub] = "written"]
    /\ ToStep("close")
    /\ UNCHANGED <<subVars, tracker, record, batch, verdicts, blamed>>

\* _finalize_telemetry raises, the tracker still open.
TelemetryRaises ==
    /\ InCollect("close")
    /\ telemetryDown
    /\ Blame(Sub)
    /\ ToStep("abort")
    /\ UNCHANGED <<subVars, tracker, record, batch, out, verdicts>>

CollectSetsClosed ==
    /\ InCollect("close")
    /\ ~telemetryDown
    /\ SetClosed(Sub)
    /\ ToStep("exit")
    /\ UNCHANGED <<subVars, record, batch, out, verdicts, blamed>>

CollectExits ==
    /\ InCollect("exit")
    /\ ExitTracker(Sub, "ok")
    /\ ToStep("pop")
    /\ UNCHANGED <<subVars, batch, out, verdicts, blamed>>

\* open_submissions.pop: collect closed it.
CollectPops ==
    /\ InCollect("pop")
    /\ open' = open \ {Sub}
    /\ ToStep("stamp")
    /\ UNCHANGED <<pending, polled, batches, aborted, drained, signals, telemetryDown, userVars>>

\* A handler that forgets the abort.
CollectPopsOnly ==
    /\ InCollect("abort")
    /\ open' = open \ {Sub}
    /\ Verdict(Sub, "failed")
    /\ NextSub
    /\ UNCHANGED <<pending, polled, batches, aborted, drained, signals,
                   telemetryDown, tracker, record, batch, out, blamed>>

\* collect raised: abort, pop, and the user has failed.
CollectAborts ==
    /\ InCollect("abort")
    /\ SafeAbort(Sub)
    /\ open' = open \ {Sub}
    /\ Verdict(Sub, "failed")
    /\ NextSub
    /\ UNCHANGED <<pending, polled, batches, aborted, drained, signals,
                   telemetryDown, batch, out, blamed>>

\* _stamp_user_email rewrites the file in place.
StampBegins ==
    /\ InCollect("stamp")
    /\ out' = [out EXCEPT ![Sub] = "stamping"]
    /\ ToStep("stamping")
    /\ UNCHANGED <<subVars, tracker, record, batch, verdicts, blamed>>

StampEnds ==
    /\ InCollect("stamping")
    /\ out' = [out EXCEPT ![Sub] = "stamped"]
    /\ Verdict(Sub, "scored")
    /\ NextSub
    /\ UNCHANGED <<subVars, tracker, record, batch, blamed>>

\* A handler that sends every failure of the loop body through abort: the
\* tracker collect has closed is closed again, its record written twice.
StampRaisesAborts ==
    /\ InCollect("stamp") \/ InCollect("stamping")
    /\ "stamp" \in Faults
    /\ ExitTracker(Sub, "failed")
    /\ Verdict(Sub, "failed") /\ Blame(Sub)
    /\ NextSub
    /\ UNCHANGED <<subVars, batch, out>>

\* The stamp raises: the user has failed, the tracker is closed already.
StampRaises ==
    /\ InCollect("stamp") \/ InCollect("stamping")
    /\ "stamp" \in Faults
    /\ Verdict(Sub, "failed") /\ Blame(Sub)
    /\ NextSub
    /\ UNCHANGED <<subVars, tracker, record, batch, out>>

CollectDone ==
    /\ phase = "collect" /\ i > Len(pending)
    /\ phase' = "done"
    /\ UNCHANGED <<step, i, subVars, userVars>>

-----------------------------------------------------------------------------
\* Operator signals

\* The submission an abort may be in the middle of.
AbortInFlight(u) ==
    \/ phase = "abort" /\ i <= Len(pending) /\ u = pending[i] /\ u \in ToPoll
    \/ InCollect("abort") /\ u = Sub
    \/ phase = "drain" /\ u \in open \ drained

\* A signal inside submit's try block makes submit exit its tracker; one inside
\* an abort may fall between `_closed = True` and the tracker's exit.
SignalOutcome ==
    \/ IF InSubmit("entered") THEN ExitTracker(Row, "failed")
                              ELSE UNCHANGED <<tracker, record>>
    \/ \E u \in Users :
        /\ AbortInFlight(u) /\ tracker[u] = "open"
        /\ SetClosed(u)
        /\ UNCHANGED record

\* _OperatorInterrupt passes every `except Exception`; the outer handler aborts
\* what open_submissions holds.
Signal ==
    /\ signals < Signals
    /\ phase \in {"submit", "poll", "abort", "collect"}
    /\ SignalOutcome
    /\ phase' = "drain"
    /\ signals' = signals + 1
    /\ UNCHANGED <<step, i, pending, open, polled, batches, aborted, drained,
                   telemetryDown, batch, out, verdicts, blamed>>

\* A handler that stops after the first open submission.
DrainFirstOnly ==
    /\ phase = "drain"
    /\ drained = {}
    /\ \E u \in open : SafeAbort(u) /\ drained' = open
    /\ UNCHANGED <<loopVars, pending, open, polled, batches, aborted, signals,
                   telemetryDown, batch, out, verdicts, blamed>>

\* One _safe_abort of the BaseException handler.
Drain ==
    /\ phase = "drain"
    /\ \E u \in open \ drained : SafeAbort(u) /\ drained' = drained \cup {u}
    /\ UNCHANGED <<loopVars, pending, open, polled, batches, aborted, signals,
                   telemetryDown, batch, out, verdicts, blamed>>

Reraise ==
    /\ phase = "drain"
    /\ open \subseteq drained
    /\ phase' = "raised"
    /\ UNCHANGED <<step, i, subVars, userVars>>

\* A second signal ends the handler itself: _safe_abort catches Exception only.
SignalAgain ==
    /\ phase = "drain"
    /\ signals < Signals
    /\ SignalOutcome
    /\ phase' = "raised"
    /\ signals' = signals + 1
    /\ UNCHANGED <<step, i, pending, open, polled, batches, aborted, drained,
                   telemetryDown, batch, out, verdicts, blamed>>

-----------------------------------------------------------------------------
\* The steps the code takes by itself: each of them always ends.
Work ==
    \/ GateSkips \/ SubmitEnters \/ SubmitReturns \/ Register \/ SubmitDone
    \/ PollRetrieves \/ PollReturns
    \/ AbortPolled \/ AbortPolledDone
    \/ CollectSkips \/ CollectRaises \/ CollectWrites \/ TelemetryRaises
    \/ CollectSetsClosed \/ CollectExits \/ CollectPops \/ CollectAborts
    \/ StampBegins \/ StampEnds \/ CollectDone
    \/ Drain \/ Reraise

\* Exceptions that may come instead; nothing has to raise.
Raises == GateRaises \/ SubmitRaises \/ PollRaises \/ StampRaises

Service == \E u \in Users : BatchEnds(u)

Next == Work \/ Raises \/ Signal \/ SignalAgain \/ Service

Spec == Init /\ [][Next]_vars

\* The process runs, and the service ends every batch within its window; nothing
\* has to raise and nobody has to send a signal.
FairSpec == Spec /\ WF_vars(Work) /\ \A u \in Users : WF_vars(BatchEnds(u))

-----------------------------------------------------------------------------
\* Properties

\* No tracker writes two run records, whichever of collect, abort and the
\* interrupt handler get to it: the _closed flag of _close_tracker.
RecordedOnce == \A u \in Users : Len(record[u]) <= 1

\* When _score_run_batch returns, the summary has exactly one entry per user,
\* and the users it calls scored are those with a complete, stamped file and a
\* run record of success, if that could be written.
SummaryTrue ==
    phase = "done" => \A u \in Users :
        /\ Len(verdicts[u]) = 1
        /\ verdicts[u] = <<"scored">> <=> out[u] = "stamped"
        /\ verdicts[u] = <<"scored">> => record[u] \in {<<>>, <<"ok">>}
        /\ verdicts[u] = <<"skipped">> => tracker[u] = "none"

\* Per-user isolation (spec section 7): a user fails for a step of its own, for
\* its own batch, or for the polling it depended on; one served locally
\* survives the death of the polling.
FailureIsolated ==
    phase = "done" => \A u \in Users : verdicts[u] = <<"failed">> =>
        \/ u \in blamed
        \/ u \in aborted /\ batch[u] # "none"
        \/ batch[u] \in {"failed", "expired", "cancelled"}

\* Without a signal every tracker that was entered has been exited when
\* _score_run_batch returns, on every combination of failures.
TrackersExited ==
    phase = "done" /\ ~telemetryDown =>
        \A u \in Users : tracker[u] \in {"none", "exited"}

\* After one signal no registered submission is left with a tracker nobody has
\* tried to close.
DrainReachesRegistered ==
    phase = "raised" /\ signals = 1 /\ ~telemetryDown =>
        \A u \in open : tracker[u] # "open"

\* The phase ends: polling waits for every batch and no batch for ever.
ScoringEnds == phase = "submit" ~> phase \in {"done", "raised"}

-----------------------------------------------------------------------------
\* A promise the code does not keep, with the README's account of how.
\* No run checks it.

\* "never leaks a tracker -- every submission still ends in exactly one collect
\* or abort" (scoring.py:697-698), interrupts included.
NoTrackerLeaks ==
    phase \in {"done", "raised"} /\ ~telemetryDown =>
        \A u \in Users : tracker[u] \in {"none", "exited"}
=============================================================================
