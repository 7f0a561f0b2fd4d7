------------------------- MODULE BatchScoringProofs -------------------------
(***************************************************************************)
(* What the batch scoring of a run guarantees for any number of users and  *)
(* signals and any set of faults.                                          *)
(***************************************************************************)
EXTENDS BatchScoring, TLAPS

Ended == {"completed", "failed", "expired", "cancelled"}

-----------------------------------------------------------------------------
(* How far a user has come.  The predicates name all that the summary and  *)
(* the trackers depend on; each step moves one user from one to another.   *)

Untouched(u) == out[u] = "none" /\ u \notin aborted
Unheld(u) == u \notin Pending /\ u \notin open
NoVerdict(u) == verdicts[u] = <<>>

\* Not looked at.
Fresh(u) ==
    /\ tracker[u] = "none" /\ batch[u] = "none"
    /\ Untouched(u) /\ Unheld(u) /\ NoVerdict(u)

\* Inside submit, which its caller has not returned from.
Submitting(u) ==
    /\ tracker[u] = "open"
    /\ Untouched(u) /\ Unheld(u) /\ NoVerdict(u)

\* Registered.
Waiting(u) ==
    /\ tracker[u] = "open" /\ u \in Pending
    /\ Untouched(u) /\ NoVerdict(u)

\* Through with phase 1, and without a submission.
Skipped(u) ==
    /\ tracker[u] = "none" /\ verdicts[u] = <<"skipped">>
    /\ Untouched(u) /\ Unheld(u)

Rejected(u) ==
    /\ tracker[u] \in {"none", "exited"} /\ verdicts[u] = <<"failed">> /\ u \in blamed
    /\ Untouched(u) /\ Unheld(u)

\* Its tracker has been through _safe_abort.
Abandoned(u) == tracker[u] = "exited" \/ (telemetryDown /\ tracker[u] = "open")

\* Failed with the polling.
Aborted(u) ==
    /\ Abandoned(u) /\ verdicts[u] = <<"failed">> /\ out[u] = "none"
    /\ u \in aborted /\ batch[u] # "none" /\ u \in Pending

\* For a failure in phase 3.
Guilty(u) == u \in blamed \/ batch[u] \in Ended \ {"completed"}

Failed(u) ==
    /\ Abandoned(u) /\ verdicts[u] = <<"failed">> /\ out[u] # "stamped"
    /\ Guilty(u) /\ u \in Pending

Scored(u) ==
    /\ tracker[u] = "exited" /\ record[u] \in {<<>>, <<"ok">>} /\ verdicts[u] = <<"scored">>
    /\ out[u] = "stamped" /\ u \in Pending

\* In the body of the collect loop.
Collecting(u) ==
    /\ u \in Pending /\ u \notin aborted /\ NoVerdict(u)
    /\ CASE step = "close" -> tracker[u] = "open" /\ out[u] = "written"
         [] step = "exit"  -> tracker[u] = "closing" /\ out[u] = "written"
         [] step \in {"pop", "stamp"} ->
                tracker[u] = "exited" /\ record[u] \in {<<>>, <<"ok">>} /\ out[u] = "written"
         [] step = "stamping" ->
                tracker[u] = "exited" /\ record[u] \in {<<>>, <<"ok">>} /\ out[u] = "stamping"
         [] step = "abort" ->
                tracker[u] = "open" /\ out[u] \in {"none", "written"} /\ Guilty(u)
         [] OTHER -> FALSE

-----------------------------------------------------------------------------
(* The inductive invariant: how far everybody is in each phase.            *)

\* One record per exited tracker at most, none before: why no step exits one twice.
Recorded(u) ==
    /\ tracker[u] # "exited" => record[u] = <<>>
    /\ Len(record[u]) <= 1

Records == \A u \in Users : Recorded(u)

Placed ==
    /\ \A k, l \in 1..Len(pending) : pending[k] = pending[l] => k = l
    /\ Len(pending) <= Len(UserRows)

Unregistered == \A u \in Users : u \notin Pending => Skipped(u) \/ Rejected(u)

Submission ==
    phase = "submit" =>
        /\ step \in {"top", "entered", "held"} /\ Len(pending) < i /\ polled = {}
        /\ step # "top" => i <= Len(UserRows)
        /\ \A k \in 1..Len(UserRows) :
            /\ k > i \/ (k = i /\ step = "top") => Fresh(UserRows[k])
            /\ k = i /\ step # "top" => Submitting(UserRows[k])
            /\ k < i => LET u == UserRows[k] IN Waiting(u) \/ Skipped(u) \/ Rejected(u)

\* What has been retrieved was terminal, and stays so.
Retrieved == polled \subseteq ToPoll /\ \A u \in polled : batch[u] \in Ended

Polling ==
    phase = "poll" =>
        /\ step = "top" /\ Unregistered /\ Retrieved
        /\ \A u \in Pending : Waiting(u)

Aborting ==
    phase = "abort" =>
        /\ step = "top" /\ Unregistered /\ i <= Len(pending) + 1
        /\ \A k \in 1..Len(pending) :
            IF k < i /\ batch[pending[k]] # "none" THEN Aborted(pending[k]) ELSE Waiting(pending[k])

\* Nobody waits for a batch that was not retrieved.
Answered ==
    \A u \in Pending : u \notin aborted /\ batch[u] # "none" => u \in batches /\ batch[u] \in Ended

Collection ==
    phase = "collect" =>
        /\ step \notin {"entered", "held"} /\ Unregistered /\ Answered
        /\ i <= Len(pending) + 1
        /\ step # "top" => i <= Len(pending)
        /\ \A k \in 1..Len(pending) :
            /\ k > i \/ (k = i /\ step = "top") => Waiting(pending[k]) \/ Aborted(pending[k])
            /\ k = i /\ step # "top" => Collecting(pending[k])
            /\ k < i => LET u == pending[k] IN Aborted(u) \/ Failed(u) \/ Scored(u)

Outcome ==
    phase = "done" => /\ Unregistered
                      /\ \A u \in Pending : Aborted(u) \/ Failed(u) \/ Scored(u)

\* The interrupt's handler leaves no tracker open behind it, unless a second
\* signal ends it.
Draining ==
    /\ phase \notin {"drain", "raised"} => drained = {}
    /\ phase \in {"drain", "raised"} => signals >= 1
    /\ phase \in {"drain", "raised"} /\ ~telemetryDown =>
        \A u \in drained : tracker[u] # "open"
    /\ phase = "raised" /\ signals = 1 => open \subseteq drained

Inv ==
    /\ TypeOK /\ Records /\ Placed
    /\ Submission /\ Polling /\ Aborting /\ Collection /\ Outcome /\ Draining

-----------------------------------------------------------------------------
(* Frames: a step moves one user and leaves the others where they are.     *)

\* Nothing a user's progress depends on has changed, but that the service may
\* have ended its batch.
Kept(u) ==
    /\ tracker'[u] = tracker[u] /\ record'[u] = record[u]
    /\ out'[u] = out[u] /\ verdicts'[u] = verdicts[u]
    /\ batch'[u] = batch[u] \/ (batch[u] = "running" /\ batch'[u] \in Ended)
    /\ u \in aborted' <=> u \in aborted
    /\ u \in blamed => u \in blamed'
    /\ u \in open' => u \in open
    /\ (u \in Pending)' <=> u \in Pending
    /\ telemetryDown' = telemetryDown

LEMMA KeptStays ==
    ASSUME NEW u, Kept(u)
    PROVE  /\ Recorded(u) => Recorded(u)'
           /\ Fresh(u) => Fresh(u)'
           /\ Submitting(u) => Submitting(u)'
           /\ Waiting(u) => Waiting(u)'
           /\ Skipped(u) => Skipped(u)'
           /\ Rejected(u) => Rejected(u)'
           /\ Aborted(u) => Aborted(u)'
           /\ Failed(u) => Failed(u)'
           /\ Scored(u) => Scored(u)'
           /\ step' = step /\ Collecting(u) => Collecting(u)'
<1> USE DEF Kept, Untouched, Unheld, NoVerdict, Ended
<1>1. Recorded(u) => Recorded(u)'
  BY DEF Recorded
<1>2. (Fresh(u) => Fresh(u)') /\ (Submitting(u) => Submitting(u)')
  BY DEF Fresh, Submitting
<1>3. (Waiting(u) => Waiting(u)') /\ (Skipped(u) => Skipped(u)')
      /\ (Rejected(u) => Rejected(u)')
  BY DEF Waiting, Skipped, Rejected
<1>4. Guilty(u) => Guilty(u)'
  BY DEF Guilty
<1>5. Abandoned(u) => Abandoned(u)'
  BY DEF Abandoned
<1>6. (Aborted(u) => Aborted(u)') /\ (Failed(u) => Failed(u)') /\ (Scored(u) => Scored(u)')
  BY <1>4, <1>5 DEF Aborted, Failed, Scored
<1>7. step' = step /\ Collecting(u) => Collecting(u)'
  BY <1>4 DEF Collecting
<1> QED
  BY <1>1, <1>2, <1>3, <1>6, <1>7

\* Through with phase 1.
Through(u) == Waiting(u) \/ Skipped(u) \/ Rejected(u)

\* A row is one of the users, and no other row is the same.
LEMMA RowsApart ==
    /\ Len(UserRows) \in Nat
    /\ \A k \in 1..Len(UserRows) : UserRows[k] \in Users
    /\ \A k, l \in 1..Len(UserRows) : UserRows[k] = UserRows[l] => k = l
<1>1. Len(UserRows) \in Nat
  BY ScoringConstants
<1>2. \A k \in 1..Len(UserRows) : UserRows[k] \in Users
  BY DEF Users
<1> QED
  BY <1>1, <1>2, ScoringConstants

\* One step of phase 1, with its user.
LEMMA SubmitFrame ==
    ASSUME Inv, TypeOK', phase = "submit", phase' = "submit",
           i <= Len(UserRows), NEW r \in Users, r = UserRows[i],
           \A u \in Users \ {r} : Kept(u), Recorded(r)',
           Placed', Len(pending') < i', UNCHANGED <<polled, drained>>,
           \/ step' = "top" /\ i' = i + 1 /\ Through(r)'
           \/ step' \in {"entered", "held"} /\ i' = i /\ Submitting(r)'
    PROVE  Inv'
<1>1. Records'
  BY KeptStays DEF Inv, Records
<1>2. i \in Nat /\ Len(UserRows) \in Nat
  BY RowsApart DEF Inv, TypeOK
<1>3. \A k \in 1..Len(UserRows) : k # i => UserRows[k] \in Users \ {r}
  BY <1>2, RowsApart DEF Inv, TypeOK
<1>4. ASSUME NEW k \in 1..Len(UserRows)
      PROVE  /\ k > i' \/ (k = i' /\ step' = "top") => Fresh(UserRows[k])'
             /\ k = i' /\ step' # "top" => Submitting(UserRows[k])'
             /\ k < i' => Through(UserRows[k])'
  <2>1. CASE k > i
    <3>1. Fresh(UserRows[k])'
      BY <1>2, <1>3, <2>1, KeptStays DEF Inv, Submission
    <3> QED
      BY <1>2, <2>1, <3>1
  <2>2. CASE k < i
    <3>1. Through(UserRows[k])
      BY <2>2 DEF Inv, Submission, Through
    <3>2. Through(UserRows[k])'
      BY <1>2, <1>3, <2>2, <3>1, KeptStays DEF Through
    <3> QED
      BY <1>2, <2>2, <3>2
  <2>3. CASE k = i
    BY <1>2, <2>3
  <2> QED
    BY <1>2, <2>1, <2>2, <2>3
<1>5. Submission'
  BY <1>2, <1>4 DEF Inv, Submission, Through
<1> QED
  BY <1>1, <1>5 DEF Inv, Polling, Aborting, Collection, Outcome, Draining

\* One step of phase 3, with the submission it is about.
LEMMA CollectFrame ==
    ASSUME Inv, TypeOK', phase = "collect", phase' = "collect", UNCHANGED <<pending, drained>>,
           i <= Len(pending), NEW s \in Users, s = pending[i],
           \A u \in Users \ {s} : Kept(u), Recorded(s)', Answered',
           \/ step' = "top" /\ i' = i + 1 /\ (Aborted(s)' \/ Failed(s)' \/ Scored(s)')
           \/ step' \notin {"top", "entered", "held"} /\ i' = i /\ Collecting(s)'
    PROVE  Inv'
<1> DEFINE Past(u) == Aborted(u) \/ Failed(u) \/ Scored(u)
           Ahead(u) == Waiting(u) \/ Aborted(u)
<1>1. Records'
  BY KeptStays DEF Inv, Records
<1>2. i \in 1..Len(pending) /\ Len(pending) \in Nat /\ pending \in Seq(Users)
  BY RowsApart DEF Inv, TypeOK
<1>3. \A k \in 1..Len(pending) : k # i => pending[k] \in Users \ {s}
  <2>1. \A k \in 1..Len(pending) : pending[k] = pending[i] => k = i
    BY <1>2 DEF Inv, Placed
  <2>2. \A k \in 1..Len(pending) : pending[k] \in Users
    BY <1>2
  <2> QED
    BY <2>1, <2>2
<1>4. ASSUME NEW k \in 1..Len(pending)
      PROVE  /\ k > i' \/ (k = i' /\ step' = "top") => Ahead(pending[k])'
             /\ k = i' /\ step' # "top" => Collecting(pending[k])'
             /\ k < i' => Past(pending[k])'
  <2>1. CASE k > i
    <3>1. Ahead(pending[k])
      BY <1>2, <2>1 DEF Inv, Collection
    <3>2. Ahead(pending[k])'
      BY <1>2, <1>3, <2>1, <3>1, KeptStays
    <3> QED
      BY <1>2, <2>1, <3>2
  <2>2. CASE k < i
    <3>1. Past(pending[k])
      BY <2>2 DEF Inv, Collection
    <3>2. Past(pending[k])'
      BY <1>2, <1>3, <2>2, <3>1, KeptStays
    <3> QED
      BY <1>2, <2>2, <3>2
  <2>3. CASE k = i
    BY <1>2, <2>3
  <2> QED
    BY <1>2, <2>1, <2>2, <2>3
<1>5. Unregistered'
  <2>1. ASSUME NEW u \in Users, (u \notin Pending)' PROVE Skipped(u)' \/ Rejected(u)'
    <3>1. u \in Users \ {s} /\ u \notin Pending
      BY <1>2, <2>1 DEF Pending
    <3>2. Skipped(u) \/ Rejected(u)
      BY <3>1 DEF Inv, Collection, Unregistered
    <3> QED
      BY <3>1, <3>2, KeptStays
  <2> QED
    BY <2>1 DEF Unregistered
<1>6. Collection'
  BY <1>2, <1>4, <1>5 DEF Collection
<1>7. Placed'
  BY DEF Inv, Placed
<1> QED
  BY <1>1, <1>6, <1>7 DEF Inv, Submission, Polling, Aborting, Outcome, Draining

-----------------------------------------------------------------------------
(* Types *)

LEMMA InitInv == Init => Inv
<1> SUFFICES ASSUME Init PROVE Inv
  OBVIOUS
<1>1. Pending = {} /\ Len(pending) = 0
  BY DEF Init, Pending
<1>2. TypeOK
  <2>1. telemetryDown \in BOOLEAN
    <3>1. telemetryDown = FALSE \/ telemetryDown = ("telemetry" \in Faults)
      BY Zenon DEF Init
    <3>2. ("telemetry" \in Faults) \in BOOLEAN
      BY SMT
    <3> QED
      BY <3>1, <3>2, Zenon
  <2>2. i \in 1..(Len(UserRows) + 1) /\ signals \in 0..Signals
    BY RowsApart, ScoringConstants DEF Init
  <2>3. /\ record \in [Users -> Seq({"ok", "failed"})]
        /\ verdicts \in [Users -> Seq({"scored", "skipped", "failed"})]
        /\ pending \in Seq(Users)
    BY DEF Init
  <2> QED
    BY <2>1, <2>2, <2>3 DEF Init, TypeOK, BatchStatuses
<1>3. Records /\ Placed
  BY <1>1, RowsApart DEF Init, Records, Recorded, Placed
<1>4. \A u \in Users : Fresh(u)
  BY <1>1 DEF Init, Fresh, Untouched, Unheld, NoVerdict
<1>5. Submission
  BY <1>1, <1>4, RowsApart DEF Init, Submission
<1> QED
  BY <1>2, <1>3, <1>5 DEF Inv, Init, Polling, Aborting, Collection, Outcome, Draining

TrackersOK ==
    /\ tracker \in [Users -> {"none", "open", "closing", "exited"}]
    /\ record \in [Users -> Seq({"ok", "failed"})]

LEMMA ExitTypes ==
    ASSUME TypeOK, NEW u \in Users, NEW r \in {"ok", "failed"}, ExitTracker(u, r)
    PROVE  TrackersOK'
<1>1. record[u] \in Seq({"ok", "failed"})
  BY DEF TypeOK
<1>2. Append(record[u], r) \in Seq({"ok", "failed"})
  BY <1>1
<1> QED
  BY <1>1, <1>2 DEF ExitTracker, TypeOK, TrackersOK

LEMMA AbortTypes == ASSUME TypeOK, NEW u \in Users, SafeAbort(u) PROVE TrackersOK'
<1>1. CASE UNCHANGED <<tracker, record>>
  BY <1>1 DEF TypeOK, TrackersOK
<1>2. CASE ExitTracker(u, "failed")
  BY <1>2, ExitTypes
<1> QED
  BY <1>1, <1>2 DEF SafeAbort

LEMMA TypeStep == Inv /\ [Next]_vars => TypeOK'
<1> SUFFICES ASSUME Inv, [Next]_vars PROVE TypeOK'
  OBVIOUS
<1>0. TypeOK /\ Len(UserRows) \in Nat /\ Len(pending) \in Nat
  BY RowsApart DEF Inv, TypeOK
<1> USE <1>0 DEF TypeOK, loopVars, subVars, userVars, ExitTracker, SetClosed, SafeAbort,
          Verdict, Blame, NextRow, NextSub, ToStep, Row, Sub, InSubmit, InCollect
<1>1. CASE \/ GateSkips \/ GateRaises \/ SubmitEnters \/ SubmitRaises \/ SubmitReturns
           \/ Register \/ SubmitDone
  <2> USE RowsApart
  <2>1. CASE GateSkips
    BY <2>1 DEF GateSkips
  <2>2. CASE GateRaises
    BY <2>2 DEF GateRaises
  <2>3. CASE SubmitEnters
    BY <2>3 DEF SubmitEnters
  <2>4. CASE SubmitRaises
    <3>1. TrackersOK'
      <4>1. Row \in Users /\ ExitTracker(Row, "failed")
        BY <2>4 DEF SubmitRaises
      <4> HIDE DEF ExitTracker, Row
      <4> QED
        BY <4>1, ExitTypes
    <3>2. UNCHANGED <<subVars, batch, out, phase>> /\ step' = "top" /\ i' = i + 1
          /\ i <= Len(UserRows)
      BY <2>4 DEF SubmitRaises
    <3>3. verdicts' = [verdicts EXCEPT ![Row] = Append(@, "failed")] /\ blamed' = blamed \cup {Row}
          /\ Row \in Users
      BY <2>4 DEF SubmitRaises
    <3> QED
      BY <3>1, <3>2, <3>3 DEF TrackersOK
  <2>5. CASE SubmitReturns
    BY <2>5 DEF SubmitReturns, BatchStatuses
  <2>6. CASE Register
    BY <2>6 DEF Register
  <2>7. CASE SubmitDone
    BY <2>7 DEF SubmitDone
  <2> QED
    BY <1>1, <2>1, <2>2, <2>3, <2>4, <2>5, <2>6, <2>7
<1>2. CASE PollRetrieves \/ PollReturns \/ PollRaises \/ AbortPolled \/ AbortPolledDone
  <2>1. CASE PollRetrieves
    BY <2>1 DEF PollRetrieves, ToPoll, Pending
  <2>2. CASE PollReturns
    BY <2>2 DEF PollReturns
  <2>3. CASE PollRaises
    BY <2>3 DEF PollRaises
  <2>4. CASE AbortPolled
    <3>1. i <= Len(UserRows) /\ pending[i] \in Users
      BY <2>4 DEF AbortPolled, Inv, Placed
    <3> HIDE DEF SafeAbort, Verdict
    <3>2. CASE pending[i] \in ToPoll
      <4>1. /\ SafeAbort(pending[i]) /\ Verdict(pending[i], "failed")
            /\ open' = open \ {pending[i]} /\ aborted' = aborted \cup {pending[i]}
        BY <2>4, <3>2 DEF AbortPolled
      <4>2. TrackersOK'
        BY <3>1, <4>1, AbortTypes
      <4>3. verdicts' \in [Users -> Seq({"scored", "skipped", "failed"})]
        BY <3>1, <4>1 DEF Verdict
      <4>4. i' = i + 1 /\ UNCHANGED <<phase, step, pending, polled, batches, drained,
                                      signals, telemetryDown, batch, out, blamed>>
        BY <2>4 DEF AbortPolled
      <4>5. i' \in 1..(Len(UserRows) + 1) /\ open' \subseteq Users /\ aborted' \subseteq Users
        BY <3>1, <4>1, <4>4
      <4> HIDE DEF InCollect
      <4> QED
        BY <4>2, <4>3, <4>4, <4>5 DEF TrackersOK
    <3>3. CASE pending[i] \notin ToPoll
      BY <2>4, <3>1, <3>3 DEF AbortPolled
    <3> QED
      BY <3>2, <3>3
  <2>5. CASE AbortPolledDone
    BY <2>5 DEF AbortPolledDone
  <2> QED
    BY <1>2, <2>1, <2>2, <2>3, <2>4, <2>5
<1>3. CASE \/ CollectSkips \/ CollectRaises \/ CollectWrites \/ TelemetryRaises
           \/ CollectSetsClosed \/ CollectExits \/ CollectPops \/ CollectAborts
           \/ StampBegins \/ StampEnds \/ StampRaises \/ CollectDone
  <2> USE DEF Inv, Placed
  <2>1. CASE CollectSkips
    BY <2>1 DEF CollectSkips
  <2>2. CASE CollectRaises
    BY <2>2 DEF CollectRaises
  <2>3. CASE CollectWrites
    BY <2>3 DEF CollectWrites
  <2>4. CASE TelemetryRaises
    BY <2>4 DEF TelemetryRaises
  <2>5. CASE CollectSetsClosed
    BY <2>5 DEF CollectSetsClosed
  <2>6. CASE CollectExits
    <3>1. TrackersOK'
      <4>1. Sub \in Users /\ ExitTracker(Sub, "ok")
        BY <2>6 DEF CollectExits
      <4> HIDE DEF ExitTracker, Sub
      <4> QED
        BY <4>1, ExitTypes
    <3> QED
      BY <2>6, <3>1 DEF CollectExits, TrackersOK
  <2>7. CASE CollectPops
    BY <2>7 DEF CollectPops
  <2>8. CASE CollectAborts
    <3>1. i <= Len(UserRows) /\ Sub \in Users /\ SafeAbort(Sub)
      BY <2>8 DEF CollectAborts
    <3>2. TrackersOK'
      BY <3>1, AbortTypes
    <3>3. verdicts' \in [Users -> Seq({"scored", "skipped", "failed"})]
      <4> HIDE DEF SafeAbort
      <4> QED
        BY <2>8, <3>1 DEF CollectAborts
    <3>4. /\ phase' = phase /\ step' = "top" /\ i' = i + 1 /\ open' = open \ {Sub}
          /\ UNCHANGED <<pending, polled, batches, aborted, drained, signals, telemetryDown,
                         batch, out, blamed>>
      BY <2>8 DEF CollectAborts, NextSub, InCollect
    <3>5. i' \in 1..(Len(UserRows) + 1) /\ open' \subseteq Users
      BY <3>1, <3>4
    <3> HIDE DEF SafeAbort, Verdict
    <3> QED
      BY <3>2, <3>3, <3>4, <3>5 DEF TrackersOK
  <2>9. CASE StampBegins
    BY <2>9 DEF StampBegins
  <2>10. CASE StampEnds
    BY <2>10 DEF StampEnds
  <2>11. CASE StampRaises
    BY <2>11 DEF StampRaises
  <2>12. CASE CollectDone
    BY <2>12 DEF CollectDone
  <2> QED
    BY <1>3, <2>1, <2>2, <2>3, <2>4, <2>5, <2>6, <2>7, <2>8, <2>9, <2>10, <2>11, <2>12
<1>4. CASE Signal \/ SignalAgain
  <2>1. TrackersOK'
    <3>1. SignalOutcome
      BY <1>4 DEF Signal, SignalAgain
    <3>2. CASE InSubmit("entered") /\ ExitTracker(Row, "failed")
      <4>1. Row \in Users
        BY <3>2, RowsApart
      <4> HIDE DEF ExitTracker, Row
      <4> QED
        BY <3>2, <4>1, ExitTypes
    <3>3. CASE UNCHANGED <<tracker, record>>
      BY <3>3 DEF TrackersOK
    <3>4. ASSUME NEW u \in Users, SetClosed(u), UNCHANGED record PROVE TrackersOK'
      BY <3>4 DEF TrackersOK
    <3> QED
      BY <3>1, <3>2, <3>3, <3>4 DEF SignalOutcome
  <2> QED
    BY <1>4, <2>1, ScoringConstants DEF Signal, SignalAgain, TrackersOK
<1>5. CASE Drain \/ Reraise
  <2>1. ASSUME NEW u \in open \ drained, SafeAbort(u) PROVE TrackersOK'
    BY <2>1, AbortTypes
  <2>2. CASE Drain
    BY <2>1, <2>2 DEF Drain, TrackersOK
  <2>3. CASE Reraise
    BY <2>3 DEF Reraise
  <2> QED
    BY <1>5, <2>2, <2>3
<1>6. CASE Service
  BY <1>6 DEF Service, BatchEnds, BatchStatuses
<1>7. CASE UNCHANGED vars
  BY <1>7 DEF vars
<1> QED
  BY <1>1, <1>2, <1>3, <1>4, <1>5, <1>6, <1>7 DEF Next, Work, Raises

-----------------------------------------------------------------------------
(* Phase 1 *)

LEMMA AppendPending ==
    ASSUME pending \in Seq(Users), NEW r \in Users, pending' = Append(pending, r)
    PROVE  /\ Len(pending') = Len(pending) + 1 /\ pending'[Len(pending) + 1] = r
           /\ \A k \in 1..Len(pending) : pending'[k] = pending[k]
           /\ Pending' = Pending \cup {r}
<1>1. /\ Len(pending) \in Nat /\ Len(pending') = Len(pending) + 1
      /\ pending'[Len(pending) + 1] = r
      /\ \A k \in 1..Len(pending) : pending'[k] = pending[k]
  OBVIOUS
<1> DEFINE n == Len(pending)
<1>2. Pending' = {pending'[k] : k \in 1..(n + 1)}
  BY <1>1 DEF Pending
<1> HIDE DEF n
<1>3. 1..(n + 1) = 1..n \cup {n + 1}
  BY <1>1 DEF n
<1>4. \A k \in 1..n : pending'[k] = pending[k]
  BY <1>1 DEF n
<1>5. pending'[n + 1] = r
  BY <1>1 DEF n
<1>6. Pending = {pending[k] : k \in 1..n}
  BY DEF Pending, n
<1>7. Pending' = Pending \cup {r}
  BY <1>2, <1>3, <1>4, <1>5, <1>6
<1> QED
  BY <1>1, <1>7

\* A first entry.
LEMMA AppendFirst == \A x : Append(<<>>, x) = <<x>> /\ Len(<<x>>) = 1 /\ Len(<<>>) = 0
  OBVIOUS

\* A verdict or a record is given to somebody who has none.
LEMMA FirstVerdict ==
    ASSUME TypeOK, NEW u \in Users, NEW v, Verdict(u, v), NoVerdict(u)
    PROVE  verdicts'[u] = <<v>>
  BY AppendFirst DEF Verdict, NoVerdict, TypeOK

LEMMA FirstRecord ==
    ASSUME TypeOK, NEW u \in Users, NEW r, ExitTracker(u, r), Recorded(u), tracker[u] # "exited"
    PROVE  record'[u] \in {<<>>, <<r>>} /\ Len(record'[u]) <= 1 /\ tracker'[u] = "exited"
<1>1. tracker'[u] = "exited" /\ record[u] = <<>> /\ record \in [Users -> Seq({"ok", "failed"})]
  BY DEF ExitTracker, Recorded, TypeOK
<1>2. CASE UNCHANGED record
  BY <1>1, <1>2, AppendFirst
<1>3. CASE record' = [record EXCEPT ![u] = Append(@, r)]
  BY <1>1, <1>3, AppendFirst
<1> QED
  BY <1>1, <1>2, <1>3 DEF ExitTracker

LEMMA SubmitStep ==
    ASSUME Inv, TypeOK',
           \/ GateSkips \/ GateRaises \/ SubmitEnters \/ SubmitRaises \/ SubmitReturns
           \/ Register
    PROVE  Inv'
<1>1. phase = "submit" /\ i <= Len(UserRows) /\ phase' = "submit" /\ UNCHANGED <<polled, drained>>
  BY DEF GateSkips, GateRaises, SubmitEnters, SubmitRaises, SubmitReturns, Register,
     InSubmit, NextRow, subVars
<1>2. PICK r \in Users : r = UserRows[i]
  BY <1>1, RowsApart DEF Inv, TypeOK
<1>3. /\ i \in 1..Len(UserRows) /\ Len(pending) \in Nat
      /\ Len(pending) < i /\ Len(pending) <= Len(UserRows)
  BY <1>1, RowsApart DEF Inv, TypeOK, Submission, Placed
<1>4. /\ step = "top" => Fresh(r)
      /\ step # "top" => Submitting(r)
      /\ Recorded(r)
  BY <1>1, <1>2, <1>3 DEF Inv, Submission, Records
<1> USE DEF Row, InSubmit, NextRow, subVars, userVars, Blame
<1>5. CASE pending' = pending /\ UNCHANGED <<open, aborted>>
  <2>1. Placed' /\ Pending' = Pending
    BY <1>5 DEF Inv, Placed, Pending
  <2>2. CASE GateSkips
    <3>1. \A u \in Users \ {r} : Kept(u)
      BY <1>2, <1>5, <2>1, <2>2 DEF GateSkips, Verdict, Kept, Inv, TypeOK
    <3>3. verdicts'[r] = <<"skipped">>
      BY <1>2, <1>4, <2>2, FirstVerdict DEF GateSkips, Fresh, Inv
    <3>2. Skipped(r)' /\ Recorded(r)'
      BY <1>2, <1>4, <1>5, <2>1, <2>2, <3>3
         DEF GateSkips, Skipped, Recorded, Fresh, Untouched, Unheld, NoVerdict, Inv, TypeOK
    <3> QED
      BY <1>1, <1>2, <1>3, <1>5, <2>1, <2>2, <3>1, <3>2, SubmitFrame DEF GateSkips, Through
  <2>3. CASE GateRaises
    <3>1. \A u \in Users \ {r} : Kept(u)
      BY <1>2, <1>5, <2>1, <2>3 DEF GateRaises, Verdict, Kept, Inv, TypeOK
    <3>3. verdicts'[r] = <<"failed">>
      BY <1>2, <1>4, <2>3, FirstVerdict DEF GateRaises, Fresh, Inv
    <3>2. Rejected(r)' /\ Recorded(r)'
      BY <1>2, <1>4, <1>5, <2>1, <2>3, <3>3
         DEF GateRaises, Rejected, Recorded, Fresh, Untouched, Unheld, NoVerdict, Inv, TypeOK
    <3> QED
      BY <1>1, <1>2, <1>3, <1>5, <2>1, <2>3, <3>1, <3>2, SubmitFrame DEF GateRaises, Through
  <2>4. CASE SubmitEnters
    <3>1. \A u \in Users \ {r} : Kept(u)
      BY <1>2, <1>5, <2>1, <2>4 DEF SubmitEnters, Kept, Inv, TypeOK
    <3>2. Submitting(r)' /\ Recorded(r)'
      BY <1>2, <1>4, <1>5, <2>1, <2>4
         DEF SubmitEnters, Submitting, Recorded, Fresh, Untouched, Unheld, NoVerdict, Inv, TypeOK
    <3> QED
      BY <1>1, <1>2, <1>3, <1>5, <2>1, <2>4, <3>1, <3>2, SubmitFrame DEF SubmitEnters
  <2>5. CASE SubmitRaises
    <3>1. \A u \in Users \ {r} : Kept(u)
      BY <1>2, <1>5, <2>1, <2>5 DEF SubmitRaises, ExitTracker, Verdict, Kept, Inv, TypeOK
    <3>3. verdicts'[r] = <<"failed">>
      BY <1>2, <1>4, <2>5, FirstVerdict DEF SubmitRaises, Submitting, Inv
    <3>4. Len(record'[r]) <= 1 /\ tracker'[r] = "exited"
      BY <1>2, <1>4, <2>5, FirstRecord DEF SubmitRaises, Submitting, Inv
    <3>2. Rejected(r)' /\ Recorded(r)'
      BY <1>2, <1>4, <1>5, <2>1, <2>5, <3>3, <3>4
         DEF SubmitRaises, Rejected, Recorded, Submitting, Untouched, Unheld,
             NoVerdict, Inv, TypeOK
    <3> QED
      BY <1>1, <1>2, <1>3, <1>5, <2>1, <2>5, <3>1, <3>2, SubmitFrame DEF SubmitRaises, Through
  <2>6. CASE SubmitReturns
    <3>1. \A u \in Users \ {r} : Kept(u)
      BY <1>2, <1>5, <2>1, <2>6 DEF SubmitReturns, Kept, Inv, TypeOK
    <3>2. Submitting(r)' /\ Recorded(r)'
      BY <1>2, <1>4, <1>5, <2>1, <2>6
         DEF SubmitReturns, Submitting, Recorded, Untouched, Unheld, NoVerdict, Inv, TypeOK
    <3> QED
      BY <1>1, <1>2, <1>3, <1>5, <2>1, <2>6, <3>1, <3>2, SubmitFrame DEF SubmitReturns
  <2>7. ~Register
    <3> SUFFICES ASSUME Register PROVE FALSE
      OBVIOUS
    <3>1. Len(pending') = Len(pending) + 1
      BY <1>2 DEF Register, Inv, TypeOK
    <3> QED
      BY <1>3, <1>5, <3>1
  <2> QED
    BY <2>2, <2>3, <2>4, <2>5, <2>6, <2>7
<1>6. CASE Register
  <2>1. /\ pending \in Seq(Users) /\ pending' = Append(pending, r)
        /\ open' = open \cup {r} /\ step' = "top" /\ i' = i + 1
    BY <1>2, <1>6 DEF Register, Inv, TypeOK
  <2>2. /\ Len(pending') = Len(pending) + 1 /\ pending'[Len(pending) + 1] = r
        /\ \A k \in 1..Len(pending) : pending'[k] = pending[k]
        /\ Pending' = Pending \cup {r}
    BY <2>1, AppendPending
  <2>3. r \notin Pending
    BY <1>4, <1>6 DEF Register, Submitting, Unheld
  <2>4. \A k \in 1..Len(pending) : pending[k] # r
    BY <2>3 DEF Pending
  <2>5. Placed'
    <3>1. Len(pending') <= Len(UserRows)
      BY <1>3, <2>2, RowsApart
    <3>2. ASSUME NEW k \in 1..Len(pending'), NEW l \in 1..Len(pending'),
                 pending'[k] = pending'[l]
          PROVE  k = l
      <4>1. k \in 1..Len(pending) \/ k = Len(pending) + 1
        BY <1>3, <2>2
      <4>2. l \in 1..Len(pending) \/ l = Len(pending) + 1
        BY <1>3, <2>2
      <4>3. \A a, b \in 1..Len(pending) : pending[a] = pending[b] => a = b
        BY DEF Inv, Placed
      <4> QED
        BY <2>2, <2>4, <3>2, <4>1, <4>2, <4>3
    <3> QED
      BY <3>1, <3>2 DEF Placed
  <2>6. \A u \in Users \ {r} : Kept(u)
    BY <1>6, <2>1, <2>2 DEF Register, Kept
  <2>7. Waiting(r)' /\ Recorded(r)'
    BY <1>4, <1>6, <2>2 DEF Register, Waiting, Submitting, Recorded, Untouched, NoVerdict
  <2> QED
    BY <1>1, <1>2, <1>3, <1>6, <2>1, <2>2, <2>5, <2>6, <2>7, SubmitFrame DEF Register, Through
<1> QED
  BY <1>5, <1>6 DEF GateSkips, GateRaises, SubmitEnters, SubmitRaises, SubmitReturns

\* After the last row everybody is registered or through without a submission.
LEMMA SubmitDoneStep == ASSUME Inv, TypeOK', SubmitDone PROVE Inv'
<1>1. /\ phase = "submit" /\ step = "top" /\ i > Len(UserRows)
      /\ phase' = "poll" /\ UNCHANGED <<step, i, subVars, userVars>>
  BY DEF SubmitDone
<1>2. \A u \in Users : Kept(u)
  BY <1>1 DEF Kept, subVars, userVars, Pending
<1>3. ASSUME NEW u \in Users PROVE Through(u)'
  <2>1. PICK k \in 1..Len(UserRows) : u = UserRows[k]
    BY DEF Users
  <2>2. k < i
    BY <1>1, RowsApart DEF Inv, TypeOK
  <2>3. Through(u)
    BY <1>1, <2>1, <2>2 DEF Inv, Submission, Through
  <2> QED
    BY <1>2, <2>3, KeptStays DEF Through
<1>4. Pending' = Pending /\ Pending \subseteq Users
  BY <1>1 DEF subVars, Pending, Inv, TypeOK
<1>5. Records' /\ Placed'
  BY <1>1, <1>2, KeptStays DEF Inv, Records, Placed, subVars
<1>6. Unregistered'
  BY <1>3 DEF Unregistered, Through, Waiting
<1>7. \A u \in Pending' : Waiting(u)'
  BY <1>3, <1>4 DEF Through, Skipped, Rejected, Unheld
<1>8. polled' = {}
  BY <1>1 DEF Inv, Submission, subVars
<1> QED
  BY <1>1, <1>5, <1>6, <1>7, <1>8
     DEF Inv, Submission, Polling, Retrieved, Aborting, Collection, Outcome, Draining, subVars

-----------------------------------------------------------------------------
(* Phase 2 *)

LEMMA SafeAbortAbandons ==
    ASSUME TypeOK, NEW u \in Users, SafeAbort(u), tracker[u] = "open", Recorded(u),
           UNCHANGED telemetryDown
    PROVE  /\ Abandoned(u)' /\ Recorded(u)'
           /\ \A v \in Users \ {u} : tracker'[v] = tracker[v] /\ record'[v] = record[v]
<1>1. CASE telemetryDown
  BY <1>1 DEF SafeAbort, Abandoned, Recorded
<1>2. CASE ~telemetryDown
  <2>1. ExitTracker(u, "failed")
    BY <1>2 DEF SafeAbort
  <2>2. record'[u] \in {<<>>, <<"failed">>} /\ Len(record'[u]) <= 1 /\ tracker'[u] = "exited"
    BY <2>1, FirstRecord
  <2> QED
    BY <2>1, <2>2 DEF ExitTracker, Abandoned, Recorded, TypeOK
<1> QED
  BY <1>1, <1>2

LEMMA PollRetrievesStep == ASSUME Inv, TypeOK', PollRetrieves PROVE Inv'
<1>1. /\ phase = "poll"
      /\ UNCHANGED <<loopVars, pending, open, batches, aborted, drained, signals,
                     telemetryDown, userVars>>
  BY DEF PollRetrieves
<1>2. PICK v \in ToPoll \ polled : batch[v] \in Ended /\ polled' = polled \cup {v}
  BY DEF PollRetrieves, TERMINAL_STATUSES, Ended
<1>3. \A u : Kept(u)
  BY <1>1 DEF Kept, userVars, Pending
<1>4. Records' /\ Placed' /\ Pending' = Pending /\ ToPoll' = ToPoll
  BY <1>1, <1>3, KeptStays DEF Inv, Records, Placed, Pending, ToPoll, userVars
<1>5. Unregistered' /\ \A u \in Pending' : Waiting(u)'
  BY <1>1, <1>3, <1>4, KeptStays DEF Inv, Polling, Unregistered
<1>6. Retrieved'
  BY <1>1, <1>2, <1>4 DEF Inv, Polling, Retrieved, userVars
<1> QED
  BY <1>1, <1>4, <1>5, <1>6
     DEF Inv, Submission, Polling, Aborting, Collection, Outcome, Draining, loopVars

LEMMA PollReturnsStep == ASSUME Inv, TypeOK', PollReturns PROVE Inv'
<1>1. /\ phase = "poll" /\ ToPoll \subseteq polled /\ batches' = polled
      /\ phase' = "collect" /\ step' = "top" /\ i' = 1
      /\ UNCHANGED <<pending, open, polled, aborted, drained, signals, telemetryDown, userVars>>
  BY DEF PollReturns
<1>2. \A u : Kept(u)
  BY <1>1 DEF Kept, userVars, Pending
<1>3. Records' /\ Placed' /\ Pending' = Pending /\ Len(pending) \in Nat
  BY <1>1, <1>2, KeptStays DEF Inv, Records, Placed, Pending, TypeOK
<1>4. Unregistered' /\ \A u \in Pending : Waiting(u)'
  BY <1>1, <1>2, <1>3, KeptStays DEF Inv, Polling, Unregistered
<1>5. Answered'
  BY <1>1, <1>3 DEF Inv, Polling, Retrieved, Answered, ToPoll, userVars
<1>6. Collection'
  BY <1>1, <1>3, <1>4, <1>5 DEF Collection, Pending
<1> QED
  BY <1>1, <1>3, <1>6 DEF Inv, Submission, Polling, Aborting, Outcome, Draining

LEMMA PollRaisesStep == ASSUME Inv, TypeOK', PollRaises PROVE Inv'
<1>1. /\ phase = "poll" /\ phase' = "abort" /\ step' = "top" /\ i' = 1
      /\ UNCHANGED <<subVars, userVars>>
  BY DEF PollRaises
<1>2. \A u : Kept(u)
  BY <1>1 DEF Kept, subVars, userVars, Pending
<1>3. Records' /\ Placed' /\ Pending' = Pending /\ Len(pending) \in Nat
  <2>1. Records'
    BY <1>2, KeptStays DEF Inv, Records
  <2>2. UNCHANGED <<pending, open, aborted, batches, batch>>
    BY <1>1 DEF subVars, userVars
  <2>3. Placed' /\ Pending' = Pending
    BY <2>2 DEF Inv, Placed, Pending
  <2>4. Len(pending) \in Nat
    BY DEF Inv, TypeOK
  <2> QED
    BY <2>1, <2>3, <2>4
<1>4. Unregistered' /\ \A u \in Pending : Waiting(u)'
  BY <1>1, <1>2, <1>3, KeptStays DEF Inv, Polling, Unregistered
<1>5. Aborting'
  BY <1>1, <1>3, <1>4 DEF Aborting, Pending, subVars
<1> QED
  BY <1>1, <1>3, <1>5 DEF Inv, Submission, Polling, Collection, Outcome, Draining, subVars

LEMMA AbortPolledStep == ASSUME Inv, TypeOK', AbortPolled PROVE Inv'
<1>1. /\ phase = "abort" /\ i <= Len(pending) /\ i' = i + 1 /\ phase' = "abort" /\ step' = step
      /\ UNCHANGED <<pending, drained, telemetryDown, batch, out, blamed>>
  BY DEF AbortPolled
<1>0. i \in 1..Len(pending) /\ Len(pending) \in Nat /\ pending \in Seq(Users)
  BY <1>1, RowsApart DEF Inv, TypeOK
<1>2. PICK a \in Users : a = pending[i] /\ a \in Pending
  BY <1>0 DEF Pending
<1>3. \A k \in 1..Len(pending) : pending[k] \in Users /\ (k # i => pending[k] # a)
  BY <1>0, <1>2 DEF Inv, Placed
<1>4. Waiting(a) /\ Recorded(a) /\ Pending' = Pending
  BY <1>0, <1>1, <1>2 DEF Inv, Aborting, Records, Pending
<1>5. /\ \A u \in Users \ {a} : Kept(u)
      /\ Recorded(a)' /\ IF batch[a] # "none" THEN Aborted(a)' ELSE Waiting(a)'
  <2>1. CASE a \in ToPoll
    <3>1. /\ SafeAbort(a) /\ Verdict(a, "failed")
          /\ open' = open \ {a} /\ aborted' = aborted \cup {a}
      BY <1>2, <2>1 DEF AbortPolled
    <3>2. /\ Abandoned(a)' /\ Recorded(a)'
          /\ \A v \in Users \ {a} : tracker'[v] = tracker[v] /\ record'[v] = record[v]
      BY <1>1, <1>2, <1>4, <3>1, SafeAbortAbandons DEF Inv, Waiting
    <3>3. verdicts'[a] = <<"failed">>
      BY <1>2, <1>4, <3>1, FirstVerdict DEF Inv, Waiting
    <3>4. Aborted(a)'
      BY <1>1, <1>2, <1>4, <2>1, <3>1, <3>2, <3>3 DEF Aborted, ToPoll, Waiting, Untouched
    <3>5. \A u \in Users \ {a} : Kept(u)
      BY <1>1, <1>2, <1>4, <3>1, <3>2 DEF Kept, Verdict, Inv, TypeOK
    <3> QED
      BY <2>1, <3>2, <3>4, <3>5 DEF ToPoll
  <2>2. CASE a \notin ToPoll
    <3>1. UNCHANGED <<tracker, record, open, aborted, verdicts>>
      BY <1>2, <2>2 DEF AbortPolled
    <3>2. \A u : Kept(u)
      BY <1>1, <1>4, <3>1 DEF Kept
    <3> QED
      BY <1>2, <1>4, <2>2, <3>2, KeptStays DEF ToPoll
  <2> QED
    BY <2>1, <2>2
<1>6. Records' /\ Placed'
  BY <1>1, <1>5, KeptStays DEF Inv, Records, Placed
<1>7. Unregistered'
  BY <1>1, <1>2, <1>4, <1>5, KeptStays DEF Inv, Aborting, Unregistered
<1>8. ASSUME NEW k \in 1..Len(pending)
      PROVE  IF k < i + 1 /\ batch[pending[k]] # "none"
             THEN Aborted(pending[k])' ELSE Waiting(pending[k])'
  <2>1. CASE k = i
    BY <1>0, <1>1, <1>2, <1>5, <2>1
  <2>2. CASE k # i
    <3>1. PICK v \in Users \ {a} : v = pending[k]
      BY <1>3, <2>2
    <3>2. IF k < i /\ batch[v] # "none" THEN Aborted(v) ELSE Waiting(v)
      BY <1>1, <3>1 DEF Inv, Aborting
    <3>3. IF k < i /\ batch[v] # "none" THEN Aborted(v)' ELSE Waiting(v)'
      BY <1>5, <3>2, KeptStays
    <3>4. k < i + 1 <=> k < i
      BY <1>0, <2>2
    <3> QED
      BY <1>1, <3>1, <3>3, <3>4
  <2> QED
    BY <2>1, <2>2
<1>9. Aborting'
  BY <1>0, <1>1, <1>7, <1>8 DEF Inv, Aborting
<1> QED
  BY <1>1, <1>6, <1>9 DEF Inv, Submission, Polling, Collection, Outcome, Draining

LEMMA AbortPolledDoneStep == ASSUME Inv, TypeOK', AbortPolledDone PROVE Inv'
<1>1. /\ phase = "abort" /\ i > Len(pending) /\ phase' = "collect" /\ step' = "top" /\ i' = 1
      /\ UNCHANGED <<subVars, userVars>>
  BY DEF AbortPolledDone
<1>2. \A u : Kept(u)
  BY <1>1 DEF Kept, subVars, userVars, Pending
<1>3. Records' /\ Placed' /\ Pending' = Pending /\ Len(pending) \in Nat
  <2>1. Records'
    BY <1>2, KeptStays DEF Inv, Records
  <2>2. UNCHANGED <<pending, open, aborted, batches, batch>>
    BY <1>1 DEF subVars, userVars
  <2>3. Placed' /\ Pending' = Pending
    BY <2>2 DEF Inv, Placed, Pending
  <2>4. Len(pending) \in Nat
    BY DEF Inv, TypeOK
  <2> QED
    BY <2>1, <2>3, <2>4
<1>4. Unregistered'
  BY <1>1, <1>2, <1>3, KeptStays DEF Inv, Aborting, Unregistered
<1>5. \A k \in 1..Len(pending) :
        IF batch[pending[k]] # "none" THEN Aborted(pending[k]) ELSE Waiting(pending[k])
  <2>1. i <= Len(pending) + 1 /\ i \in Nat
    BY <1>1 DEF Inv, Aborting, TypeOK
  <2>2. \A k \in 1..Len(pending) : k < i
    BY <1>1, <1>3, <2>1
  <2> QED
    BY <1>1, <2>2 DEF Inv, Aborting
<1>6. \A k \in 1..Len(pending) : Waiting(pending[k])' \/ Aborted(pending[k])'
  BY <1>1, <1>2, <1>5, KeptStays DEF subVars
<1>7. Answered'
  BY <1>1, <1>3, <1>5 DEF Answered, Pending, Aborted, subVars, userVars
<1>8. Collection'
  BY <1>1, <1>3, <1>4, <1>6, <1>7 DEF Collection, subVars
<1> QED
  BY <1>1, <1>3, <1>8 DEF Inv, Submission, Polling, Aborting, Outcome, Draining, subVars

-----------------------------------------------------------------------------
(* Phase 3 *)

\* A step inside the body of the collect loop.
Body ==
    \/ CollectSkips \/ CollectRaises \/ CollectWrites \/ TelemetryRaises
    \/ CollectSetsClosed \/ CollectExits \/ CollectPops \/ CollectAborts
    \/ StampBegins \/ StampEnds \/ StampRaises

LEMMA CollectStep == ASSUME Inv, TypeOK', Body PROVE Inv'
<1>1. /\ phase = "collect" /\ i <= Len(pending) /\ phase' = "collect"
      /\ UNCHANGED <<pending, batches, aborted, drained, telemetryDown, batch>>
  BY DEF Body, CollectSkips, CollectRaises, CollectWrites, TelemetryRaises, CollectSetsClosed,
     CollectExits, CollectPops, CollectAborts, StampBegins, StampEnds, StampRaises,
     InCollect, NextSub, ToStep, subVars, userVars
<1>2. i \in 1..Len(pending) /\ pending \in Seq(Users)
  BY <1>1 DEF Inv, TypeOK
<1>3. PICK s \in Users : s = Sub /\ s = pending[i] /\ s \in Pending
  BY <1>2 DEF Sub, Pending
<1>4. /\ step = "top" => Waiting(s) \/ Aborted(s)
      /\ step # "top" => Collecting(s)
      /\ Recorded(s) /\ Answered /\ Pending' = Pending
  BY <1>1, <1>2, <1>3 DEF Inv, Collection, Records, Pending
<1>5. Answered'
  BY <1>1, <1>4 DEF Answered
<1>6. SUFFICES
        /\ \A u \in Users \ {s} : Kept(u)
        /\ Recorded(s)'
        /\ \/ step' = "top" /\ i' = i + 1 /\ (Aborted(s)' \/ Failed(s)' \/ Scored(s)')
           \/ step' \notin {"top", "entered", "held"} /\ i' = i /\ Collecting(s)'
  BY <1>1, <1>3, <1>5, CollectFrame
<1>7. TypeOK
  BY DEF Inv
<1> USE <1>7 DEF subVars, userVars, InCollect, NextSub, ToStep, Blame
<1>8. CASE CollectSkips
  <2>1. Aborted(s)
    BY <1>3, <1>4, <1>8 DEF CollectSkips, Waiting, Untouched
  <2>2. \A u : Kept(u)
    BY <1>1, <1>4, <1>8 DEF CollectSkips, Kept
  <2> QED
    BY <1>4, <1>8, <2>1, <2>2, KeptStays DEF CollectSkips
<1>9. CASE CollectRaises
  <2>1. Waiting(s) /\ s \notin aborted
    BY <1>3, <1>4, <1>9 DEF CollectRaises, Aborted
  <2>2. \A u : Kept(u)
    BY <1>1, <1>4, <1>9 DEF CollectRaises, Kept
  <2>3. Guilty(s)'
    <3>1. CASE Collectable(s)
      BY <1>3, <1>9, <3>1 DEF CollectRaises, Guilty
    <3>2. CASE ~Collectable(s)
      BY <1>1, <1>3, <1>4, <2>1, <3>2 DEF Collectable, Answered, Guilty, Ended
    <3> QED
      BY <3>1, <3>2
  <2>4. Collecting(s)' /\ Recorded(s)'
    BY <1>1, <1>4, <1>9, <2>1, <2>2, <2>3, KeptStays
       DEF CollectRaises, Collecting, Waiting, Untouched, NoVerdict, Kept
  <2> QED
    BY <1>9, <2>2, <2>4 DEF CollectRaises
<1>10. CASE CollectWrites
  <2>1. Waiting(s) /\ s \notin aborted
    BY <1>3, <1>4, <1>10 DEF CollectWrites, Aborted
  <2>2. \A u \in Users \ {s} : Kept(u)
    BY <1>1, <1>3, <1>4, <1>10 DEF CollectWrites, Kept, TypeOK
  <2>3. Collecting(s)' /\ Recorded(s)'
    BY <1>1, <1>3, <1>4, <1>10, <2>1
       DEF CollectWrites, Collecting, Recorded, Waiting, Untouched, NoVerdict, TypeOK
  <2> QED
    BY <1>10, <2>2, <2>3 DEF CollectWrites
<1>11. CASE TelemetryRaises
  <2>1. \A u : Kept(u)
    BY <1>1, <1>4, <1>11 DEF TelemetryRaises, Kept
  <2>2. Collecting(s)' /\ Recorded(s)'
    BY <1>1, <1>3, <1>4, <1>11, <2>1, KeptStays
       DEF TelemetryRaises, Collecting, NoVerdict, Guilty
  <2> QED
    BY <1>11, <2>1, <2>2 DEF TelemetryRaises
<1>12. CASE CollectSetsClosed
  <2>1. \A u \in Users \ {s} : Kept(u)
    BY <1>1, <1>3, <1>4, <1>12 DEF CollectSetsClosed, SetClosed, Kept, TypeOK
  <2>2. Collecting(s)' /\ Recorded(s)'
    BY <1>1, <1>3, <1>4, <1>12
       DEF CollectSetsClosed, SetClosed, Collecting, Recorded, NoVerdict, TypeOK
  <2> QED
    BY <1>12, <2>1, <2>2 DEF CollectSetsClosed
<1>13. CASE CollectExits
  <2>1. \A u \in Users \ {s} : Kept(u)
    BY <1>1, <1>3, <1>4, <1>13 DEF CollectExits, ExitTracker, Kept, TypeOK
  <2>2. record'[s] \in {<<>>, <<"ok">>} /\ Len(record'[s]) <= 1 /\ tracker'[s] = "exited"
    BY <1>3, <1>4, <1>13, FirstRecord DEF CollectExits, Collecting
  <2>3. Collecting(s)' /\ Recorded(s)'
    BY <1>1, <1>4, <1>13, <2>2 DEF CollectExits, Collecting, Recorded, NoVerdict
  <2> QED
    BY <1>13, <2>1, <2>3 DEF CollectExits
<1>14. CASE CollectPops
  <2>1. \A u : Kept(u)
    BY <1>1, <1>4, <1>14 DEF CollectPops, Kept
  <2>2. Collecting(s)' /\ Recorded(s)'
    BY <1>1, <1>4, <1>14, <2>1, KeptStays DEF CollectPops, Collecting, NoVerdict
  <2> QED
    BY <1>14, <2>1, <2>2 DEF CollectPops
<1>15. CASE CollectAborts
  <2>1. /\ Abandoned(s)' /\ Recorded(s)'
        /\ \A v \in Users \ {s} : tracker'[v] = tracker[v] /\ record'[v] = record[v]
    BY <1>1, <1>3, <1>4, <1>15, SafeAbortAbandons DEF CollectAborts, Collecting
  <2>2. verdicts'[s] = <<"failed">>
    BY <1>3, <1>4, <1>15, FirstVerdict DEF CollectAborts, Collecting
  <2>3. \A u \in Users \ {s} : Kept(u)
    BY <1>1, <1>3, <1>4, <1>15, <2>1 DEF CollectAborts, Verdict, Kept, TypeOK
  <2>4. Failed(s)'
    BY <1>1, <1>4, <1>15, <2>1, <2>2 DEF CollectAborts, Collecting, Failed, Guilty
  <2> QED
    BY <1>15, <2>1, <2>3, <2>4 DEF CollectAborts
<1>16. CASE StampBegins
  <2>1. \A u \in Users \ {s} : Kept(u)
    BY <1>1, <1>3, <1>4, <1>16 DEF StampBegins, Kept, TypeOK
  <2>2. Collecting(s)' /\ Recorded(s)'
    BY <1>1, <1>3, <1>4, <1>16 DEF StampBegins, Collecting, Recorded, NoVerdict, TypeOK
  <2> QED
    BY <1>16, <2>1, <2>2 DEF StampBegins
<1>17. CASE StampEnds
  <2>1. verdicts'[s] = <<"scored">>
    BY <1>3, <1>4, <1>17, FirstVerdict DEF StampEnds, Collecting
  <2>2. \A u \in Users \ {s} : Kept(u)
    BY <1>1, <1>3, <1>4, <1>17 DEF StampEnds, Verdict, Kept, TypeOK
  <2>3. Scored(s)' /\ Recorded(s)'
    BY <1>1, <1>3, <1>4, <1>17, <2>1 DEF StampEnds, Collecting, Scored, Recorded, TypeOK
  <2> QED
    BY <1>17, <2>2, <2>3 DEF StampEnds
<1>18. CASE StampRaises
  <2>1. verdicts'[s] = <<"failed">>
    BY <1>3, <1>4, <1>18, FirstVerdict DEF StampRaises, Collecting
  <2>2. \A u \in Users \ {s} : Kept(u)
    BY <1>1, <1>3, <1>4, <1>18 DEF StampRaises, Verdict, Kept, TypeOK
  <2>3. Failed(s)' /\ Recorded(s)'
    BY <1>1, <1>3, <1>4, <1>18, <2>1
       DEF StampRaises, Collecting, Failed, Abandoned, Guilty, Recorded
  <2> QED
    BY <1>18, <2>2, <2>3 DEF StampRaises
<1> QED
  BY <1>8, <1>9, <1>10, <1>11, <1>12, <1>13, <1>14, <1>15, <1>16, <1>17, <1>18 DEF Body

LEMMA CollectDoneStep == ASSUME Inv, TypeOK', CollectDone PROVE Inv'
<1>1. /\ phase = "collect" /\ i > Len(pending) /\ phase' = "done"
      /\ UNCHANGED <<step, i, subVars, userVars>>
  BY DEF CollectDone
<1>2. \A u : Kept(u)
  BY <1>1 DEF Kept, subVars, userVars, Pending
<1>3. Records' /\ Placed' /\ Pending' = Pending
  BY <1>1, <1>2, KeptStays DEF Inv, Records, Placed, Pending, subVars
<1>4. Unregistered'
  BY <1>1, <1>2, <1>3, KeptStays DEF Inv, Collection, Unregistered
<1>5. ASSUME NEW u \in Pending PROVE Aborted(u)' \/ Failed(u)' \/ Scored(u)'
  <2>1. PICK k \in 1..Len(pending) : u = pending[k]
    BY DEF Pending
  <2>2. k < i
    BY <1>1 DEF Inv, TypeOK
  <2>3. Aborted(u) \/ Failed(u) \/ Scored(u)
    BY <1>1, <2>1, <2>2 DEF Inv, Collection
  <2> QED
    BY <1>2, <2>3, KeptStays
<1>6. Outcome'
  BY <1>3, <1>4, <1>5 DEF Outcome
<1> QED
  BY <1>1, <1>3, <1>6 DEF Inv, Submission, Polling, Aborting, Collection, Draining, subVars

-----------------------------------------------------------------------------
(* Interrupts *)

\* A tracker that was exited is left alone, and none is opened.
LEMMA OutcomeRecorded ==
    ASSUME Inv, SignalOutcome
    PROVE  /\ Records'
           /\ phase = "drain" => \A u \in Users : tracker'[u] = "open" => tracker[u] = "open"
<1>1. CASE InSubmit("entered") /\ ExitTracker(Row, "failed")
  <2>1. PICK r \in Users : r = Row
    BY <1>1, RowsApart DEF Row, InSubmit, Inv, TypeOK
  <2>2. Submitting(r) /\ Recorded(r)
    BY <1>1, <2>1, RowsApart DEF Row, InSubmit, Inv, TypeOK, Submission, Records
  <2>3. record'[r] \in {<<>>, <<"failed">>} /\ Len(record'[r]) <= 1 /\ tracker'[r] = "exited"
    BY <1>1, <2>1, <2>2, FirstRecord DEF Submitting, Inv
  <2>4. \A u \in Users \ {r} : tracker'[u] = tracker[u] /\ record'[u] = record[u]
    BY <1>1, <2>1 DEF ExitTracker, Inv, TypeOK
  <2>5. Recorded(r)'
    BY <2>3 DEF Recorded
  <2>6. \A u \in Users \ {r} : Recorded(u)'
    BY <2>4 DEF Recorded, Inv, Records
  <2> QED
    BY <1>1, <2>5, <2>6 DEF InSubmit, Records
<1>2. CASE UNCHANGED <<tracker, record>>
  BY <1>2 DEF Inv, Records, Recorded
<1>3. ASSUME NEW v \in Users, tracker[v] = "open", SetClosed(v), UNCHANGED record
      PROVE  /\ Records'
             /\ \A u \in Users : tracker'[u] = "open" => tracker[u] = "open"
  BY <1>3 DEF SetClosed, Inv, TypeOK, Records, Recorded
<1> QED
  BY <1>1, <1>2, <1>3 DEF SignalOutcome

LEMMA SignalStep == ASSUME Inv, TypeOK', Signal \/ SignalAgain PROVE Inv'
<1>1. /\ SignalOutcome /\ signals' = signals + 1 /\ signals \in Nat
      /\ UNCHANGED <<step, i, pending, open, polled, batches, aborted, drained,
                     telemetryDown, batch, out, verdicts, blamed>>
      /\ drained \subseteq Users
  BY ScoringConstants DEF Signal, SignalAgain, Inv, TypeOK
<1>2. Records' /\ Placed'
  BY <1>1, OutcomeRecorded DEF Inv, Placed
<1>3. CASE Signal
  <2>1. phase' = "drain" /\ phase \notin {"drain", "raised"}
    BY <1>3 DEF Signal
  <2>2. drained' = {}
    BY <1>1, <2>1 DEF Inv, Draining
  <2> QED
    BY <1>1, <1>2, <2>1, <2>2
       DEF Inv, Submission, Polling, Aborting, Collection, Outcome, Draining
<1>4. CASE SignalAgain
  <2>1. phase' = "raised" /\ phase = "drain"
    BY <1>4 DEF SignalAgain
  <2>2. signals >= 1
    BY <2>1 DEF Inv, Draining
  <2>3. ~telemetryDown' => \A u \in drained' : tracker'[u] # "open"
    BY <1>1, <2>1, OutcomeRecorded DEF Inv, Draining
  <2> QED
    BY <1>1, <1>2, <2>1, <2>2, <2>3
       DEF Inv, Submission, Polling, Aborting, Collection, Outcome, Draining
<1> QED
  BY <1>3, <1>4

LEMMA DrainStep == ASSUME Inv, TypeOK', Drain PROVE Inv'
<1>1. /\ phase = "drain" /\ phase' = "drain"
      /\ UNCHANGED <<loopVars, pending, open, polled, batches, aborted, signals,
                     telemetryDown, batch, out, verdicts, blamed>>
  BY DEF Drain, loopVars
<1>2. PICK v \in open \ drained : SafeAbort(v) /\ drained' = drained \cup {v}
  BY DEF Drain
<1>3. v \in Users /\ Recorded(v)
  BY <1>2 DEF Inv, TypeOK, Records
<1>4. /\ Recorded(v)'
      /\ telemetryDown \/ tracker'[v] # "open"
      /\ \A u \in Users \ {v} : tracker'[u] = tracker[u] /\ record'[u] = record[u]
  <2>1. CASE tracker[v] = "open"
    BY <1>1, <1>2, <1>3, <2>1, SafeAbortAbandons DEF Abandoned, Inv
  <2>2. CASE tracker[v] # "open"
    BY <1>2, <1>3, <2>2 DEF SafeAbort, Recorded
  <2> QED
    BY <2>1, <2>2
<1>5. Records' /\ Placed'
  BY <1>1, <1>4 DEF Inv, Records, Recorded, Placed
<1>6. Draining'
  BY <1>1, <1>2, <1>4 DEF Inv, TypeOK, Draining
<1> QED
  BY <1>1, <1>5, <1>6 DEF Inv, Submission, Polling, Aborting, Collection, Outcome

LEMMA ReraiseStep == ASSUME Inv, TypeOK', Reraise PROVE Inv'
<1>1. phase = "drain" /\ open \subseteq drained /\ phase' = "raised"
      /\ UNCHANGED <<step, i, subVars, userVars>>
  BY DEF Reraise
<1> QED
  BY <1>1 DEF Inv, Records, Recorded, Placed, Submission, Polling, Aborting, Collection, Outcome,
     Draining, subVars, userVars

-----------------------------------------------------------------------------
(* The service *)

\* The service ends a batch, or nothing happens.
LEMMA ServiceStep ==
    ASSUME Inv, TypeOK', Service \/ UNCHANGED vars
    PROVE  Inv'
<1>1. /\ UNCHANGED <<loopVars, subVars, tracker, record, out, verdicts, blamed>>
      /\ \A u \in Users : batch'[u] = batch[u] \/ (batch[u] = "running" /\ batch'[u] \in Ended)
  BY DEF Service, BatchEnds, BatchStatuses, Ended, Inv, TypeOK, vars, userVars
<1>2. \A u \in Users : Kept(u)
  BY <1>1 DEF Kept, subVars, Pending
<1>3. /\ Pending' = Pending /\ Pending \subseteq Users
      /\ \A k \in 1..Len(pending) : pending[k] \in Users /\ pending[k] \in Pending
  BY <1>1 DEF Pending, subVars, Inv, TypeOK
<1>4. ToPoll' = ToPoll
  BY <1>1, <1>3 DEF ToPoll, Ended
<1>5. Records' /\ Placed'
  BY <1>1, <1>2, KeptStays DEF Inv, Records, Placed, subVars
<1>6. Unregistered => Unregistered'
  BY <1>2, <1>3, KeptStays DEF Unregistered
<1>7. Submission'
  <2>1. \A k \in 1..Len(UserRows) : UserRows[k] \in Users
    BY RowsApart
  <2> QED
    BY <1>1, <1>2, <2>1, KeptStays DEF Inv, Submission, loopVars, subVars
<1>8. Polling'
  BY <1>1, <1>2, <1>3, <1>4, <1>6, KeptStays
     DEF Inv, Polling, Retrieved, ToPoll, Ended, loopVars, subVars
<1>9. Aborting'
  <2> SUFFICES ASSUME phase = "abort" PROVE Aborting'
    BY <1>1 DEF Aborting, loopVars
  <2>1. ASSUME NEW k \in 1..Len(pending)
        PROVE  IF k < i /\ batch'[pending[k]] # "none"
               THEN Aborted(pending[k])' ELSE Waiting(pending[k])'
    <3>1. PICK v \in Users : v = pending[k]
      BY <1>3
    <3>2. IF k < i /\ batch[v] # "none" THEN Aborted(v) ELSE Waiting(v)
      BY <3>1 DEF Inv, Aborting
    <3>3. batch'[v] = "none" <=> batch[v] = "none"
      BY <1>1, <3>1 DEF Ended
    <3>4. IF k < i /\ batch'[v] # "none" THEN Aborted(v)' ELSE Waiting(v)'
      BY <1>2, <3>2, <3>3, KeptStays
    <3> QED
      BY <1>1, <3>1, <3>4 DEF subVars
  <2> QED
    BY <1>1, <1>6, <2>1 DEF Inv, Aborting, loopVars, subVars
<1>10. Collection'
  <2> SUFFICES ASSUME phase = "collect" PROVE Collection'
    BY <1>1 DEF Collection, loopVars
  <2>1. Answered'
    BY <1>1, <1>3 DEF Inv, Collection, Answered, Ended, subVars
  <2>2. ASSUME NEW k \in 1..Len(pending)
        PROVE  /\ k > i \/ (k = i /\ step = "top") => Waiting(pending[k])' \/ Aborted(pending[k])'
               /\ k = i /\ step # "top" => Collecting(pending[k])'
               /\ k < i => \/ Aborted(pending[k])' \/ Failed(pending[k])' \/ Scored(pending[k])'
    <3>1. PICK v \in Users : v = pending[k]
      BY <1>3
    <3>2. /\ k > i \/ (k = i /\ step = "top") => Waiting(v) \/ Aborted(v)
          /\ k = i /\ step # "top" => Collecting(v)
          /\ k < i => Aborted(v) \/ Failed(v) \/ Scored(v)
      BY <3>1 DEF Inv, Collection
    <3>3. /\ k > i \/ (k = i /\ step = "top") => Waiting(v)' \/ Aborted(v)'
          /\ k = i /\ step # "top" => Collecting(v)'
          /\ k < i => Aborted(v)' \/ Failed(v)' \/ Scored(v)'
      BY <1>1, <1>2, <3>2, KeptStays DEF loopVars
    <3> QED
      BY <1>1, <3>1, <3>3 DEF subVars
  <2> QED
    BY <1>1, <1>6, <2>1, <2>2 DEF Inv, Collection, loopVars, subVars
<1>11. Outcome'
  BY <1>1, <1>2, <1>3, <1>6, KeptStays DEF Inv, Outcome, loopVars
<1>12. Draining'
  BY <1>1 DEF Inv, Draining, loopVars, subVars
<1> QED
  BY <1>5, <1>7, <1>8, <1>9, <1>10, <1>11, <1>12 DEF Inv

-----------------------------------------------------------------------------
(* The theorems *)

LEMMA InvStep == Inv /\ [Next]_vars => Inv'
<1> SUFFICES ASSUME Inv, [Next]_vars PROVE Inv'
  OBVIOUS
<1>1. TypeOK'
  BY TypeStep
<1>2. CASE UNCHANGED vars
  BY <1>1, <1>2, ServiceStep
<1>3. CASE Next
  BY <1>1, <1>3, SubmitStep, SubmitDoneStep, PollRetrievesStep, PollReturnsStep, PollRaisesStep,
     AbortPolledStep, AbortPolledDoneStep, CollectStep, CollectDoneStep, SignalStep, DrainStep,
     ReraiseStep, ServiceStep DEF Next, Work, Raises, Body
<1> QED
  BY <1>2, <1>3

\* Whatever fails, is refused or interrupted: every tracker is in step with its
\* batch, its rows and its user's outcome, from the submission to the last write
\* (_score_run_batch and the trackers it enters).
THEOREM InvHolds == Spec => []Inv
  BY InitInv, InvStep, PTL DEF Spec

\* _close_tracker's flag is enough: whichever of collect, abort and the
\* interrupt's handler get to a tracker, it writes one run record at most.
THEOREM RecordedOnceHolds == Spec => []RecordedOnce
<1>1. Inv => RecordedOnce
  BY DEF Inv, Records, Recorded, RecordedOnce
<1> QED
  BY <1>1, InvHolds, PTL

LEMMA DoneCases ==
    ASSUME Inv, phase = "done", NEW u \in Users
    PROVE  Skipped(u) \/ Rejected(u) \/ Aborted(u) \/ Failed(u) \/ Scored(u)
  BY DEF Inv, Outcome, Unregistered

\* The summary of a run of _score_run_batch says of every user once what became
\* of it.
THEOREM SummaryTrueHolds == Spec => []SummaryTrue
<1>1. ASSUME Inv, phase = "done", NEW u \in Users
      PROVE  /\ Len(verdicts[u]) = 1
             /\ verdicts[u] = <<"scored">> <=> out[u] = "stamped"
             /\ verdicts[u] = <<"scored">> => record[u] \in {<<>>, <<"ok">>}
             /\ verdicts[u] = <<"skipped">> => tracker[u] = "none"
  <2>1. /\ <<"scored">> # <<"failed">> /\ <<"scored">> # <<"skipped">>
        /\ <<"skipped">> # <<"failed">>
    OBVIOUS
  <2>2. Len(<<"scored">>) = 1 /\ Len(<<"failed">>) = 1 /\ Len(<<"skipped">>) = 1
    OBVIOUS
  <2> QED
    BY <1>1, <2>1, <2>2, DoneCases DEF Skipped, Rejected, Aborted, Failed, Scored, Untouched
<1>2. Inv => SummaryTrue
  BY <1>1 DEF SummaryTrue
<1> QED
  BY <1>2, InvHolds, PTL

\* A user fails for a step or a batch of its own, or with the polling it needed
\* (the per-user isolation of the batch spec, section 7).
THEOREM FailureIsolatedHolds == Spec => []FailureIsolated
<1>1. ASSUME Inv, phase = "done", NEW u \in Users, verdicts[u] = <<"failed">>
      PROVE  \/ u \in blamed
             \/ u \in aborted /\ batch[u] # "none"
             \/ batch[u] \in {"failed", "expired", "cancelled"}
  <2>1. <<"scored">> # <<"failed">> /\ <<"skipped">> # <<"failed">>
    OBVIOUS
  <2> QED
    BY <1>1, <2>1, DoneCases DEF Skipped, Rejected, Aborted, Failed, Scored, Guilty, Ended
<1>2. Inv => FailureIsolated
  BY <1>1 DEF FailureIsolated
<1> QED
  BY <1>2, InvHolds, PTL

\* A run that comes to its end has exited every tracker it entered, whatever
\* failed on the way.
THEOREM TrackersExitedHolds == Spec => []TrackersExited
<1>1. ASSUME Inv, phase = "done", ~telemetryDown, NEW u \in Users
      PROVE  tracker[u] \in {"none", "exited"}
  BY <1>1, DoneCases DEF Skipped, Rejected, Aborted, Failed, Scored, Abandoned
<1>2. Inv => TrackersExited
  BY <1>1 DEF TrackersExited
<1> QED
  BY <1>2, InvHolds, PTL

\* The handler of a single signal has been through every registered submission
\* when it raises again.
THEOREM DrainReachesRegisteredHolds == Spec => []DrainReachesRegistered
<1>1. Inv => DrainReachesRegistered
  BY DEF Inv, Draining, DrainReachesRegistered
<1> QED
  BY <1>1, InvHolds, PTL
=============================================================================
