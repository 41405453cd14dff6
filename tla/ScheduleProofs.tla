---------------------------- MODULE ScheduleProofs ---------------------------
(***************************************************************************)
(* What the schedule and its stops promise.  Who replaces a stop, what its *)
(* lifting leaves, and what the automatic pause is earned by; a run that   *)
(* was started by hand or resumed leaves the plan of its job alone.  A job *)
(* somebody switched off is left alone, an occurrence missed in a          *)
(* suspension is not made up for, and one process dispatches a job once at *)
(* a time and retries a lost run once.                                     *)
(***************************************************************************)
EXTENDS SchedulerProofs, FiniteSetTheorems

-----------------------------------------------------------------------------
(* Stops *)

\* A row that leaves a stop behind carries no pending attempt.
CleanLift(s, t) == (s.code # "none" /\ t.code = "none") => t.retry = "none"

\* An outcome recorded on a stopped row leaves the stop, or one of the two
\* codes that win over it.
LEMMA FinalizeKeepsStop ==
  ASSUME NEW s \in SoundRow, NEW o \in OutcomeRecord, NEW trigger \in Triggers,
         NEW snap \in Snapshots, NEW destroy \in BOOLEAN, s.code # "none"
  PROVE  FinalizeRow(s, o, trigger, snap, destroy).code
           \in {s.code, "condition_met_once", "invalid_timezone"}
<1> DEFINE leave  == LeavesSchedule(trigger)
           broken == o.badTimezone /\ snap.kind = "recurring" /\ ~leave
           plans  == IF leave \/ broken THEN {} ELSE ComputeNextRun(snap)
           code   == StopGiven(s, IF broken /\ o.code = "none" THEN "invalid_timezone" ELSE o.code)
           fired  == IF destroy /\ o.status = "success"
                     THEN DisableSubscription(s, "condition_met_once") ELSE s
           held   == IF ~o.counts /\ code # "none"
                     THEN DisableSubscription(fired, code) ELSE fired
           status == IF o.counts THEN o.status ELSE "interrupted"
           retry  == o.status = "interrupted" /\ EarnsRetry(trigger)
           t      == CompleteJob(held, status, plans, retry, code, leave)
<1>1. s \in SubscriptionRow /\ ~s.enabled
  BY DEF SoundRow
<1>2. code \in {"none", "invalid_timezone"}
  BY <1>1 DEF StopGiven
<1>3. fired \in SubscriptionRow /\ ~fired.enabled /\ fired.code \in {s.code, "condition_met_once"}
  BY <1>1 DEF DisableSubscription, SubscriptionRow, Codes
<1>4. /\ held \in SubscriptionRow /\ ~held.enabled
      /\ held.code \in {s.code, "condition_met_once", "invalid_timezone"}
  <2> HIDE DEF fired, code
  <2> QED BY <1>2, <1>3 DEF DisableSubscription, SubscriptionRow, Codes
<1> HIDE DEF leave, plans, code, fired, held, status, retry
<1>5. ~AutoPauses(held, status)
  BY <1>4 DEF AutoPauses
<1>6. t.code = IF code # "none" /\ (Retires(plans, leave) \/ ~held.enabled) THEN code ELSE held.code
  BY <1>4, <1>5 DEF CompleteJob, SubscriptionRow
<1>7. t.code \in {s.code, "condition_met_once", "invalid_timezone"}
  BY <1>2, <1>4, <1>6
<1> QED BY <1>7 DEF FinalizeRow, leave, plans, code, fired, held, status, retry

-----------------------------------------------------------------------------
(* What a row may become by any statement but complete_job                  *)

\* By a statement that neither switches a row on nor brings it due.
Becomes(s, t) ==
  \/ t = s \/ t = ClaimRow(s) \/ (s.retry = "pending" /\ t = [s EXCEPT !.retry = "due"])
  \/ t = PauseRow(s) \/ t = UnsuspendRow(s) \/ t = WithdrawRow(s)
  \/ t = DisableIfEnabled(s, "unreachable")
  \/ \E kind \in Kinds : \E when \in Moments(kind) :
       t = EditRow(s, kind, when) \/ t = AdoptRow(s, kind, when)

\* By one that does, with the step it belongs to.
SwitchesOn(j) ==
  \/ ScheduleComesDue(j) /\ sub'[j] = [sub[j] EXCEPT !.next = "due"]
  \/ Resume(j) /\ sub'[j] = ResumeRow(sub[j])
  \/ \E on \in BOOLEAN : Toggle(j, on) /\ sub'[j] = ToggleRow(sub[j], on)
  \/ RestoreAccess(j) /\ sub'[j] \in RestoredRows(sub[j])
  \/ \E h \in releasing : h.job = j /\ sub'[j] \in ReleasedRows(sub[j], h.passed)

\* By the sweep, which earns the job of a lost run an attempt.
Earns(j) ==
  /\ sub'[j] = GrantRetry(sub[j])
  /\ \E p \in Procs, r \in RunIds :
       /\ HealStuckRuns(p) /\ r \in StaleRuns(run, InFlight(p))
       /\ run[r].job = j /\ EarnsRetry(run[r].trigger)

OtherWrites == \A j \in Jobs : Becomes(sub[j], sub'[j]) \/ SwitchesOn(j) \/ Earns(j)

LEMMA SameTableWrites == ASSUME sub' = sub PROVE OtherWrites
BY DEF OtherWrites, Becomes

LEMMA WriteWrites ==
  ASSUME sub \in [Jobs -> SoundRow], NEW j \in Jobs, NEW row, sub' = [sub EXCEPT ![j] = row],
         Becomes(sub[j], row) \/ SwitchesOn(j)
  PROVE  OtherWrites
<1>1. ASSUME NEW i \in Jobs PROVE sub'[i] = (IF i = j THEN row ELSE sub[i])
  OBVIOUS
<1>2. \A i \in Jobs : Becomes(sub[i], sub[i])
  BY DEF Becomes
<1> QED BY <1>1, <1>2 DEF OtherWrites

LEMMA RecordOf ==
  ASSUME IInv, NEW t \in tasks, RecordOutcome(t)
  PROVE  LET j == run[t.run].job
         IN /\ t.run \in RunIds /\ j \in Jobs
            /\ \A r \in RunIds \ {t.run} : advanced'[r] = advanced[r]
            /\ \E o \in OutcomeRecord, destroy \in BOOLEAN :
                 /\ o.code # "auto_paused" /\ (o.status = "interrupted" => o.counts)
                 /\ advanced'[t.run] = IF o.counts THEN o.status ELSE "uncounted"
                 /\ sub' = [sub EXCEPT ![j] = FinalizeRow(sub[j], o, run[t.run].trigger, t.snap, destroy)]
            /\ run[t.run].trigger \in Triggers /\ t.snap \in Snapshots
<1> DEFINE j == run[t.run].job
<1>1. t.run \in RunIds /\ t.snap \in Snapshots
  BY DEF IInv, MemoryOK, SoundTask, Task
<1>2. j \in Jobs /\ run[t.run].trigger \in Triggers
  BY <1>1 DEF IInv, TablesOK, RunTable, SoundRun, RunRecord
<1>3. PICK name \in EndingsOf(t.mode, j), bad \in BadTimezones :
        /\ sub' = [sub EXCEPT ![j] = FinalizeRow(@, Ending(name, bad), run[t.run].trigger, t.snap,
                                                 j \in FiresOnce)]
        /\ advanced' = [advanced EXCEPT ![t.run] = IF Ending(name, bad).counts
                          THEN Ending(name, bad).status ELSE "uncounted"]
  BY DEF RecordOutcome
<1>4. Ending(name, bad) \in OutcomeRecord /\ (j \in FiresOnce) \in BOOLEAN
  BY EndingIsOutcome, SwitchesAssumption DEF SoundOutcome
<1>7. /\ Ending(name, bad).code # "auto_paused"
      /\ Ending(name, bad).status = "interrupted" => Ending(name, bad).counts
  BY DEF Ending, Outcome
<1>8. advanced'[t.run] = IF Ending(name, bad).counts THEN Ending(name, bad).status ELSE "uncounted"
  BY <1>1, <1>3 DEF IInv, HistoryOK
<1>5. \A r \in RunIds \ {t.run} : advanced'[r] = advanced[r]
  BY <1>3 DEF IInv, HistoryOK
<1>6. \E o \in OutcomeRecord, destroy \in BOOLEAN :
        /\ o.code # "auto_paused" /\ (o.status = "interrupted" => o.counts)
        /\ advanced'[t.run] = IF o.counts THEN o.status ELSE "uncounted"
        /\ sub' = [sub EXCEPT ![j] = FinalizeRow(sub[j], o, run[t.run].trigger, t.snap, destroy)]
  BY <1>3, <1>4, <1>7, <1>8
<1> HIDE DEF j
<1> QED BY <1>1, <1>2, <1>5, <1>6 DEF j

LEMMA PeopleWrites == ASSUME IInv, People PROVE OtherWrites
<1>1. sub \in [Jobs -> SoundRow]
  BY DEF IInv, TablesOK
<1>2. ASSUME NEW j \in Jobs, NEW row, Becomes(sub[j], row) \/ SwitchesOn(j), Write(j, row)
      PROVE  OtherWrites
  BY <1>1, <1>2, WriteWrites DEF Write
<1>3. ASSUME NEW j \in Jobs, NEW row, Write(j, row) PROVE sub'[j] = row
  BY <1>1, <1>3 DEF Write
<1>4. ASSUME NEW j \in Jobs, Pause(j) PROVE OtherWrites
  BY <1>2, <1>4 DEF Pause, Decide, Becomes
<1>5. ASSUME NEW j \in Jobs, Resume(j) PROVE OtherWrites
  <2>1. Write(j, ResumeRow(sub[j]))
    BY <1>5 DEF Resume, Decide
  <2> QED BY <1>2, <1>3, <1>5, <2>1 DEF SwitchesOn
<1>6. ASSUME NEW j \in Jobs, NEW on \in BOOLEAN, Toggle(j, on) PROVE OtherWrites
  <2>1. Write(j, ToggleRow(sub[j], on))
    BY <1>6 DEF Toggle, Decide
  <2> QED BY <1>2, <1>3, <1>6, <2>1 DEF SwitchesOn
<1>7. ASSUME NEW j \in Jobs, NEW kind \in Kinds, EditTrigger(j, kind) \/ AdoptTrigger(j, kind)
      PROVE  OtherWrites
  <2>1. PICK when \in Moments(kind) :
          Write(j, EditRow(sub[j], kind, when)) \/ Write(j, AdoptRow(sub[j], kind, when))
    BY <1>7 DEF EditTrigger, AdoptTrigger, Adjust
  <2> QED BY <1>2, <2>1 DEF Becomes
<1>8. ASSUME NEW j \in Jobs, WithdrawAccess(j) PROVE OtherWrites
  <2>1. CASE Remove({j})
    BY <2>1, SameTableWrites DEF Remove, rows
  <2>2. CASE Write(j, WithdrawRow(sub[j]))
    BY <1>2, <2>2 DEF Becomes
  <2> QED BY <1>8, <2>1, <2>2 DEF WithdrawAccess, Adjust
<1>9. ASSUME NEW j \in Jobs, RestoreAccess(j) PROVE OtherWrites
  <2>1. PICK row \in RestoredRows(sub[j]) : Write(j, row)
    BY <1>9 DEF RestoreAccess, Adjust
  <2> QED BY <1>2, <1>3, <1>9, <2>1 DEF SwitchesOn
<1>10. ASSUME NEW h \in releasing, ReleaseHeld(h) PROVE OtherWrites
  <2>1. h.job \in Jobs
    BY DEF IInv, WebOK, Held
  <2>2. PICK row \in ReleasedRows(sub[h.job], h.passed) \cup {sub[h.job]} : Write(h.job, row)
    BY <1>10 DEF ReleaseHeld
  <2>3. CASE row = sub[h.job]
    BY <1>2, <2>1, <2>2, <2>3 DEF Becomes
  <2>4. CASE row \in ReleasedRows(sub[h.job], h.passed)
    BY <1>2, <1>3, <2>1, <2>2, <2>4 DEF SwitchesOn
  <2> QED BY <2>2, <2>3, <2>4
<1>11. ASSUME NEW j \in Jobs, SignIn(j) \/ BindChannel(j) \/ Delete(j) PROVE OtherWrites
  BY <1>11, SameTableWrites DEF SignIn, BindChannel, Delete, Remove, rows
<1>12. ASSUME NEW r \in RunIds, NEW b \in BOOLEAN, ReportUndelivered(r, b) PROVE OtherWrites
  <2>1. run[r].job \in Jobs
    BY DEF IInv, TablesOK, RunTable, SoundRun, RunRecord
  <2>2. \/ sub' = sub
        \/ sub' = [sub EXCEPT ![run[r].job] = DisableIfEnabled(sub[run[r].job], "unreachable")]
    BY <1>12 DEF ReportUndelivered
  <2> QED BY <1>1, <2>1, <2>2, WriteWrites, SameTableWrites DEF Becomes
<1>13. ASSUME Suspend PROVE OtherWrites
  BY <1>13, SameTableWrites DEF Suspend, rows
<1>14. ASSUME Unsuspend PROVE OtherWrites
  BY <1>14 DEF Unsuspend, OtherWrites, Becomes
<1> QED BY <1>4, <1>5, <1>6, <1>7, <1>8, <1>9, <1>10, <1>11, <1>12, <1>13, <1>14 DEF People

LEMMA EngineWrites ==
  ASSUME IInv, \/ Dispatch \/ Time \/ Web \/ \E p \in Procs : Tick(p) \/ Crash(p) \/ Start(p),
         ~\E t \in tasks : RecordOutcome(t)
  PROVE  OtherWrites
<1>1. sub \in [Jobs -> SoundRow]
  BY DEF IInv, TablesOK
<1>3. ASSUME NEW p \in Procs, HealStuckRuns(p) PROVE OtherWrites
  <2>1. ASSUME NEW j \in Jobs, sub'[j] # sub[j]
        PROVE  /\ sub'[j] = GrantRetry(sub[j])
               /\ \E r \in StaleRuns(run, InFlight(p)) : run[r].job = j /\ EarnsRetry(run[r].trigger)
    BY <1>3, <2>1 DEF HealStuckRuns
  <2>2. \A r \in StaleRuns(run, InFlight(p)) : r \in RunIds
    BY DEF StaleRuns
  <2> QED BY <1>3, <2>1, <2>2 DEF OtherWrites, Becomes, Earns
<1>4. ASSUME NEW p \in Procs, ClaimDueJobs(p) PROVE OtherWrites
  BY <1>4 DEF ClaimDueJobs, OtherWrites, Becomes
<1>5. ASSUME NEW p \in Procs, \/ DeliverDueNotices(p) \/ EndTick(p) \/ TickStepFails(p)
                              \/ Crash(p) \/ Start(p)
      PROVE  OtherWrites
  BY <1>5, SameTableWrites DEF DeliverDueNotices, EndTick, TickStepFails, Crash, Start, rows
<1>6. CASE Dispatch
  <2>1. ASSUME NEW t \in tasks, \/ StartTask(t) \/ OutcomeNotRecorded(t) \/ FinishRun(t)
                                \/ FinishRunFails(t) \/ PostCheckAsk(t) \/ Heartbeat(t)
        PROVE  OtherWrites
    BY <2>1, SameTableWrites DEF StartTask, OutcomeNotRecorded, FinishRun, FinishRunFails,
                                 PostCheckAsk, Heartbeat, rows
  <2>2. ASSUME NEW c \in claims, BeginDispatch(c) \/ BeginDispatchFails(c) PROVE OtherWrites
    BY <2>2, SameTableWrites DEF BeginDispatch, BeginDispatchFails, rows
  <2> QED BY <1>6, <2>1, <2>2 DEF Dispatch
<1>7. CASE Time
  <2>1. ASSUME NEW j \in Jobs, ScheduleComesDue(j) PROVE OtherWrites
    <3>1. sub' = [sub EXCEPT ![j] = [sub[j] EXCEPT !.next = "due"]]
      BY <2>1 DEF ScheduleComesDue
    <3>2. sub'[j] = [sub[j] EXCEPT !.next = "due"]
      BY <1>1, <3>1
    <3> QED BY <1>1, <2>1, <3>1, <3>2, WriteWrites DEF SwitchesOn
  <2>3. ASSUME NEW j \in Jobs, RetryComesDue(j) PROVE OtherWrites
    <3>1. sub' = [sub EXCEPT ![j] = [sub[j] EXCEPT !.retry = "due"]]
      BY <2>3 DEF RetryComesDue
    <3>2. Becomes(sub[j], [sub[j] EXCEPT !.retry = "due"])
      BY <2>3 DEF RetryComesDue, Becomes
    <3> QED BY <1>1, <3>1, <3>2, WriteWrites
  <2>2. ASSUME NEW r \in RunIds, NoticeComesDue(r) \/ NoticeGetsTooOld(r) \/ HeartbeatLapses(r)
        PROVE  OtherWrites
    BY <2>2, SameTableWrites DEF NoticeComesDue, NoticeGetsTooOld, HeartbeatLapses
  <2> QED BY <1>7, <2>1, <2>2, <2>3 DEF Time
<1>8. CASE Web
  BY <1>8, SameTableWrites DEF Web, RequestRunNow, RequestAnswer, Requested, RunJobNow,
                               AnswerParkedRun, QueueRun, RefuseAnswer, rows
<1> QED BY <1>3, <1>4, <1>5, <1>6, <1>7, <1>8 DEF Tick

\* The rest of the code reaches a job's row by those statements only.
LEMMA EveryOtherWrite ==
  ASSUME IInv, [Next]_vars, ~\E t \in tasks : RecordOutcome(t) PROVE OtherWrites
<1>1. CASE Next
  BY <1>1, PeopleWrites, EngineWrites DEF Next
<1>2. CASE UNCHANGED vars
  BY <1>2, SameTableWrites DEF vars, rows
<1> QED BY <1>1, <1>2

-----------------------------------------------------------------------------
(* Every step lifts a stop cleanly *)

LiftStep == \A j \in Jobs : CleanLift(sub[j], sub'[j])

\* No other statement lifts a stop and leaves an attempt behind.
LEMMA RowLifts ==
  ASSUME NEW s \in SoundRow, NEW t, Becomes(s, t) PROVE CleanLift(s, t)
<1> USE DEF CleanLift, SoundRow, SubscriptionRow
<1>1. CASE t = s \/ t = ClaimRow(s) \/ t = [s EXCEPT !.retry = "due"]
  BY <1>1 DEF ClaimRow, Codes
<1>2. CASE t = PauseRow(s) \/ t = WithdrawRow(s) \/ t = DisableIfEnabled(s, "unreachable")
  BY <1>2 DEF PauseRow, WithdrawRow, DisableIfEnabled, DisableSubscription, Codes
<1>3. CASE t = UnsuspendRow(s)
  BY <1>3 DEF UnsuspendRow, Recomputed, Codes
<1>4. CASE \E kind \in Kinds : \E when \in Moments(kind) :
             t = EditRow(s, kind, when) \/ t = AdoptRow(s, kind, when)
  BY <1>4 DEF EditRow, AdoptRow, DisableSubscription
<1> HIDE DEF CleanLift
<1> QED BY <1>1, <1>2, <1>3, <1>4 DEF Becomes

LEMMA SwitchLifts ==
  ASSUME IInv, NEW j \in Jobs, SwitchesOn(j) PROVE CleanLift(sub[j], sub'[j])
<1> DEFINE s == sub[j]
<1> USE DEF CleanLift, SoundRow, SubscriptionRow
<1>1. s \in SoundRow
  BY DEF IInv, TablesOK
<1> HIDE DEF s
<1>2. CleanLift(s, [s EXCEPT !.next = "due"])
  BY <1>1
<1>3. CleanLift(s, ResumeRow(s))
  BY <1>1 DEF ResumeRow, Recomputed
<1>4. \A on \in BOOLEAN : CleanLift(s, ToggleRow(s, on))
  BY <1>1 DEF ToggleRow
<1>5. \A t \in RestoredRows(s) : CleanLift(s, t)
  BY <1>1 DEF RestoredRows, Recomputed, DisableSubscription
<1>6. \A passed : \A t \in ReleasedRows(s, passed) : CleanLift(s, t)
  BY <1>1, <1>3 DEF ReleasedRows, RecodeStop
<1> HIDE DEF CleanLift
<1> QED BY <1>2, <1>3, <1>4, <1>5, <1>6 DEF SwitchesOn, s

\* An earned attempt changes nothing else, and only of a job nobody stopped.
LEMMA EarnsOnly ==
  ASSUME NEW s \in SoundRow, NEW t, t = GrantRetry(s)
  PROVE  /\ t.enabled = s.enabled /\ t.code = s.code /\ t.next = s.next /\ t.kind = s.kind
         /\ t.fails = s.fails /\ (s.code # "none" => t = s)
BY DEF GrantRetry, SoundRow, SubscriptionRow

LEMMA RecordLifts == ASSUME IInv, NEW t \in tasks, RecordOutcome(t) PROVE LiftStep
<1> DEFINE j == run[t.run].job
<1> HIDE DEF j
<1>1. j \in Jobs /\ run[t.run].trigger \in Triggers /\ t.snap \in Snapshots
  BY RecordOf DEF j
<1>2. PICK o \in OutcomeRecord, destroy \in BOOLEAN :
        sub' = [sub EXCEPT ![j] = FinalizeRow(sub[j], o, run[t.run].trigger, t.snap, destroy)]
  BY RecordOf DEF j
<1> DEFINE row == FinalizeRow(sub[j], o, run[t.run].trigger, t.snap, destroy)
<1>3. sub[j] \in SoundRow
  BY <1>1 DEF IInv, TablesOK
<1>4. sub[j].code # "none" => row.code # "none"
  BY <1>1, <1>3, FinalizeKeepsStop
<1>5. CleanLift(sub[j], row)
  BY <1>4 DEF CleanLift
<1> HIDE DEF row
<1> QED BY <1>1, <1>2, <1>5 DEF row, IInv, TablesOK, LiftStep, CleanLift

LEMMA EveryLiftStep == IInv /\ [Next]_vars => LiftStep
<1> SUFFICES ASSUME IInv, [Next]_vars PROVE LiftStep
  OBVIOUS
<1>1. CASE \E t \in tasks : RecordOutcome(t)
  BY <1>1, RecordLifts
<1>2. CASE OtherWrites
  <2>1. ASSUME NEW j \in Jobs, Earns(j) PROVE CleanLift(sub[j], sub'[j])
    BY <2>1, EarnsOnly DEF Earns, CleanLift, IInv, TablesOK
  <2> QED BY <1>2, <2>1, RowLifts, SwitchLifts DEF OtherWrites, LiftStep, IInv, TablesOK
<1> QED BY <1>1, <1>2, EveryOtherWrite

-----------------------------------------------------------------------------
\* Whoever lifts a stop, a person, a sign-in or a member regaining access, drops
\* the attempt an interrupted run earned while it was in force.
THEOREM StopsLiftCleanly == Spec => StopLiftDropsRetry
<1>1. IInv /\ [Next]_vars =>
        [\A j \in Jobs : (sub[j].code # "none" /\ sub'[j].code = "none") => sub'[j].retry = "none"]_vars
  BY EveryLiftStep DEF LiftStep, CleanLift
<1> QED BY <1>1, Invariance, PTL DEF Spec, StopLiftDropsRetry

\* Only the first transaction of _finalize records an outcome.
LEMMA OutcomesAreRecorded ==
  ASSUME [Next]_vars PROVE advanced' = advanced \/ \E t \in tasks : RecordOutcome(t)
<1>1. ASSUME NEW p \in Procs, Tick(p) \/ Crash(p) \/ Start(p) PROVE advanced' = advanced
  BY <1>1 DEF Tick, HealStuckRuns, DeliverDueNotices, ClaimDueJobs, EndTick, TickStepFails, Crash,
              Start, history
<1>2. CASE Dispatch
  BY <1>2 DEF Dispatch, BeginDispatch, BeginDispatchFails, StartTask, OutcomeNotRecorded, FinishRun,
              FinishRunFails, PostCheckAsk, Heartbeat, history
<1>3. CASE Time
  BY <1>3 DEF Time, TimePasses, ScheduleComesDue, RetryComesDue, NoticeComesDue, NoticeGetsTooOld,
              HeartbeatLapses, history
<1>4. CASE Web
  BY <1>4 DEF Web, RequestRunNow, RequestAnswer, Requested, RunJobNow, AnswerParkedRun, QueueRun,
              RefuseAnswer, history
<1>5. CASE People
  BY <1>5 DEF People, Pause, Resume, Toggle, EditTrigger, AdoptTrigger, WithdrawAccess,
              RestoreAccess, SignIn, BindChannel, ReleaseHeld, Delete, Remove, ReportUndelivered, Suspend,
              Unsuspend, Decide, Adjust, Write, history
<1>6. CASE UNCHANGED vars
  BY <1>6 DEF vars, history
<1> QED BY <1>1, <1>2, <1>3, <1>4, <1>5, <1>6 DEF Next

LEMMA RecordKeepsStop ==
  ASSUME IInv, [Next]_vars, NEW r \in RunIds, advanced'[r] # advanced[r],
         sub[run[r].job].code # "none"
  PROVE  sub'[run[r].job].code
           \in {sub[run[r].job].code, "condition_met_once", "invalid_timezone"}
<1>1. PICK t \in tasks : RecordOutcome(t)
  BY OutcomesAreRecorded
<1> DEFINE j == run[r].job
<1>2. t.run = r
  BY <1>1, RecordOf
<1>3. PICK o \in OutcomeRecord, destroy \in BOOLEAN :
        /\ j \in Jobs /\ run[r].trigger \in Triggers /\ t.snap \in Snapshots
        /\ sub' = [sub EXCEPT ![j] = FinalizeRow(sub[j], o, run[r].trigger, t.snap, destroy)]
  BY <1>1, <1>2, RecordOf
<1> DEFINE row == FinalizeRow(sub[j], o, run[r].trigger, t.snap, destroy)
<1>4. sub \in [Jobs -> SoundRow]
  BY DEF IInv, TablesOK
<1>5. sub[j].code # "none"
  OBVIOUS
<1> HIDE DEF j
<1>6. row.code \in {sub[j].code, "condition_met_once", "invalid_timezone"}
  BY <1>3, <1>4, <1>5, FinalizeKeepsStop
<1> HIDE DEF row
<1>7. sub'[j] = row
  BY <1>3, <1>4 DEF row
<1> QED BY <1>6, <1>7 DEF j

\* A run that ends while its job is stopped leaves the stop, or one of the two
\* codes that must win over it.
THEOREM StopsAreKept == Spec => EngineKeepsStop
<1>1. IInv /\ [Next]_vars =>
        [\A r \in RunIds :
           LET j == run[r].job
           IN (advanced'[r] # advanced[r] /\ sub[j].code # "none")
              => sub'[j].code \in {sub[j].code, "condition_met_once", "invalid_timezone"}]_vars
  BY RecordKeepsStop
<1> QED BY <1>1, Invariance, PTL DEF Spec, EngineKeepsStop

-----------------------------------------------------------------------------
(* The continuation of an answered run and the schedule                     *)

LEMMA ResumedKeepsPlan ==
  ASSUME NEW s \in SoundRow, NEW o \in OutcomeRecord, NEW snap \in Snapshots,
         NEW destroy \in BOOLEAN
  PROVE  LET t == FinalizeRow(s, o, "resumed", snap, destroy)
         IN t.next = s.next /\ t.plan = s.plan
<1> DEFINE code  == StopGiven(s, o.code)
           fired == IF destroy /\ o.status = "success"
                    THEN DisableSubscription(s, "condition_met_once") ELSE s
           held  == IF ~o.counts /\ code # "none" THEN DisableSubscription(fired, code) ELSE fired
           status == IF o.counts THEN o.status ELSE "interrupted"
           t == CompleteJob(held, status, {}, o.status = "interrupted" /\ EarnsRetry("resumed"),
                            code, TRUE)
<1>1. fired \in SoundRow /\ fired.next = s.next /\ fired.plan = s.plan
  <2>1. DisableSubscription(s, "condition_met_once") \in SoundRow
    BY DisableSound DEF Codes
  <2>2. \A c : DisableSubscription(s, c).next = s.next /\ DisableSubscription(s, c).plan = s.plan
    BY DEF SoundRow, SubscriptionRow, DisableSubscription
  <2> QED BY <2>1, <2>2
<1>2. code \in Codes
  BY DEF StopGiven, OutcomeRecord, Codes
<1>3. held \in SoundRow /\ held.next = s.next /\ held.plan = s.plan
  <2> HIDE DEF fired, code
  <2> QED BY <1>1, <1>2, DisableSound DEF SoundRow, SubscriptionRow, DisableSubscription
<1>4. t.next = held.next /\ t.plan = held.plan
  <2> HIDE DEF held, code, status
  <2> QED BY <1>3 DEF CompleteJob, NextAfter, SoundRow, SubscriptionRow
<1>5. t = FinalizeRow(s, o, "resumed", snap, destroy)
  BY DEF FinalizeRow, LeavesSchedule
<1> HIDE DEF t, held
<1> QED BY <1>3, <1>4, <1>5

LEMMA RecordKeepsPlan ==
  ASSUME IInv, [Next]_vars, NEW r \in RunIds, advanced'[r] # advanced[r], run[r].trigger = "resumed"
  PROVE  /\ sub'[run[r].job].next = sub[run[r].job].next
         /\ sub'[run[r].job].plan = sub[run[r].job].plan
<1> DEFINE j == run[r].job
<1>1. PICK t \in tasks : RecordOutcome(t)
  BY OutcomesAreRecorded
<1>2. t.run = r
  BY <1>1, RecordOf
<1>3. PICK o \in OutcomeRecord, destroy \in BOOLEAN :
        /\ j \in Jobs /\ t.snap \in Snapshots
        /\ sub' = [sub EXCEPT ![j] = FinalizeRow(sub[j], o, "resumed", t.snap, destroy)]
  BY <1>1, <1>2, RecordOf
<1> DEFINE row == FinalizeRow(sub[j], o, "resumed", t.snap, destroy)
<1>4. sub \in [Jobs -> SoundRow]
  BY DEF IInv, TablesOK
<1> HIDE DEF j
<1>5. row.next = sub[j].next /\ row.plan = sub[j].plan
  BY <1>3, <1>4, ResumedKeepsPlan
<1>6. sub'[j] = row
  BY <1>3, <1>4
<1> HIDE DEF row
<1> QED BY <1>5, <1>6 DEF j

\* The continuation of an answered run leaves the occurrence that waits and the
\* plan it was computed from: an edit made while it was in flight stands.
THEOREM ResumedRunsLeavePlans == Spec => ResumedRunLeavesSchedule
<1>1. IInv /\ [Next]_vars =>
        [\A r \in RunIds :
           (advanced'[r] # advanced[r] /\ run[r].trigger = "resumed")
           => LET j == run[r].job
              IN sub'[j].next = sub[j].next /\ sub'[j].plan = sub[j].plan]_vars
  BY RecordKeepsPlan
<1> QED BY <1>1, Invariance, PTL DEF Spec, ResumedRunLeavesSchedule

-----------------------------------------------------------------------------
(* An automatic pause is earned.  The counter on the row never exceeds the  *)
(* failed runs the history knows, because one dispatch at most holds a run, *)
(* and records its outcome once.                                            *)

FailedOf(j) == {r \in RunIds : run[r].job = j /\ advanced[r] = "failed"}

Unrecorded(t) == t.stage \in {"queued", "dispatching"}

OneTaskPerRun ==
  /\ \A r \in RunIds : run[r].status = "absent" => advanced[r] = "none"
  /\ \A t \in tasks : /\ run[t.run].status # "absent"
                      /\ Unrecorded(t) => advanced[t.run] = "none"
                      /\ \A u \in tasks : t.run = u.run => t = u

FailsAreRuns == \A j \in Jobs : sub[j].fails <= Cardinality(FailedOf(j))

PauseInv == OneTaskPerRun /\ FailsAreRuns /\ AutoPauseIsEarned

\* A run row is never removed, keeps its job and its trigger, and goes stale only
\* while nobody dispatches it, or where a live dispatcher may miss its beats.
KeepsRun(r) ==
  /\ run'[r].status # "absent" /\ run'[r].job = run[r].job /\ run'[r].trigger = run[r].trigger
  /\ run'[r].beat = "stale" => run[r].beat = "stale" \/ LapseLive \/ \A t \in tasks : t.run # r

KeepsRuns == \A r \in RunIds : run[r].status # "absent" => KeepsRun(r)

SameRun(x, y) == x.job = y.job /\ x.trigger = y.trigger /\ x.beat = y.beat

LEMMA CompleteAsRuns ==
  ASSUME NEW S \in SUBSET RunIds, NEW becomes \in [RunIds -> RunRecord],
         NEW table \in [RunIds -> RunRecord], NEW x \in RunIds
  PROVE  SameRun(CompleteAs(table, S, becomes)[x], IF x \in S THEN becomes[x] ELSE table[x])
BY DEF CompleteAs, RunRecord, SameRun

LEMMA StepKeepsRuns == ASSUME run \in RunTable, RunStep PROVE KeepsRuns
<1> SUFFICES ASSUME NEW r \in RunIds, run[r].status # "absent" PROVE KeepsRun(r)
  BY DEF KeepsRuns
<1>1. run \in [RunIds -> RunRecord]
  BY DEF RunTable, SoundRun
<1>0. ASSUME SameRun(run'[r], run[r]), run'[r].status # "absent" PROVE KeepsRun(r)
  BY <1>0 DEF SameRun, KeepsRun
<1>2. CASE Sweeps
  <2>1. PICK S \in SUBSET RunIds : /\ \A q \in S : run[q].status = "running"
                                   /\ run' = InterruptRuns(run, S)
    BY <1>2 DEF Sweeps
  <2> DEFINE lost == [q \in RunIds |-> [run[q] EXCEPT !.status = "interrupted",
                                         !.notice = NoticeAfter(run[q], "interrupted")]]
  <2>2. lost \in [RunIds -> RunRecord] /\ SameRun(lost[r], run[r])
    <3>1. ASSUME NEW q \in RunIds
          PROVE  run[q] \in RunRecord /\ NoticeAfter(run[q], "interrupted") \in Notices
      BY <1>1 DEF RunRecord, NoticeAfter, Notices
    <3>2. ASSUME NEW y \in RunRecord, NEW n \in Notices
          PROVE  LET z == [y EXCEPT !.status = "interrupted", !.notice = n]
                 IN z \in RunRecord /\ SameRun(z, y)
      BY DEF RunRecord, Statuses, Outcomes, SameRun
    <3> QED BY <3>1, <3>2
  <2>3. run' = CompleteAs(run, S, lost)
    BY <2>1 DEF InterruptRuns
  <2> HIDE DEF lost
  <2>4. SameRun(run'[r], run[r])
    BY <1>1, <2>2, <2>3, CompleteAsRuns DEF SameRun
  <2>5. run'[r].status # "absent"
    BY <2>1, <1>1, SweptEntries DEF Same, RunRecord
  <2> QED BY <1>0, <2>4, <2>5
<1>3. CASE Notifies
  <2>1. SameRun(run'[r], run[r])
    BY <1>1, <1>3 DEF Notifies, AfterNotices, RunRecord, SameRun
  <2> QED BY <1>0, <1>3, <2>1, NotifiedEntries DEF Same
<1>4. ASSUME NEW q \in RunIds, Marks(q) PROVE KeepsRun(r)
  <2>0. run'[r].status # "absent"
    BY <1>4, MarkedEntries DEF Same
  <2>1. CASE run' = MarkRunDelivered(run, q)
    BY <1>0, <1>1, <2>0, <2>1 DEF MarkRunDelivered, RunRecord, SameRun
  <2>4. CASE run' = MarkRunUndelivered(run, q)
    BY <1>0, <1>1, <2>0, <2>4 DEF MarkRunUndelivered, RunRecord, SameRun
  <2>2. ASSUME NEW beat \in {"fresh", "stale"}, run' = TouchRun(run, q, beat),
               beat = "stale" => LapseLive \/ \A t \in tasks : t.run # q
        PROVE  KeepsRun(r)
    <3>1. run'[r] = IF r = q THEN [run[r] EXCEPT !.beat = beat] ELSE run[r]
      BY <1>1, <2>2 DEF TouchRun
    <3>2. run'[r].job = run[r].job /\ run'[r].trigger = run[r].trigger
            /\ run'[r].beat = IF r = q THEN beat ELSE run[r].beat
      BY <1>1, <3>1 DEF RunRecord
    <3> QED BY <2>0, <2>2, <3>2 DEF KeepsRun
  <2>3. CASE \E n \in Notices : run' = [run EXCEPT ![q].notice = n]
    BY <1>0, <1>1, <2>0, <2>3 DEF RunRecord, SameRun
  <2> QED BY <1>4, <2>1, <2>2, <2>3, <2>4 DEF Marks
<1>5. ASSUME NEW q \in RunIds, Opens(q) PROVE KeepsRun(r)
  <2>1. run'[r] = run[r]
    BY <1>1, <1>5 DEF Opens, CreateRun
  <2> QED BY <1>0, <2>1 DEF SameRun
<1>6. ASSUME NEW q \in RunIds, Finishes(q) PROVE KeepsRun(r)
  <2>1. run'[r].status # "absent"
    BY <1>6, FinishedEntries DEF Same, Outcomes
  <2>2. PICK o \in SoundOutcome :
          run' = CompleteRun(run, q, o) \/ run' = CloseRunMinimally(run, q, o)
    BY <1>6 DEF Finishes
  <2> DEFINE full == [run[q] EXCEPT !.status = o.status, !.ask = o.ask,
                                    !.delivered = DeliveredAfter(run[q], o),
                                    !.notice = NoticeAfter(run[q], o.status)]
             least == [run[q] EXCEPT !.status = o.status]
  <2>3. CASE run' = run
    BY <1>0, <2>1, <2>3 DEF SameRun
  <2>4. ASSUME NEW row \in {full, least}, run' = CompleteAs(run, {q}, [run EXCEPT ![q] = row])
        PROVE  SameRun(run'[r], run[r])
    <3>1. /\ o.status \in Statuses /\ o.ask \in Asks /\ run[q] \in RunRecord
          /\ DeliveredAfter(run[q], o) \in BOOLEAN /\ NoticeAfter(run[q], o.status) \in Notices
      BY <1>1 DEF RunRecord, SoundOutcome, OutcomeRecord, Statuses, NoticeAfter, Notices, DeliveredAfter
    <3>2. ASSUME NEW y \in RunRecord, NEW status \in Statuses, NEW ask \in Asks,
                 NEW delivered \in BOOLEAN, NEW n \in Notices
          PROVE  /\ [y EXCEPT !.status = status, !.ask = ask, !.delivered = delivered, !.notice = n]
                      \in {z \in RunRecord : SameRun(z, y)}
                 /\ [y EXCEPT !.status = status] \in {z \in RunRecord : SameRun(z, y)}
      BY DEF RunRecord, SameRun
    <3>3. row \in RunRecord /\ SameRun(row, run[q])
      <4> DEFINE y == run[q]
                 delivered == DeliveredAfter(run[q], o)
                 n == NoticeAfter(run[q], o.status)
      <4>1. y \in RunRecord /\ delivered \in BOOLEAN /\ n \in Notices
        BY <3>1
      <4>2. row \in {[y EXCEPT !.status = o.status, !.ask = o.ask, !.delivered = delivered, !.notice = n],
                     [y EXCEPT !.status = o.status]}
        OBVIOUS
      <4> HIDE DEF full, least, y, delivered, n
      <4>3. [y EXCEPT !.status = o.status, !.ask = o.ask, !.delivered = delivered, !.notice = n]
              \in {z \in RunRecord : SameRun(z, y)}
        BY <3>1, <3>2, <4>1
      <4>4. [y EXCEPT !.status = o.status] \in {z \in RunRecord : SameRun(z, y)}
        BY <3>1, <3>2, <4>1
      <4>5. row \in RunRecord /\ SameRun(row, y)
        BY <4>2, <4>3, <4>4
      <4> QED BY <4>5 DEF y
    <3> DEFINE becomes == [run EXCEPT ![q] = row]
    <3>4. becomes \in [RunIds -> RunRecord] /\ SameRun(becomes[r], run[r])
      <4> HIDE DEF full, least
      <4> QED BY <1>1, <3>3 DEF SameRun
    <3>5. run' = CompleteAs(run, {q}, becomes)
      BY <2>4
    <3> HIDE DEF becomes
    <3> QED BY <1>1, <3>4, <3>5, CompleteAsRuns DEF SameRun
  <2> QED BY <1>0, <2>1, <2>2, <2>3, <2>4 DEF CompleteRun, CloseRunMinimally
<1>7. ASSUME NEW q \in RunIds, NEW s \in RunIds, Continues(q, s) PROVE KeepsRun(r)
  <2>1. PICK j \in Jobs : /\ run[s].status = "absent"
                          /\ run' = CreateRun(ClearParkedTask(run, q), s, j, "resumed")
    BY <1>7 DEF Continues
  <2> DEFINE table == ClearParkedTask(run, q)
  <2>2. /\ table \in [RunIds -> RunRecord] /\ SameRun(table[r], run[r])
        /\ table[r].status = run[r].status
    BY <1>1 DEF ClearParkedTask, RunRecord, Asks, SameRun
  <2> HIDE DEF table
  <2>3. run'[r] = table[r]
    BY <2>1, <2>2 DEF CreateRun, table
  <2> QED BY <1>0, <2>2, <2>3
<1>8. CASE run' = run
  BY <1>0, <1>8 DEF SameRun
<1> QED BY <1>2, <1>3, <1>4, <1>5, <1>6, <1>7, <1>8 DEF RunStep, RunRewrite

LEMMA FailedIsFinite == \A j \in Jobs : IsFiniteSet(FailedOf(j)) /\ Cardinality(FailedOf(j)) \in Nat
<1>1. IsFiniteSet(RunIds)
  BY FS_Interval, MaxRunsAssumption DEF RunIds
<1> QED BY <1>1, FS_Subset, FS_CardinalityType DEF FailedOf

LEMMA CountGrows ==
  ASSUME NEW j \in Jobs, FailedOf(j) \subseteq FailedOf(j)'
  PROVE  Cardinality(FailedOf(j)) <= Cardinality(FailedOf(j)')
<1>1. IsFiniteSet(FailedOf(j)')
  <2>1. IsFiniteSet(RunIds)
    BY FS_Interval, MaxRunsAssumption DEF RunIds
  <2> QED BY <2>1, FS_Subset DEF FailedOf
<1> QED BY <1>1, FS_Subset

\* Only a run that failed adds to the counter, and only one that takes it to the
\* limit pauses the job.
LEMMA FinalizeCounts ==
  ASSUME NEW s \in SoundRow, NEW o \in OutcomeRecord, NEW trigger \in Triggers,
         NEW snap \in Snapshots, NEW destroy \in BOOLEAN, o.code # "auto_paused"
  PROVE  LET t == FinalizeRow(s, o, trigger, snap, destroy)
             failed == o.counts /\ o.status = "failed"
         IN /\ t.fails \in {0, s.fails} \/ (failed /\ t.fails = s.fails + 1)
            /\ t.code = "auto_paused" => s.code = "auto_paused" \/ (failed /\ s.fails + 1 >= MaxFailures)
<1> DEFINE leave  == LeavesSchedule(trigger)
           broken == o.badTimezone /\ snap.kind = "recurring" /\ ~leave
           plans  == IF leave \/ broken THEN {} ELSE ComputeNextRun(snap)
           code   == StopGiven(s, IF broken /\ o.code = "none" THEN "invalid_timezone" ELSE o.code)
           fired  == IF destroy /\ o.status = "success"
                     THEN DisableSubscription(s, "condition_met_once") ELSE s
           held   == IF ~o.counts /\ code # "none"
                     THEN DisableSubscription(fired, code) ELSE fired
           status == IF o.counts THEN o.status ELSE "interrupted"
           retry  == o.status = "interrupted" /\ EarnsRetry(trigger)
           t      == CompleteJob(held, status, plans, retry, code, leave)
           failed == o.counts /\ o.status = "failed"
<1>1. s \in SubscriptionRow /\ s.fails \in Nat
  BY DEF SoundRow, SubscriptionRow
<1>2. code # "auto_paused" /\ code \in Codes
  BY DEF StopGiven, OutcomeRecord, Codes
<1>3. /\ fired \in SubscriptionRow /\ fired.fails = s.fails
      /\ fired.code = "auto_paused" => s.code = "auto_paused"
  BY <1>1 DEF DisableSubscription, SubscriptionRow, Codes
<1>4. /\ held \in SubscriptionRow /\ held.fails = s.fails
      /\ held.code = "auto_paused" => s.code = "auto_paused"
  <2> HIDE DEF fired, code
  <2> QED BY <1>2, <1>3 DEF DisableSubscription, SubscriptionRow
<1>5. status = "failed" => failed
  OBVIOUS
<1> HIDE DEF leave, plans, code, fired, held, status, retry, failed
<1>6. t.fails = FailsAfter(held.fails, status)
  BY <1>4 DEF CompleteJob, SubscriptionRow
<1>7. t.fails \in {0, s.fails} \/ (failed /\ t.fails = s.fails + 1)
  BY <1>4, <1>5, <1>6 DEF FailsAfter
<1>8. AutoPauses(held, status) => failed /\ s.fails + 1 >= MaxFailures
  BY <1>1, <1>4, <1>5 DEF AutoPauses, FailsAfter
<1>9. t.code \in {"auto_paused", code, held.code} /\ (t.code = "auto_paused" =>
        AutoPauses(held, status) \/ held.code = "auto_paused")
  BY <1>2, <1>4 DEF CompleteJob, SubscriptionRow
<1>10. t = FinalizeRow(s, o, trigger, snap, destroy)
  BY DEF FinalizeRow, leave, plans, code, fired, held, status, retry
<1> HIDE DEF t
<1> QED BY <1>4, <1>7, <1>8, <1>9, <1>10 DEF failed

\* No other statement counts a failure or pauses a job for its failures.
CountsNothing(s, t) == /\ t.fails \in {0, s.fails}
                       /\ t.code = "auto_paused" => s.code = "auto_paused"

LEMMA OthersCountNothing ==
  ASSUME NEW s \in SoundRow, NEW t, Becomes(s, t) PROVE CountsNothing(s, t)
<1> USE DEF CountsNothing, SoundRow, SubscriptionRow
<1>1. CASE t = s \/ t = ClaimRow(s) \/ t = [s EXCEPT !.retry = "due"]
  BY <1>1 DEF ClaimRow
<1>2. CASE t = PauseRow(s) \/ t = WithdrawRow(s) \/ t = DisableIfEnabled(s, "unreachable")
  BY <1>2 DEF PauseRow, WithdrawRow, DisableIfEnabled, DisableSubscription
<1>3. CASE t = UnsuspendRow(s)
  BY <1>3 DEF UnsuspendRow, Recomputed
<1>4. CASE \E kind \in Kinds : \E when \in Moments(kind) :
             t = EditRow(s, kind, when) \/ t = AdoptRow(s, kind, when)
  BY <1>4 DEF EditRow, AdoptRow, DisableSubscription
<1> HIDE DEF CountsNothing
<1> QED BY <1>1, <1>2, <1>3, <1>4 DEF Becomes

LEMMA SwitchesCountNothing ==
  ASSUME IInv, NEW j \in Jobs, SwitchesOn(j) PROVE CountsNothing(sub[j], sub'[j])
<1> DEFINE s == sub[j]
<1> USE DEF CountsNothing, SoundRow, SubscriptionRow
<1>1. s \in SoundRow
  BY DEF IInv, TablesOK
<1> HIDE DEF s
<1>2. CountsNothing(s, [s EXCEPT !.next = "due"])
  BY <1>1
<1>3. CountsNothing(s, ResumeRow(s))
  BY <1>1 DEF ResumeRow, Recomputed
<1>4. \A on \in BOOLEAN : CountsNothing(s, ToggleRow(s, on))
  BY <1>1 DEF ToggleRow
<1>5. \A t \in RestoredRows(s) : CountsNothing(s, t)
  BY <1>1 DEF RestoredRows, Recomputed, DisableSubscription
<1>6. \A c \in {"elapsed", "sign_in", "unreachable"} : CountsNothing(s, RecodeStop(s, c))
  BY <1>1 DEF RecodeStop
<1>7. CountsNothing(s, s)
  OBVIOUS
<1> HIDE DEF CountsNothing
<1>8. \A passed : \A t \in ReleasedRows(s, passed) : CountsNothing(s, t)
  BY <1>3, <1>6, <1>7 DEF ReleasedRows
<1> QED BY <1>2, <1>3, <1>4, <1>5, <1>8 DEF SwitchesOn, s

\* What a step makes of the dispatches in memory.
TaskStep ==
  \/ tasks' \subseteq tasks
  \/ \E t \in tasks, u \in SoundTask : /\ tasks' = Replace(t, u) /\ u.run = t.run
                                       /\ Unrecorded(u) => Unrecorded(t)
  \/ \E u \in SoundTask : /\ tasks' = tasks \cup {u}
                          /\ run[u.run].status = "absent" /\ run'[u.run].status = "running"
                          /\ run'[u.run].beat = "fresh"

LEMMA CreatedRun ==
  ASSUME NEW table \in RunTable, NEW r \in RunIds, NEW j, NEW trigger
  PROVE  /\ CreateRun(table, r, j, trigger)[r].status = "running"
         /\ CreateRun(table, r, j, trigger)[r].beat = "fresh"
BY DEF CreateRun, AbsentRun, RunTable

LEMMA EveryTaskStep == ASSUME IInv, [Next]_vars PROVE TaskStep
<1>1. tasks \subseteq SoundTask /\ run \in RunTable
  BY DEF IInv, MemoryOK, TablesOK
<1>2. CASE tasks' = tasks
  BY <1>2 DEF TaskStep
<1>3. ASSUME NEW p \in Procs, Tick(p) \/ Crash(p) \/ Start(p) PROVE TaskStep
  BY <1>3 DEF Tick, HealStuckRuns, DeliverDueNotices, ClaimDueJobs, EndTick, TickStepFails, Crash,
              Start, TaskStep
<1>4. CASE Dispatch
  <2>1. ASSUME NEW c \in claims, BeginDispatch(c) PROVE TaskStep
    <3>1. PICK r \in RunIds : /\ NextRunId(run, r) /\ run' = CreateRun(run, r, c.job, c.trigger)
                              /\ tasks' = tasks \cup {NewTask(r, c.proc, "dispatching", "full", c.snap)}
      BY <2>1 DEF BeginDispatch
    <3> DEFINE u == NewTask(r, c.proc, "dispatching", "full", c.snap)
    <3>2. u.run = r
      BY DEF NewTask
    <3>3. u \in SoundTask
      BY NewTaskIsTask DEF IInv, MemoryOK, Claim, Stages, Modes
    <3>4. run[r].status = "absent" /\ run'[r].status = "running" /\ run'[r].beat = "fresh"
      BY <1>1, <3>1, CreatedRun DEF NextRunId, Unused
    <3> HIDE DEF u
    <3> QED BY <3>1, <3>2, <3>3, <3>4 DEF TaskStep, u
  <2>2. ASSUME NEW t \in tasks, StartTask(t) PROVE TaskStep
    <3> DEFINE u == [t EXCEPT !.stage = "dispatching"]
    <3>1. u \in SoundTask /\ u.run = t.run /\ Unrecorded(t)
      BY <1>1, <2>2 DEF StartTask, SoundTask, Task, Stages, Unrecorded
    <3> QED BY <2>2, <3>1 DEF StartTask, TaskStep
  <2>3. ASSUME NEW t \in tasks, RecordOutcome(t) PROVE TaskStep
    <3>1. PICK name \in EndingsOf(t.mode, run[t.run].job), bad \in BadTimezones :
            tasks' = Replace(t, [t EXCEPT !.stage = "recording", !.outcome = Ending(name, bad)])
      BY <2>3 DEF RecordOutcome
    <3> DEFINE o == Ending(name, bad)
               u == [t EXCEPT !.stage = "recording", !.outcome = o]
    <3>2. o \in SoundOutcome /\ o \in OutcomeRecord
      BY EndingIsOutcome, SwitchesAssumption DEF SoundOutcome
    <3> HIDE DEF o
    <3>3. u \in SoundTask /\ u.run = t.run /\ ~Unrecorded(u)
      BY <1>1, <3>2 DEF SoundTask, Task, Stages, Unrecorded
    <3> HIDE DEF u
    <3> QED BY <3>1, <3>3 DEF TaskStep, u, o
  <2>4. ASSUME NEW t \in tasks, FinishRun(t) \/ FinishRunFails(t) PROVE TaskStep
    <3> DEFINE u == [t EXCEPT !.stage = "posting"]
    <3>1. u \in SoundTask /\ u.run = t.run /\ ~Unrecorded(u)
      BY <1>1 DEF SoundTask, Task, Stages, Unrecorded
    <3>2. tasks' = Replace(t, u) \/ tasks' = tasks \ {t}
      BY <2>4 DEF FinishRun, FinishRunFails, AfterRecording
    <3> HIDE DEF u
    <3> QED BY <3>1, <3>2 DEF TaskStep
  <2>5. ASSUME NEW t \in tasks, OutcomeNotRecorded(t) \/ PostCheckAsk(t) \/ Heartbeat(t) PROVE TaskStep
    BY <2>5 DEF OutcomeNotRecorded, PostCheckAsk, Heartbeat, memory, TaskStep
  <2>6. ASSUME NEW c \in claims, BeginDispatchFails(c) PROVE TaskStep
    BY <2>6 DEF BeginDispatchFails, TaskStep
  <2> QED BY <1>4, <2>1, <2>2, <2>3, <2>4, <2>5, <2>6 DEF Dispatch
<1>5. CASE Time
  BY <1>2, <1>5 DEF Time, TimePasses, ScheduleComesDue, RetryComesDue, NoticeComesDue,
                    NoticeGetsTooOld, HeartbeatLapses, memory
<1>6. CASE Web
  <2>1. ASSUME NEW c \in Clients, NEW p \in Procs, NEW table \in RunTable, NEW trigger \in Triggers,
               req[c].kind \in {"run_now", "answer"}, \A r \in RunIds : table[r].status = run[r].status,
               QueueRun(c, p, table, trigger)
        PROVE  TaskStep
    <3>1. PICK r \in RunIds : /\ NextRunId(run, r) /\ run' = CreateRun(table, r, req[c].job, trigger)
                              /\ tasks' = tasks \cup {NewTask(r, p, "queued", req[c].mode, req[c].snap)}
      BY <2>1 DEF QueueRun
    <3>2. req[c].mode \in Modes /\ req[c].snap \in Snapshots
      BY <2>1 DEF IInv, WebOK, SoundRequest, Request, IdleRequest
    <3> DEFINE u == NewTask(r, p, "queued", req[c].mode, req[c].snap)
    <3>3. u.run = r
      BY DEF NewTask
    <3>4. u \in SoundTask
      BY <3>2, NewTaskIsTask DEF Stages
    <3>5. run[r].status = "absent" /\ run'[r].status = "running" /\ run'[r].beat = "fresh"
      BY <2>1, <3>1, CreatedRun DEF NextRunId, Unused
    <3> HIDE DEF u
    <3> QED BY <3>1, <3>3, <3>4, <3>5 DEF TaskStep, u
  <2>2. ASSUME NEW c \in Clients, NEW p \in Procs, RunJobNow(c, p) PROVE TaskStep
    BY <1>1, <2>1, <2>2 DEF RunJobNow, Triggers
  <2>3. ASSUME NEW c \in Clients, NEW p \in Procs, AnswerParkedRun(c, p) PROVE TaskStep
    <3>1. req[c].run \in RunIds
      BY <2>3 DEF AnswerParkedRun, IInv, WebOK, SoundRequest, IdleRequest
    <3>2. ClearParkedTask(run, req[c].run) \in RunTable
      BY <1>1, <3>1, ClearParkedSound
    <3>3. \A r \in RunIds : ClearParkedTask(run, req[c].run)[r].status = run[r].status
      BY <1>1 DEF ClearParkedTask, RunTable, SoundRun, RunRecord
    <3> QED BY <2>1, <2>3, <3>2, <3>3 DEF AnswerParkedRun, Triggers
  <2>4. ASSUME NEW c \in Clients,
               \/ RefuseAnswer(c) \/ \E j \in Jobs : RequestRunNow(c, j)
               \/ \E r \in RunIds, approved \in BOOLEAN : RequestAnswer(c, r, approved)
        PROVE  TaskStep
    BY <1>2, <2>4 DEF RefuseAnswer, RequestRunNow, RequestAnswer, Requested, memory
  <2> QED BY <1>6, <2>2, <2>3, <2>4 DEF Web
<1>7. CASE People
  BY <1>2, <1>7 DEF People, Pause, Resume, Toggle, EditTrigger, AdoptTrigger, WithdrawAccess,
                    RestoreAccess, SignIn, BindChannel, ReleaseHeld, Delete, Remove, ReportUndelivered,
                    Suspend, Unsuspend, Decide, Adjust, Write, memory
<1>8. CASE UNCHANGED vars
  BY <1>2, <1>8 DEF vars, memory
<1> QED BY <1>3, <1>4, <1>5, <1>6, <1>7, <1>8 DEF Next

LEMMA RecordTask ==
  ASSUME IInv, OneTaskPerRun, NEW t \in tasks, RecordOutcome(t)
  PROVE  /\ advanced[t.run] = "none" /\ run' = run
         /\ \E u : /\ u.run = t.run /\ ~Unrecorded(u) /\ tasks' = Replace(t, u)
<1>1. Unrecorded(t)
  BY DEF RecordOutcome, Ready, Unrecorded
<1>2. PICK o : tasks' = Replace(t, [t EXCEPT !.stage = "recording", !.outcome = o])
  BY DEF RecordOutcome
<1> DEFINE u == [t EXCEPT !.stage = "recording", !.outcome = o]
<1>3. u.run = t.run /\ ~Unrecorded(u)
  BY DEF IInv, MemoryOK, SoundTask, Task, Unrecorded
<1>4. advanced[t.run] = "none" /\ run' = run
  BY <1>1 DEF OneTaskPerRun, RecordOutcome
<1> HIDE DEF u
<1> QED BY <1>2, <1>3, <1>4 DEF u

LEMMA OneTaskStep == ASSUME IInv, OneTaskPerRun, [Next]_vars PROVE OneTaskPerRun'
<1>1. KeepsRuns
  BY EveryRunStep, StepKeepsRuns DEF IInv, TablesOK
<1>2. \A t \in tasks : t.run \in RunIds
  BY DEF IInv, MemoryOK, SoundTask, Task
<1>3. CASE \E t \in tasks : RecordOutcome(t)
  <2>1. PICK t \in tasks : RecordOutcome(t)
    BY <1>3
  <2>2. PICK u : u.run = t.run /\ ~Unrecorded(u) /\ tasks' = Replace(t, u)
    BY <2>1, RecordTask
  <2>3. run' = run /\ \A r \in RunIds \ {t.run} : advanced'[r] = advanced[r]
    BY <2>1, RecordTask, RecordOf
  <2>4. \A r \in RunIds : run'[r].status = "absent" => advanced'[r] = "none"
    BY <2>3 DEF OneTaskPerRun
  <2>5. \A v \in tasks' : v = u \/ (v \in tasks /\ v # t)
    BY <2>2 DEF Replace
  <2>6. \A v \in tasks' : run'[v.run].status # "absent" /\ (Unrecorded(v) => advanced'[v.run] = "none")
    BY <1>2, <2>2, <2>3, <2>5 DEF OneTaskPerRun
  <2>7. \A v, w \in tasks' : v.run = w.run => v = w
    BY <2>2, <2>5 DEF OneTaskPerRun
  <2> QED BY <2>4, <2>6, <2>7 DEF OneTaskPerRun
<1>4. CASE advanced' = advanced
  <2>1. \A r \in RunIds : run'[r].status = "absent" => advanced'[r] = "none"
    BY <1>1, <1>4 DEF KeepsRuns, KeepsRun, OneTaskPerRun
  <2>2. \A t \in tasks : run'[t.run].status # "absent"
    BY <1>1, <1>2 DEF KeepsRuns, KeepsRun, OneTaskPerRun
  <2>3. CASE tasks' \subseteq tasks
    BY <1>4, <2>1, <2>2, <2>3 DEF OneTaskPerRun
  <2>4. ASSUME NEW t \in tasks, NEW u \in SoundTask, tasks' = Replace(t, u), u.run = t.run,
               Unrecorded(u) => Unrecorded(t)
        PROVE  OneTaskPerRun'
    <3>1. \A v \in tasks' : v = u \/ (v \in tasks /\ v # t)
      BY <2>4 DEF Replace
    <3>2. \A v \in tasks' : run'[v.run].status # "absent" /\ (Unrecorded(v) => advanced'[v.run] = "none")
      BY <1>4, <2>2, <2>4, <3>1 DEF OneTaskPerRun
    <3>3. \A v, w \in tasks' : v.run = w.run => v = w
      BY <2>4, <3>1 DEF OneTaskPerRun
    <3> QED BY <2>1, <3>2, <3>3 DEF OneTaskPerRun
  <2>5. ASSUME NEW u \in SoundTask, tasks' = tasks \cup {u}, run[u.run].status = "absent",
               run'[u.run].status # "absent"
        PROVE  OneTaskPerRun'
    <3>1. u.run \in RunIds /\ \A t \in tasks : t.run # u.run
      BY <2>5 DEF OneTaskPerRun, SoundTask, Task
    <3>2. advanced'[u.run] = "none"
      BY <1>4, <2>5, <3>1 DEF OneTaskPerRun
    <3>3. \A v \in tasks' : run'[v.run].status # "absent" /\ (Unrecorded(v) => advanced'[v.run] = "none")
      BY <1>4, <2>2, <2>5, <3>2 DEF OneTaskPerRun
    <3>4. \A v, w \in tasks' : v.run = w.run => v = w
      BY <2>5, <3>1 DEF OneTaskPerRun
    <3> QED BY <2>1, <3>3, <3>4 DEF OneTaskPerRun
  <2> QED BY <2>3, <2>4, <2>5, EveryTaskStep DEF TaskStep
<1> QED BY <1>3, <1>4, OutcomesAreRecorded

\* The step that records an outcome: the counter moves together with the history.
LEMMA RecordCounts ==
  ASSUME IInv, PauseInv, NEW t \in tasks, RecordOutcome(t) PROVE (FailsAreRuns /\ AutoPauseIsEarned)'
<1>0. PICK j \in Jobs : j = run[t.run].job
  BY RecordOf
<1>1. /\ t.run \in RunIds /\ run[t.run].trigger \in Triggers /\ t.snap \in Snapshots
      /\ \A r \in RunIds \ {t.run} : advanced'[r] = advanced[r]
  BY <1>0, RecordOf
<1>2. run' = run /\ advanced[t.run] = "none"
  BY RecordTask DEF PauseInv
<1>3. PICK o \in OutcomeRecord, destroy \in BOOLEAN :
        /\ o.code # "auto_paused"
        /\ advanced'[t.run] = IF o.counts THEN o.status ELSE "uncounted"
        /\ sub' = [sub EXCEPT ![j] = FinalizeRow(sub[j], o, run[t.run].trigger, t.snap, destroy)]
  BY <1>0, RecordOf
<1> DEFINE row == FinalizeRow(sub[j], o, run[t.run].trigger, t.snap, destroy)
           failed == o.counts /\ o.status = "failed"
<1>4. sub \in [Jobs -> SoundRow] /\ MaxFailures \in Nat
  BY MaxFailuresAssumption DEF IInv, TablesOK
<1>5. sub[j] \in SoundRow /\ sub[j].fails \in Nat
  BY <1>1, <1>4 DEF SoundRow, SubscriptionRow
<1>6. /\ row.fails \in {0, sub[j].fails} \/ (failed /\ row.fails = sub[j].fails + 1)
      /\ row.code = "auto_paused" => sub[j].code = "auto_paused" \/ (failed /\ sub[j].fails + 1 >= MaxFailures)
  <2> QED BY <1>1, <1>3, <1>5, FinalizeCounts
<1>7. sub'[j] = row /\ \A i \in Jobs \ {j} : sub'[i] = sub[i]
  <2> HIDE DEF row
  <2>1. sub' = [sub EXCEPT ![j] = row]
    BY <1>3 DEF row
  <2> QED BY <1>1, <1>4, <2>1
<1> HIDE DEF row
<1>8. \A i \in Jobs \ {j} : FailedOf(i)' = FailedOf(i)
  BY <1>0, <1>1, <1>2 DEF FailedOf
<1>9. FailedOf(j)' = IF failed THEN FailedOf(j) \cup {t.run} ELSE FailedOf(j)
  <2>1. (advanced'[t.run] = "failed") = failed
    BY <1>3
  <2> HIDE DEF failed
  <2> QED BY <1>0, <1>1, <1>2, <2>1 DEF FailedOf
<1>10. t.run \notin FailedOf(j)
  BY <1>2 DEF FailedOf
<1>11. IsFiniteSet(FailedOf(j)) /\ Cardinality(FailedOf(j)) \in Nat
  BY <1>1, FailedIsFinite
<1>12. Cardinality(FailedOf(j)') = Cardinality(FailedOf(j)) + (IF failed THEN 1 ELSE 0)
  <2> HIDE DEF failed
  <2>1. Cardinality(FailedOf(j) \cup {t.run}) = Cardinality(FailedOf(j)) + 1
    BY <1>10, <1>11, FS_AddElement
  <2> QED BY <1>9, <1>11, <2>1
<1>13. sub[j].fails <= Cardinality(FailedOf(j)) /\ (sub[j].code = "auto_paused" =>
         Cardinality(FailedOf(j)) >= MaxFailures)
  BY <1>1 DEF PauseInv, FailsAreRuns, AutoPauseIsEarned, FailedOf
<1>14. /\ sub'[j].fails <= Cardinality(FailedOf(j)')
       /\ sub'[j].code = "auto_paused" => Cardinality(FailedOf(j)') >= MaxFailures
  <2> DEFINE n == Cardinality(FailedOf(j))
             m == Cardinality(FailedOf(j)')
  <2>1. n \in Nat /\ m = n + (IF failed THEN 1 ELSE 0) /\ sub[j].fails <= n
          /\ (sub[j].code = "auto_paused" => n >= MaxFailures)
    BY <1>11, <1>12, <1>13
  <2> HIDE DEF n, m, failed
  <2>2. sub'[j].fails <= m
    BY <1>5, <1>6, <1>7, <2>1
  <2>3. sub'[j].code = "auto_paused" => m >= MaxFailures
    BY <1>4, <1>5, <1>6, <1>7, <2>1
  <2> QED BY <2>2, <2>3 DEF m
<1>15. \A i \in Jobs \ {j} : /\ sub'[i].fails <= Cardinality(FailedOf(i)')
                             /\ sub'[i].code = "auto_paused" => Cardinality(FailedOf(i)') >= MaxFailures
  BY <1>7, <1>8 DEF PauseInv, FailsAreRuns, AutoPauseIsEarned, FailedOf
<1>16. ASSUME NEW i \in Jobs
       PROVE  /\ sub'[i].fails <= Cardinality(FailedOf(i)')
              /\ sub'[i].code = "auto_paused" => Cardinality(FailedOf(i)') >= MaxFailures
  BY <1>14, <1>15
<1> HIDE DEF failed
<1> QED BY <1>16 DEF FailsAreRuns, AutoPauseIsEarned, FailedOf

\* Every other step leaves the counters where they are or clears them.
LEMMA OthersKeepCount ==
  ASSUME IInv, PauseInv, [Next]_vars, advanced' = advanced, OtherWrites
  PROVE  (FailsAreRuns /\ AutoPauseIsEarned)'
<1>1. KeepsRuns
  BY EveryRunStep, StepKeepsRuns DEF IInv, TablesOK
<1>2. \A j \in Jobs : FailedOf(j) \subseteq FailedOf(j)'
  BY <1>1 DEF PauseInv, OneTaskPerRun, KeepsRuns, KeepsRun, FailedOf
<1>3. ASSUME NEW j \in Jobs
      PROVE  /\ sub'[j].fails <= Cardinality(FailedOf(j)')
             /\ sub'[j].code = "auto_paused" => Cardinality(FailedOf(j)') >= MaxFailures
  <2>1. sub[j] \in SoundRow /\ sub[j].fails \in Nat /\ MaxFailures \in Nat
    BY MaxFailuresAssumption DEF IInv, TablesOK, SoundRow, SubscriptionRow
  <2>2. sub'[j].fails \in {0, sub[j].fails} /\ (sub'[j].code = "auto_paused" => sub[j].code = "auto_paused")
    BY <2>1, OthersCountNothing, SwitchesCountNothing, EarnsOnly DEF OtherWrites, Earns, CountsNothing
  <2> DEFINE n == Cardinality(FailedOf(j))
             m == Cardinality(FailedOf(j)')
  <2>3. n <= m /\ n \in Nat
    BY <1>2, CountGrows, FailedIsFinite
  <2>4. m \in Nat
    <3>1. IsFiniteSet(FailedOf(j)')
      <4>1. IsFiniteSet(RunIds)
        BY FS_Interval, MaxRunsAssumption DEF RunIds
      <4> QED BY <4>1, FS_Subset DEF FailedOf
    <3> QED BY <3>1, FS_CardinalityType
  <2>5. sub[j].fails <= n /\ (sub[j].code = "auto_paused" => n >= MaxFailures)
    BY DEF PauseInv, FailsAreRuns, AutoPauseIsEarned, FailedOf
  <2> HIDE DEF n, m
  <2>6. sub'[j].fails <= m /\ (sub'[j].code = "auto_paused" => m >= MaxFailures)
    BY <2>1, <2>2, <2>3, <2>4, <2>5
  <2> QED BY <2>6 DEF m
<1> QED BY <1>3 DEF FailsAreRuns, AutoPauseIsEarned, FailedOf

LEMMA InitPauseInv == Init => PauseInv
<1> SUFFICES ASSUME Init PROVE PauseInv
  OBVIOUS
<1>1. \A j \in Jobs : sub[j].fails = 0 /\ sub[j].code = "none"
  BY DEF Init, NewSubscription
<1>2. OneTaskPerRun
  BY DEF Init, OneTaskPerRun
<1>3. FailsAreRuns
  BY <1>1, FailedIsFinite DEF FailsAreRuns
<1> QED BY <1>1, <1>2, <1>3 DEF PauseInv, AutoPauseIsEarned

LEMMA NextPauseInv == ASSUME IInv, PauseInv, [Next]_vars PROVE PauseInv'
<1>1. OneTaskPerRun'
  BY OneTaskStep DEF PauseInv
<1>2. CASE \E t \in tasks : RecordOutcome(t)
  BY <1>1, <1>2, RecordCounts DEF PauseInv
<1>3. CASE ~\E t \in tasks : RecordOutcome(t)
  <2>1. advanced' = advanced /\ OtherWrites
    BY <1>3, OutcomesAreRecorded, EveryOtherWrite
  <2> QED BY <1>1, <2>1, OthersKeepCount DEF PauseInv
<1> QED BY <1>2, <1>3

\* A job is paused for its failures only after max_failures of its runs really
\* failed, however dispatches, sweeps, restarts and people interleave.
THEOREM AutoPausesAreEarned == Spec => []AutoPauseIsEarned
<1>1. IInv /\ PauseInv /\ [Next]_vars => PauseInv'
  BY NextPauseInv
<1>2. PauseInv => AutoPauseIsEarned
  BY DEF PauseInv
<1> QED BY <1>1, <1>2, InitPauseInv, Invariance, PTL DEF Spec

-----------------------------------------------------------------------------
(* What the schedule claims *)

\* Only the claim adds to the claims.
LEMMA NewClaims ==
  ASSUME [Next]_vars PROVE claims' \subseteq claims \/ \E p \in Procs : ClaimDueJobs(p)
<1>1. ASSUME NEW p \in Procs, Tick(p) \/ Crash(p) \/ Start(p), ~ClaimDueJobs(p)
      PROVE  claims' \subseteq claims
  BY <1>1 DEF Tick, HealStuckRuns, DeliverDueNotices, EndTick, TickStepFails, Crash, Start
<1>2. CASE Dispatch
  BY <1>2 DEF Dispatch, BeginDispatch, BeginDispatchFails, StartTask, RecordOutcome, OutcomeNotRecorded,
              FinishRun, FinishRunFails, PostCheckAsk, Heartbeat, memory
<1>3. CASE Time
  BY <1>3 DEF Time, TimePasses, ScheduleComesDue, RetryComesDue, NoticeComesDue, NoticeGetsTooOld,
              HeartbeatLapses, memory
<1>4. CASE Web
  BY <1>4 DEF Web, RequestRunNow, RequestAnswer, Requested, RunJobNow, AnswerParkedRun, QueueRun,
              RefuseAnswer, memory
<1>5. CASE People
  BY <1>5 DEF People, Pause, Resume, Toggle, EditTrigger, AdoptTrigger, WithdrawAccess,
              RestoreAccess, SignIn, BindChannel, ReleaseHeld, Delete, Remove, ReportUndelivered,
              Suspend, Unsuspend, Decide, Adjust, Write, memory
<1>6. CASE UNCHANGED vars
  BY <1>6 DEF vars, memory
<1> QED BY <1>1, <1>2, <1>3, <1>4, <1>5, <1>6 DEF Next

\* A claim is made of a job that is due, and carries its trigger.
LEMMA ClaimOf ==
  ASSUME IInv, NEW p \in Procs, ClaimDueJobs(p), NEW c \in claims', c \notin claims
  PROVE  /\ c.job \in Jobs /\ Claimable(c.job) /\ c.proc = p
         /\ c.snap = Snapshot(sub[c.job])
         /\ c.trigger = IF RetryDue(sub[c.job]) THEN "retry" ELSE "scheduled"
         /\ c = [proc |-> p, job |-> c.job, snap |-> Snapshot(sub[c.job]),
                 trigger |-> IF RetryDue(sub[c.job]) THEN "retry" ELSE "scheduled"]
<1> DEFINE claim(j) == [proc |-> p, job |-> j, snap |-> Snapshot(sub[j]),
                        trigger |-> IF RetryDue(sub[j]) THEN "retry" ELSE "scheduled"]
<1>1. PICK j \in Jobs : Claimable(j) /\ c = claim(j)
  BY DEF ClaimDueJobs
<1>2. c.job = j /\ c.proc = p /\ c.snap = Snapshot(sub[j])
        /\ c.trigger = IF RetryDue(sub[j]) THEN "retry" ELSE "scheduled"
  BY <1>1
<1> QED BY <1>1, <1>2

-----------------------------------------------------------------------------
(* Switched off by its subscriber.  A job that was withdrawn and restored, or *)
(* released from a hold, is switched on without its subscriber: the theorem  *)
(* is about the schedule, the runs, the owner's edits and the clock.         *)

NobodyReleases == Ops \cap {"share", "sign_in", "bind"} = {}

\* A job its subscriber switched off carries a stop.
StopsStand == releasing = {} /\ \A j \in Jobs : ~chosen[j] => sub[j].code # "none"

\* Who decides whether the subscriber wants the job.
LEMMA ChosenStep ==
  ASSUME IInv, [Next]_vars
  PROVE  \A j \in Jobs : \/ chosen'[j] = chosen[j]
                         \/ Pause(j) /\ sub'[j].code = "by_user"
                         \/ Resume(j) /\ chosen'[j]
                         \/ \E on \in BOOLEAN : /\ Toggle(j, on) /\ chosen'[j] = on
                                                /\ sub'[j] = ToggleRow(sub[j], on)
<1>1. chosen \in [Jobs -> BOOLEAN] /\ sub \in [Jobs -> SoundRow]
  BY DEF IInv, HistoryOK, TablesOK
<1>2. CASE chosen' = chosen
  BY <1>2
<1>3. ASSUME NEW p \in Procs, Tick(p) \/ Crash(p) \/ Start(p) PROVE chosen' = chosen
  BY <1>3 DEF Tick, HealStuckRuns, DeliverDueNotices, ClaimDueJobs, EndTick, TickStepFails, Crash,
              Start, history
<1>4. CASE Dispatch
  BY <1>2, <1>4 DEF Dispatch, BeginDispatch, BeginDispatchFails, StartTask, RecordOutcome,
                    OutcomeNotRecorded, FinishRun, FinishRunFails, PostCheckAsk, Heartbeat, history
<1>5. CASE Time
  BY <1>2, <1>5 DEF Time, TimePasses, ScheduleComesDue, RetryComesDue, NoticeComesDue,
                    NoticeGetsTooOld, HeartbeatLapses, history
<1>6. CASE Web
  BY <1>2, <1>6 DEF Web, RequestRunNow, RequestAnswer, Requested, RunJobNow, AnswerParkedRun, QueueRun,
                    RefuseAnswer, history
<1>7. CASE People
  <2>1. ASSUME NEW j \in Jobs, NEW on, NEW row, Decide(j, on, row)
        PROVE  /\ chosen'[j] = on /\ sub'[j] = row
               /\ \A i \in Jobs \ {j} : chosen'[i] = chosen[i]
    BY <1>1, <2>1 DEF Decide, Write
  <2>2. ASSUME NEW j \in Jobs, Pause(j)
        PROVE  sub'[j].code = "by_user" /\ \A i \in Jobs \ {j} : chosen'[i] = chosen[i]
    <3>1. sub'[j] = PauseRow(sub[j])
      BY <2>1, <2>2 DEF Pause
    <3>2. PauseRow(sub[j]).code = "by_user"
      BY <1>1 DEF PauseRow, DisableSubscription, SoundRow, SubscriptionRow
    <3> QED BY <2>1, <2>2, <3>1, <3>2 DEF Pause
  <2>3. ASSUME NEW j \in Jobs, Resume(j)
        PROVE  chosen'[j] /\ \A i \in Jobs \ {j} : chosen'[i] = chosen[i]
    BY <2>1, <2>3 DEF Resume
  <2>4. ASSUME NEW j \in Jobs, NEW on \in BOOLEAN, Toggle(j, on)
        PROVE  /\ chosen'[j] = on /\ sub'[j] = ToggleRow(sub[j], on)
               /\ \A i \in Jobs \ {j} : chosen'[i] = chosen[i]
    BY <2>1, <2>4 DEF Toggle
  <2>5. ASSUME NEW j \in Jobs,
               \/ \E kind \in Kinds : EditTrigger(j, kind) \/ AdoptTrigger(j, kind)
               \/ WithdrawAccess(j) \/ RestoreAccess(j) \/ SignIn(j) \/ BindChannel(j) \/ Delete(j)
        PROVE  chosen' = chosen
    BY <2>5 DEF EditTrigger, AdoptTrigger, WithdrawAccess, RestoreAccess, SignIn, BindChannel, Delete,
                Remove, Adjust, history
  <2>6. ASSUME \/ \E h \in releasing : ReleaseHeld(h)
               \/ \E r \in RunIds, b \in BOOLEAN : ReportUndelivered(r, b)
               \/ Suspend \/ Unsuspend
        PROVE  chosen' = chosen
    BY <2>6 DEF ReleaseHeld, ReportUndelivered, Suspend, Unsuspend, history
  <2>7. ASSUME NEW j \in Jobs, Pause(j)
        PROVE  \A i \in Jobs : chosen'[i] = chosen[i] \/ (Pause(i) /\ sub'[i].code = "by_user")
    BY <2>2, <2>7
  <2>8. ASSUME NEW j \in Jobs, Resume(j)
        PROVE  \A i \in Jobs : chosen'[i] = chosen[i] \/ (Resume(i) /\ chosen'[i])
    BY <2>3, <2>8
  <2>9. ASSUME NEW j \in Jobs, NEW on \in BOOLEAN, Toggle(j, on)
        PROVE  \A i \in Jobs : \/ chosen'[i] = chosen[i]
                               \/ \E b \in BOOLEAN : /\ Toggle(i, b) /\ chosen'[i] = b
                                                     /\ sub'[i] = ToggleRow(sub[i], b)
    BY <2>4, <2>9
  <2> QED BY <1>2, <1>7, <2>5, <2>6, <2>7, <2>8, <2>9 DEF People
<1>8. CASE UNCHANGED vars
  BY <1>2, <1>8 DEF vars, history
<1> QED BY <1>2, <1>3, <1>4, <1>5, <1>6, <1>7, <1>8 DEF Next

\* A statement that switches nothing on leaves a stop in place.
LEMMA BecomesKeepsStop ==
  ASSUME NEW s \in SoundRow, NEW t, Becomes(s, t), s.code # "none" PROVE t.code # "none"
<1> USE DEF SoundRow, SubscriptionRow
<1>1. CASE t = s \/ t = ClaimRow(s) \/ t = [s EXCEPT !.retry = "due"]
  BY <1>1 DEF ClaimRow
<1>2. CASE t = PauseRow(s) \/ t = WithdrawRow(s) \/ t = DisableIfEnabled(s, "unreachable")
  BY <1>2 DEF PauseRow, WithdrawRow, DisableIfEnabled, DisableSubscription
<1>3. CASE t = UnsuspendRow(s)
  BY <1>3 DEF UnsuspendRow, Recomputed
<1>4. CASE \E kind \in Kinds : \E when \in Moments(kind) :
             t = EditRow(s, kind, when) \/ t = AdoptRow(s, kind, when)
  BY <1>4 DEF EditRow, AdoptRow, DisableSubscription
<1> QED BY <1>1, <1>2, <1>3, <1>4 DEF Becomes

LEMMA RecordKeepsAStop ==
  ASSUME IInv, NEW t \in tasks, RecordOutcome(t), NEW i \in Jobs, sub[i].code # "none"
  PROVE  sub'[i].code # "none"
<1> DEFINE j == run[t.run].job
<1>1. j \in Jobs /\ run[t.run].trigger \in Triggers /\ t.snap \in Snapshots
  BY RecordOf
<1>2. PICK o \in OutcomeRecord, destroy \in BOOLEAN :
        sub' = [sub EXCEPT ![j] = FinalizeRow(sub[j], o, run[t.run].trigger, t.snap, destroy)]
  BY RecordOf
<1> DEFINE row == FinalizeRow(sub[j], o, run[t.run].trigger, t.snap, destroy)
<1>3. sub \in [Jobs -> SoundRow]
  BY DEF IInv, TablesOK
<1> HIDE DEF j
<1>4. sub[j].code # "none" => row.code # "none"
  BY <1>1, <1>3, FinalizeKeepsStop
<1>5. sub' = [sub EXCEPT ![j] = row]
  BY <1>2
<1> HIDE DEF row
<1> QED BY <1>1, <1>3, <1>4, <1>5

LEMMA ReleasingStays ==
  ASSUME NobodyReleases, [Next]_vars, releasing = {} PROVE releasing' = {}
<1>1. ASSUME NEW p \in Procs, Tick(p) \/ Crash(p) \/ Start(p) PROVE releasing' = {}
  BY <1>1 DEF Tick, HealStuckRuns, DeliverDueNotices, ClaimDueJobs, EndTick, TickStepFails, Crash,
              Start, web
<1>2. CASE Dispatch
  BY <1>2 DEF Dispatch, BeginDispatch, BeginDispatchFails, StartTask, RecordOutcome,
              OutcomeNotRecorded, FinishRun, FinishRunFails, PostCheckAsk, Heartbeat, web
<1>3. CASE Time
  BY <1>3 DEF Time, TimePasses, ScheduleComesDue, RetryComesDue, NoticeComesDue, NoticeGetsTooOld,
              HeartbeatLapses, web
<1>4. CASE Web
  BY <1>4 DEF Web, RequestRunNow, RequestAnswer, Requested, RunJobNow, AnswerParkedRun, QueueRun,
              RefuseAnswer
<1>5. CASE People
  BY <1>5 DEF People, Pause, Resume, Toggle, EditTrigger, AdoptTrigger, WithdrawAccess,
              RestoreAccess, SignIn, BindChannel, ReleaseHeld, Delete, Remove, ReportUndelivered,
              Suspend, Unsuspend, Decide, Adjust, Write, web, Allowed, NobodyReleases
<1>6. CASE UNCHANGED vars
  BY <1>6 DEF vars, web
<1> QED BY <1>1, <1>2, <1>3, <1>4, <1>5, <1>6 DEF Next

LEMMA StopsStandStep ==
  ASSUME NobodyReleases, IInv, StopsStand, [Next]_vars PROVE StopsStand'
<1>1. releasing' = {}
  BY ReleasingStays DEF StopsStand
<1>2. ASSUME NEW j \in Jobs, ~chosen'[j] PROVE sub'[j].code # "none"
  <2>1. sub[j] \in SoundRow
    BY DEF IInv, TablesOK
  <2>2. CASE Pause(j) /\ sub'[j].code = "by_user"
    BY <2>2
  <2>3. ASSUME NEW on \in BOOLEAN, Toggle(j, on), chosen'[j] = on, sub'[j] = ToggleRow(sub[j], on)
        PROVE  sub'[j].code # "none"
    BY <1>2, <2>1, <2>3 DEF ToggleRow, SoundRow, SubscriptionRow
  <2>4. CASE chosen'[j] = chosen[j]
    <3>1. sub[j].code # "none"
      BY <1>2, <2>4 DEF StopsStand
    <3>2. CASE \E t \in tasks : RecordOutcome(t)
      BY <3>1, <3>2, RecordKeepsAStop
    <3>3. CASE Becomes(sub[j], sub'[j])
      BY <2>1, <3>1, <3>3, BecomesKeepsStop
    <3>4. CASE SwitchesOn(j)
      <4>1. CASE sub'[j] = [sub[j] EXCEPT !.next = "due"]
        BY <2>1, <3>1, <4>1 DEF SoundRow, SubscriptionRow
      <4>2. CASE Resume(j)
        <5>1. chosen'[j]
          BY <4>2 DEF Resume, Decide, IInv, HistoryOK
        <5> QED BY <1>2, <5>1
      <4>3. ASSUME NEW on \in BOOLEAN, Toggle(j, on), sub'[j] = ToggleRow(sub[j], on)
            PROVE  sub'[j].code # "none"
        <5>1. chosen'[j] = on
          BY <4>3 DEF Toggle, Decide, IInv, HistoryOK
        <5> QED BY <1>2, <2>1, <4>3, <5>1 DEF ToggleRow, SoundRow, SubscriptionRow
      <4>4. ~RestoreAccess(j) /\ releasing = {}
        BY DEF RestoreAccess, Allowed, NobodyReleases, StopsStand
      <4> QED BY <3>4, <4>1, <4>2, <4>3, <4>4 DEF SwitchesOn
    <3>5. CASE Earns(j)
      BY <2>1, <3>1, <3>5, EarnsOnly DEF Earns
    <3> QED BY <3>2, <3>3, <3>4, <3>5, EveryOtherWrite DEF OtherWrites
  <2> QED BY <1>2, <2>2, <2>3, <2>4, ChosenStep
<1> QED BY <1>1, <1>2 DEF StopsStand

LEMMA DueIsChosen ==
  ASSUME IInv, StopsStand, [Next]_vars, NEW c \in claims' PROVE c \in claims \/ chosen[c.job]
<1> SUFFICES ASSUME c \notin claims PROVE chosen[c.job]
  OBVIOUS
<1>1. PICK p \in Procs : ClaimDueJobs(p)
  BY NewClaims
<1>2. c.job \in Jobs /\ Claimable(c.job)
  BY <1>1, ClaimOf
<1>3. sub[c.job].code = "none"
  BY <1>2 DEF Claimable, DueRow, IInv, TablesOK, SoundRow
<1> QED BY <1>2, <1>3 DEF StopsStand

\* A job its subscriber switched off is not claimed again until they switch it
\* on, whatever its run in flight earns: no outcome, sweep, edit, adoption or
\* suspension lifts the stop or leaves an attempt the claim would take.
THEOREM PausesAreRespected == ASSUME NobodyReleases PROVE Spec => PausedIsNotClaimed
<1>1. IInv /\ StopsStand /\ [Next]_vars => StopsStand'
  BY NobodyReleases, StopsStandStep
<1>2. IInv /\ StopsStand /\ [Next]_vars => [\A c \in claims' : c \in claims \/ chosen[c.job]]_vars
  BY DueIsChosen
<1>3. Init => StopsStand
  BY DEF Init, StopsStand
<1> QED BY <1>1, <1>2, <1>3, Invariance, PTL DEF Spec, PausedIsNotClaimed

-----------------------------------------------------------------------------
(* What came due in a suspension.  Switching a job on through update_job     *)
(* leaves next_run_at as it stands, so the theorem leaves that edit out;     *)
(* resuming a job, or getting it back, computes the occurrence anew.         *)

\* A recurring job whose occurrence the claim would take.
DueAgain(s) == s.enabled /\ s.next = "due" /\ s.kind # "once"

MissedIsMissed == \A j \in Jobs : (Live(j) /\ ~suspended /\ j \in missed) => ~DueAgain(sub[j])

\* No outcome brings an occurrence back.
LEMMA FinalizeArmsNothing ==
  ASSUME NEW s \in SoundRow, NEW o \in OutcomeRecord, NEW trigger \in Triggers,
         NEW snap \in Snapshots, NEW destroy \in BOOLEAN
  PROVE  DueAgain(FinalizeRow(s, o, trigger, snap, destroy)) => DueAgain(s)
<1> DEFINE leave  == LeavesSchedule(trigger)
           broken == o.badTimezone /\ snap.kind = "recurring" /\ ~leave
           plans  == IF leave \/ broken THEN {} ELSE ComputeNextRun(snap)
           code   == StopGiven(s, IF broken /\ o.code = "none" THEN "invalid_timezone" ELSE o.code)
           fired  == IF destroy /\ o.status = "success"
                     THEN DisableSubscription(s, "condition_met_once") ELSE s
           held   == IF ~o.counts /\ code # "none"
                     THEN DisableSubscription(fired, code) ELSE fired
           status == IF o.counts THEN o.status ELSE "interrupted"
           retry  == o.status = "interrupted" /\ EarnsRetry(trigger)
           t      == CompleteJob(held, status, plans, retry, code, leave)
<1>1. s \in SubscriptionRow
  BY DEF SoundRow
<1>2. fired \in SubscriptionRow /\ (DueAgain(fired) => DueAgain(s))
  BY <1>1 DEF DisableSubscription, SubscriptionRow, Codes, DueAgain
<1>3. code \in Codes
  BY DEF StopGiven, OutcomeRecord, Codes
<1>4. held \in SubscriptionRow /\ (DueAgain(held) => DueAgain(fired))
  <2> HIDE DEF fired, code
  <2> QED BY <1>2, <1>3 DEF DisableSubscription, SubscriptionRow, DueAgain
<1> HIDE DEF leave, plans, code, fired, held, status, retry
<1>5. DueAgain(t) => DueAgain(held)
  BY <1>4 DEF CompleteJob, NextAfter, SubscriptionRow, DueAgain
<1>6. t = FinalizeRow(s, o, trigger, snap, destroy)
  BY DEF FinalizeRow, leave, plans, code, fired, held, status, retry
<1> HIDE DEF t
<1> QED BY <1>2, <1>4, <1>5, <1>6

\* Nor does any statement that switches nothing on: a new trigger of a recurring
\* job lies ahead.
LEMMA BecomesArmsNothing ==
  ASSUME NEW s \in SoundRow, NEW t, Becomes(s, t) PROVE DueAgain(t) => DueAgain(s)
<1> USE DEF DueAgain, SoundRow, SubscriptionRow
<1>1. CASE t = s \/ t = ClaimRow(s) \/ t = [s EXCEPT !.retry = "due"]
  BY <1>1 DEF ClaimRow
<1>2. CASE t = PauseRow(s) \/ t = WithdrawRow(s) \/ t = DisableIfEnabled(s, "unreachable")
  BY <1>2 DEF PauseRow, WithdrawRow, DisableIfEnabled, DisableSubscription
<1>3. CASE t = UnsuspendRow(s)
  BY <1>3 DEF UnsuspendRow, Recomputed
<1>4. ASSUME NEW kind \in Kinds, NEW when \in Moments(kind),
             t = EditRow(s, kind, when) \/ t = AdoptRow(s, kind, when)
      PROVE  ~DueAgain(t)
  BY <1>4 DEF EditRow, AdoptRow, DisableSubscription, Moments, Kinds
<1> HIDE DEF DueAgain
<1> QED BY <1>1, <1>2, <1>3, <1>4 DEF Becomes

LEMMA SwitchArmsNothing ==
  ASSUME IInv, "toggle" \notin Ops, NEW j \in Jobs, SwitchesOn(j)
  PROVE  ScheduleComesDue(j) \/ (DueAgain(sub'[j]) => DueAgain(sub[j]))
<1> DEFINE s == sub[j]
<1> USE DEF DueAgain, SoundRow, SubscriptionRow
<1>1. s \in SoundRow
  BY DEF IInv, TablesOK
<1> HIDE DEF s
<1>2. ~DueAgain(ResumeRow(s))
  BY <1>1 DEF ResumeRow, Recomputed
<1>3. ASSUME NEW t \in RestoredRows(s) PROVE ~DueAgain(t)
  <2> DEFINE back == [s EXCEPT !.enabled = TRUE, !.code = "none", !.retry = "none"]
  <2>1. ~DueAgain(Recomputed(back))
    BY <1>1 DEF Recomputed
  <2>2. \A c : ~DueAgain(DisableSubscription(back, c))
    BY <1>1 DEF DisableSubscription
  <2>3. Elapsed(s) => ~DueAgain([s EXCEPT !.code = "elapsed", !.retry = "none"])
    BY <1>1 DEF Elapsed
  <2>4. \/ Elapsed(s) /\ t = [s EXCEPT !.code = "elapsed", !.retry = "none"]
        \/ t = Recomputed(back) \/ \E c : t = DisableSubscription(back, c)
    BY DEF RestoredRows
  <2> HIDE DEF back
  <2> QED BY <2>1, <2>2, <2>3, <2>4
<1>4. \A c \in {"elapsed", "sign_in", "unreachable"} : DueAgain(RecodeStop(s, c)) => DueAgain(s)
  BY <1>1 DEF RecodeStop
<1> HIDE DEF DueAgain
<1>5. \A passed : \A t \in ReleasedRows(s, passed) : DueAgain(t) => DueAgain(s)
  BY <1>2, <1>4 DEF ReleasedRows
<1>6. ASSUME NEW on \in BOOLEAN PROVE ~Toggle(j, on)
  BY DEF Toggle, Allowed
<1> QED BY <1>2, <1>3, <1>5, <1>6 DEF SwitchesOn, s

\* Lifting a suspension leaves no occurrence of a recurring job due.
LEMMA UnsuspendedIsAhead == ASSUME NEW s \in SoundRow PROVE ~DueAgain(UnsuspendRow(s))
BY DEF UnsuspendRow, Recomputed, DueAgain, SoundRow, SubscriptionRow

\* Who touches the definition and the history of what was missed.
LEMMA SuspensionStep ==
  ASSUME [Next]_vars
  PROVE  /\ deleted \subseteq deleted'
         /\ missed' = missed \/ \E j \in Jobs : ScheduleComesDue(j)
         /\ suspended' \/ suspended' = suspended \/ Unsuspend
<1>1. ASSUME NEW p \in Procs, Tick(p) \/ Crash(p) \/ Start(p)
      PROVE  UNCHANGED <<deleted, missed, suspended>>
  BY <1>1 DEF Tick, HealStuckRuns, DeliverDueNotices, ClaimDueJobs, EndTick, TickStepFails, Crash,
              Start, definition, history
<1>2. CASE Dispatch
  BY <1>2 DEF Dispatch, BeginDispatch, BeginDispatchFails, StartTask, RecordOutcome,
              OutcomeNotRecorded, FinishRun, FinishRunFails, PostCheckAsk, Heartbeat, definition, history
<1>3. CASE Time
  BY <1>3 DEF Time, TimePasses, ScheduleComesDue, RetryComesDue, NoticeComesDue, NoticeGetsTooOld,
              HeartbeatLapses, definition, history
<1>4. CASE Web
  BY <1>4 DEF Web, RequestRunNow, RequestAnswer, Requested, RunJobNow, AnswerParkedRun, QueueRun,
              RefuseAnswer, definition, history
<1>5. CASE People
  BY <1>5 DEF People, Pause, Resume, Toggle, EditTrigger, AdoptTrigger, WithdrawAccess,
              RestoreAccess, SignIn, BindChannel, ReleaseHeld, Delete, Remove, ReportUndelivered,
              Suspend, Unsuspend, Decide, Adjust, Write, definition, history
<1>6. CASE UNCHANGED vars
  BY <1>6 DEF vars, definition, history
<1> QED BY <1>1, <1>2, <1>3, <1>4, <1>5, <1>6 DEF Next

LEMMA RecordArmsNothing ==
  ASSUME IInv, NEW t \in tasks, RecordOutcome(t), NEW i \in Jobs
  PROVE  DueAgain(sub'[i]) => DueAgain(sub[i])
<1> DEFINE j == run[t.run].job
<1>1. j \in Jobs /\ run[t.run].trigger \in Triggers /\ t.snap \in Snapshots
  BY RecordOf
<1>2. PICK o \in OutcomeRecord, destroy \in BOOLEAN :
        sub' = [sub EXCEPT ![j] = FinalizeRow(sub[j], o, run[t.run].trigger, t.snap, destroy)]
  BY RecordOf
<1> DEFINE row == FinalizeRow(sub[j], o, run[t.run].trigger, t.snap, destroy)
<1>3. sub \in [Jobs -> SoundRow]
  BY DEF IInv, TablesOK
<1> HIDE DEF j
<1>4. DueAgain(row) => DueAgain(sub[j])
  BY <1>1, <1>3, FinalizeArmsNothing
<1>5. sub' = [sub EXCEPT ![j] = row]
  BY <1>2
<1> HIDE DEF row
<1> QED BY <1>1, <1>3, <1>4, <1>5

LEMMA ComesDueStep ==
  ASSUME IInv, MissedIsMissed, NEW i \in Jobs, ScheduleComesDue(i) PROVE MissedIsMissed'
<1>1. \A j \in Jobs \ {i} : sub'[j] = sub[j]
  BY DEF ScheduleComesDue, IInv, TablesOK
<1>2. suspended' = suspended /\ deleted' = deleted
        /\ missed' = (IF suspended THEN missed \cup {i} ELSE missed \ {i})
  BY DEF ScheduleComesDue, definition
<1> QED BY <1>1, <1>2 DEF MissedIsMissed, Live

LEMMA MissedStep ==
  ASSUME "toggle" \notin Ops, IInv, MissedIsMissed, [Next]_vars PROVE MissedIsMissed'
<1>1. sub \in [Jobs -> SoundRow]
  BY DEF IInv, TablesOK
<1>2. CASE \E j \in Jobs : ScheduleComesDue(j)
  BY <1>2, ComesDueStep
<1>3. CASE Unsuspend
  <2>1. missed' = missed /\ deleted' = deleted
          /\ \A j \in Jobs : Live(j) => sub'[j] = UnsuspendRow(sub[j])
    BY <1>3 DEF Unsuspend, history
  <2> QED BY <1>1, <2>1, UnsuspendedIsAhead DEF MissedIsMissed, Live
<1>4. CASE ~Unsuspend /\ ~\E j \in Jobs : ScheduleComesDue(j)
  <2>1. missed' = missed /\ deleted \subseteq deleted' /\ (suspended' \/ suspended' = suspended)
    BY <1>4, SuspensionStep
  <2>2. ASSUME NEW j \in Jobs PROVE DueAgain(sub'[j]) => DueAgain(sub[j])
    <3>1. CASE \E t \in tasks : RecordOutcome(t)
      BY <3>1, RecordArmsNothing
    <3>2. CASE Becomes(sub[j], sub'[j]) \/ SwitchesOn(j)
      BY <1>1, <1>4, <3>2, BecomesArmsNothing, SwitchArmsNothing
    <3>3. CASE Earns(j)
      BY <1>1, <3>3, EarnsOnly DEF Earns, DueAgain
    <3> QED BY <3>1, <3>2, <3>3, EveryOtherWrite DEF OtherWrites
  <2> QED BY <2>1, <2>2 DEF MissedIsMissed, Live
<1> QED BY <1>2, <1>3, <1>4

LEMMA ClaimMakesUpForNothing ==
  ASSUME IInv, MissedIsMissed, [Next]_vars, NEW c \in claims'
  PROVE  c \in claims \/ c.trigger = "retry" \/ c.snap.kind = "once" \/ c.job \notin missed
<1> SUFFICES ASSUME c \notin claims, c.trigger # "retry" PROVE c.snap.kind = "once" \/ c.job \notin missed
  OBVIOUS
<1>1. PICK p \in Procs : ClaimDueJobs(p)
  BY NewClaims
<1>2. c.job \in Jobs /\ Claimable(c.job) /\ c.snap = Snapshot(sub[c.job]) /\ ~RetryDue(sub[c.job])
  BY <1>1, ClaimOf
<1>3. Live(c.job) /\ ~suspended /\ sub[c.job].enabled /\ sub[c.job].next = "due"
  BY <1>2 DEF Claimable, DueRow
<1>4. c.snap.kind = sub[c.job].kind
  BY <1>2 DEF Snapshot
<1> QED BY <1>2, <1>3, <1>4 DEF MissedIsMissed, DueAgain

\* An occurrence of a recurring job that came due while the definition was
\* suspended is never claimed, also when the job was off when the suspension
\* was lifted and is resumed, restored or released later.
THEOREM NothingMissedIsMadeUpFor == ASSUME "toggle" \notin Ops PROVE Spec => NothingIsMadeUpFor
<1>1. IInv /\ MissedIsMissed /\ [Next]_vars => MissedIsMissed'
  BY MissedStep
<1>2. IInv /\ MissedIsMissed /\ [Next]_vars =>
        [\A c \in claims' : c \in claims \/ c.trigger = "retry" \/ c.snap.kind = "once"
                                         \/ c.job \notin missed]_vars
  BY ClaimMakesUpForNothing
<1>3. Init => MissedIsMissed
  BY DEF Init, MissedIsMissed
<1> QED BY <1>1, <1>2, <1>3, Invariance, PTL DEF Spec, NothingIsMadeUpFor

-----------------------------------------------------------------------------
(* One dispatch at a time.  create_run does not ask whether another run is   *)
(* in progress: the claim does, and its answer is stale when the row is      *)
(* written.  With one process, and no run started by hand, it still holds,   *)
(* because a tick ends only when every claim of it has become a run.         *)

OneProcess == \A p, q \in Procs : p = q

Active(row) == row.status = "running" \/ Answerable(row)

\* A process between two ticks, or dead, holds no claim.
ClaimsAtHome == \A c \in claims : phase[c.proc] = "gather"

\* A request that passed its checks answers a run of the job it names.
AnswersAreAsked ==
  \A c \in Clients : /\ req[c].kind # "run_now"
                     /\ req[c].kind = "answer" => /\ run[req[c].run].status # "absent"
                                                  /\ run[req[c].run].job = req[c].job

RunsExclude   == \A r, s \in RunIds :
                   (Active(run[r]) /\ Active(run[s]) /\ run[r].job = run[s].job) => r = s
ClaimsExclude == \A c \in claims : /\ \A d \in claims : c.job = d.job => c = d
                                   /\ \A r \in RunIds : Active(run[r]) => run[r].job # c.job

OneAtATime == ClaimsAtHome /\ AnswersAreAsked /\ RunsExclude /\ ClaimsExclude

LEMMA ClaimsAtHomeStep == ASSUME IInv, ClaimsAtHome, [Next]_vars PROVE ClaimsAtHome'
<1>1. claims \subseteq Claim /\ phase \in [Procs -> {"down", "heal", "notices", "claim", "gather"}]
  BY DEF IInv, MemoryOK
<1>2. \A c \in claims : c.proc \in Procs
  BY <1>1 DEF Claim
<1>3. ASSUME NEW p \in Procs, ClaimDueJobs(p) PROVE ClaimsAtHome'
  <2>1. phase[p] = "claim"
    BY <1>3 DEF ClaimDueJobs
  <2>2. \A c \in claims : c.proc # p
    BY <2>1 DEF ClaimsAtHome
  <2>3. CASE claims' \subseteq claims
    BY <1>1, <1>2, <1>3, <2>2, <2>3 DEF ClaimDueJobs, ClaimsAtHome
  <2>4. ASSUME NEW c \in claims', c \notin claims PROVE c.proc = p /\ phase'[p] = "gather"
    <3>1. c.proc = p
      BY <1>3, <2>4, ClaimOf
    <3>2. phase'[p] = "gather"
      BY <1>1, <1>3, <2>4 DEF ClaimDueJobs
    <3> QED BY <3>1, <3>2
  <2>5. \A c \in claims : phase'[c.proc] = phase[c.proc]
    BY <1>1, <1>2, <1>3, <2>2 DEF ClaimDueJobs
  <2> QED BY <2>4, <2>5 DEF ClaimsAtHome
<1>4. ASSUME NEW p \in Procs, \/ HealStuckRuns(p) \/ DeliverDueNotices(p) \/ EndTick(p)
                              \/ TickStepFails(p) \/ Start(p) \/ Crash(p)
      PROVE  ClaimsAtHome'
  <2>1. claims' \subseteq claims /\ \A c \in claims' : c.proc # p
    BY <1>4 DEF HealStuckRuns, DeliverDueNotices, EndTick, TickStepFails, Start, Crash, ClaimsAtHome
  <2>2. \A q \in Procs \ {p} : phase'[q] = phase[q]
    BY <1>1, <1>4 DEF HealStuckRuns, DeliverDueNotices, EndTick, TickStepFails, Start, Crash
  <2> QED BY <1>2, <2>1, <2>2 DEF ClaimsAtHome
<1>5. CASE phase' = phase /\ claims' \subseteq claims
  BY <1>5 DEF ClaimsAtHome
<1>6. CASE Dispatch
  BY <1>5, <1>6 DEF Dispatch, BeginDispatch, BeginDispatchFails, StartTask, RecordOutcome,
                    OutcomeNotRecorded, FinishRun, FinishRunFails, PostCheckAsk, Heartbeat, memory
<1>7. CASE Time
  BY <1>5, <1>7 DEF Time, TimePasses, ScheduleComesDue, RetryComesDue, NoticeComesDue,
                    NoticeGetsTooOld, HeartbeatLapses, memory
<1>8. CASE Web
  BY <1>5, <1>8 DEF Web, RequestRunNow, RequestAnswer, Requested, RunJobNow, AnswerParkedRun, QueueRun,
                    RefuseAnswer, memory
<1>9. CASE People
  BY <1>5, <1>9 DEF People, Pause, Resume, Toggle, EditTrigger, AdoptTrigger, WithdrawAccess,
                    RestoreAccess, SignIn, BindChannel, ReleaseHeld, Delete, Remove, ReportUndelivered,
                    Suspend, Unsuspend, Decide, Adjust, Write, memory
<1>10. CASE UNCHANGED vars
  BY <1>5, <1>10 DEF vars, memory
<1> QED BY <1>3, <1>4, <1>6, <1>7, <1>8, <1>9, <1>10 DEF Next, Tick

\* A step that opens no run makes none active.
LEMMA RewriteActive ==
  ASSUME IInv, RunRewrite, NEW r \in RunIds, Active(run'[r])
  PROVE  Active(run[r]) /\ run'[r].job = run[r].job
<1>1. run \in RunTable
  BY DEF IInv, TablesOK
<1>2. Active(run[r])
  <2>1. CASE Same(run'[r], run[r])
    BY <2>1 DEF Same, Active, Answerable
  <2>2. CASE Sweeps
    <3>1. PICK S \in SUBSET RunIds : /\ \A q \in S : run[q].status = "running"
                                     /\ run' = InterruptRuns(run, S)
      BY <2>2 DEF Sweeps
    <3>2. CASE r \in S
      BY <3>1, <3>2 DEF Active
    <3>3. CASE r \notin S
      <4>1. Same(run'[r], run[r])
        BY <1>1, <3>1, <3>3, SweptEntries
      <4> QED BY <2>1, <4>1
    <3> QED BY <3>2, <3>3
  <2>3. CASE Notifies
    BY <1>1, <2>1, <2>3, NotifiedEntries
  <2>4. ASSUME NEW q \in RunIds, Marks(q) PROVE Active(run[r])
    BY <1>1, <2>1, <2>4, MarkedEntries
  <2>5. ASSUME NEW q \in RunIds, Finishes(q) PROVE Active(run[r])
    <3>1. CASE run' = run
      BY <3>1
    <3>2. CASE run[q].status = "running" /\ \A x \in RunIds \ {q} : Same(run'[x], run[x])
      BY <2>1, <3>2 DEF Active
    <3> QED BY <1>1, <2>5, <3>1, <3>2, FinishedEntries
  <2>6. CASE run' = run
    BY <2>6
  <2> QED BY <2>2, <2>3, <2>4, <2>5, <2>6 DEF RunRewrite
<1>3. run[r].status # "absent"
  BY <1>2 DEF Active, Answerable
<1>4. KeepsRuns
  BY <1>1, StepKeepsRuns DEF RunStep
<1> QED BY <1>2, <1>3, <1>4 DEF KeepsRuns, KeepsRun

LEMMA AnswersStep ==
  ASSUME "run_now" \notin Ops, IInv, AnswersAreAsked, [Next]_vars PROVE AnswersAreAsked'
<1>1. KeepsRuns
  BY EveryRunStep, StepKeepsRuns DEF IInv, TablesOK
<1>2. req \in [Clients -> SoundRequest \cup {IdleRequest}]
  BY DEF IInv, WebOK
<1>3. \A c \in Clients : req[c].kind = "answer" => req[c].run \in RunIds
  BY <1>2 DEF SoundRequest, IdleRequest
<1>4. CASE req' = req
  BY <1>1, <1>3, <1>4 DEF KeepsRuns, KeepsRun, AnswersAreAsked
<1>5. ASSUME NEW c \in Clients, req' = [req EXCEPT ![c] = IdleRequest] PROVE AnswersAreAsked'
  <2>1. req'[c].kind = "idle" /\ \A d \in Clients \ {c} : req'[d] = req[d]
    BY <1>2, <1>5 DEF IdleRequest
  <2> QED BY <1>1, <1>3, <2>1 DEF KeepsRuns, KeepsRun, AnswersAreAsked
<1>6. ASSUME NEW c \in Clients, NEW r \in RunIds, NEW b \in BOOLEAN, RequestAnswer(c, r, b)
      PROVE  AnswersAreAsked'
  <2>1. req'[c].kind = "answer" /\ req'[c].run = r /\ req'[c].job = run[r].job
    BY <1>2, <1>6 DEF RequestAnswer, Requested
  <2>2. \A d \in Clients \ {c} : req'[d] = req[d]
    BY <1>2, <1>6 DEF RequestAnswer, Requested
  <2>3. run' = run /\ run[r].status # "absent"
    BY <1>6 DEF RequestAnswer, Requested, Answerable, rows
  <2> QED BY <2>1, <2>2, <2>3 DEF AnswersAreAsked
<1>7. CASE Web
  <2>1. ASSUME NEW c \in Clients, NEW p \in Procs, RunJobNow(c, p) \/ AnswerParkedRun(c, p) \/ RefuseAnswer(c)
        PROVE  AnswersAreAsked'
    BY <1>5, <2>1 DEF RunJobNow, AnswerParkedRun, RefuseAnswer, QueueRun
  <2>2. ASSUME NEW c \in Clients, RefuseAnswer(c) PROVE AnswersAreAsked'
    BY <1>5, <2>2 DEF RefuseAnswer
  <2>3. \A c \in Clients, j \in Jobs : ~RequestRunNow(c, j)
    BY DEF RequestRunNow, Allowed
  <2> QED BY <1>6, <1>7, <2>1, <2>2, <2>3 DEF Web
<1>8. ASSUME NEW p \in Procs, Tick(p) \/ Crash(p) \/ Start(p) PROVE req' = req
  BY <1>8 DEF Tick, HealStuckRuns, DeliverDueNotices, ClaimDueJobs, EndTick, TickStepFails, Crash,
              Start, web
<1>9. CASE Dispatch
  BY <1>4, <1>9 DEF Dispatch, BeginDispatch, BeginDispatchFails, StartTask, RecordOutcome,
                    OutcomeNotRecorded, FinishRun, FinishRunFails, PostCheckAsk, Heartbeat, web
<1>10. CASE Time
  BY <1>4, <1>10 DEF Time, TimePasses, ScheduleComesDue, RetryComesDue, NoticeComesDue,
                     NoticeGetsTooOld, HeartbeatLapses, web
<1>11. CASE People
  BY <1>4, <1>11 DEF People, Pause, Resume, Toggle, EditTrigger, AdoptTrigger, WithdrawAccess,
                     RestoreAccess, SignIn, BindChannel, ReleaseHeld, Delete, Remove, ReportUndelivered,
                     Suspend, Unsuspend, Decide, Adjust, Write, web
<1>12. CASE UNCHANGED vars
  BY <1>4, <1>12 DEF vars, web
<1> QED BY <1>4, <1>7, <1>8, <1>9, <1>10, <1>11, <1>12 DEF Next

\* A claim is made when its process holds no other, of a job nothing works on.
LEMMA ClaimExcludes ==
  ASSUME OneProcess, IInv, OneAtATime, NEW p \in Procs, ClaimDueJobs(p)
  PROVE  (RunsExclude /\ ClaimsExclude)'
<1>1. run' = run
  BY DEF ClaimDueJobs
<1>2. claims = {}
  BY DEF OneProcess, OneAtATime, ClaimsAtHome, ClaimDueJobs, IInv, MemoryOK, Claim
<1>3. ASSUME NEW c \in claims', NEW d \in claims', c.job = d.job PROVE c = d
  BY <1>2, <1>3, ClaimOf
<1>4. ASSUME NEW c \in claims', NEW r \in RunIds, Active(run[r]) PROVE run[r].job # c.job
  <2>1. Claimable(c.job)
    BY <1>2, ClaimOf
  <2> QED BY <1>4, <2>1 DEF Claimable, RunningOf, ParkedOf, Active
<1> QED BY <1>1, <1>3, <1>4 DEF OneAtATime, RunsExclude, ClaimsExclude

LEMMA BeginExcludes ==
  ASSUME IInv, OneAtATime, NEW c \in claims, BeginDispatch(c)
  PROVE  /\ (RunsExclude /\ ClaimsExclude)'
         /\ \E r \in RunIds : /\ run'[r].job = c.job
                              /\ \A s \in RunIds \ {r} : run'[s] = run[s]
<1>1. PICK r \in RunIds : run' = CreateRun(run, r, c.job, c.trigger)
  BY DEF BeginDispatch
<1>2. claims' = claims \ {c}
  BY DEF BeginDispatch
<1>3. run'[r].job = c.job /\ \A s \in RunIds \ {r} : run'[s] = run[s]
  BY <1>1 DEF CreateRun, AbsentRun, IInv, TablesOK, RunTable
<1>4. \A s \in RunIds : Active(run[s]) => run[s].job # c.job
  BY DEF OneAtATime, ClaimsExclude
<1>5. RunsExclude'
  BY <1>3, <1>4 DEF OneAtATime, RunsExclude
<1>6. \A d \in claims' : d.job # c.job
  BY <1>2 DEF OneAtATime, ClaimsExclude
<1>7. ClaimsExclude'
  BY <1>2, <1>3, <1>6 DEF OneAtATime, ClaimsExclude
<1> QED BY <1>3, <1>5, <1>7

\* The continuation takes the place of the run it answers.
LEMMA AnswerExcludes ==
  ASSUME IInv, OneAtATime, NEW c \in Clients, NEW p \in Procs, AnswerParkedRun(c, p)
  PROVE  /\ (RunsExclude /\ ClaimsExclude)'
         /\ \A x \in RunIds : run'[x].trigger \in {run[x].trigger, "resumed"}
         /\ \A x \in RunIds : run'[x].status = run[x].status \/ run'[x].trigger = "resumed"
<1> DEFINE r == req[c].run
           table == ClearParkedTask(run, r)
<1>1. r \in RunIds /\ run[r].job = req[c].job /\ run[r].ask # "none"
  BY DEF AnswerParkedRun, StillAsks, OneAtATime, AnswersAreAsked, IInv, WebOK, SoundRequest, IdleRequest
<1>2. PICK s \in RunIds : run[s].status = "absent" /\ run' = CreateRun(table, s, req[c].job, "resumed")
  BY DEF AnswerParkedRun, QueueRun, NextRunId, Unused
<1>3. claims' = claims
  BY DEF AnswerParkedRun, QueueRun
<1>4. run \in [RunIds -> RunRecord] /\ run[r].status = "auth_required"
  BY <1>1 DEF IInv, TablesOK, RunTable, SoundRun
<1> HIDE DEF r
<1>5. /\ table \in [RunIds -> RunRecord] /\ \A x \in RunIds \ {r} : table[x] = run[x]
      /\ table[r].ask = "none" /\ table[r].status = "auth_required" /\ table[r].job = run[r].job
      /\ table[r].trigger = run[r].trigger
  BY <1>1, <1>4 DEF ClearParkedTask, RunRecord, Asks
<1> HIDE DEF table
<1>6. /\ run'[s].job = req[c].job /\ run'[s].status = "running" /\ run'[s].trigger = "resumed"
      /\ \A x \in RunIds \ {s} : run'[x] = table[x]
  BY <1>2, <1>5 DEF CreateRun, AbsentRun
<1>7. s # r
  BY <1>2, <1>4
<1>8. Active(run[r]) /\ ~Active(run'[r])
  BY <1>1, <1>4, <1>5, <1>6, <1>7 DEF Active, Answerable
<1>9. \A x \in RunIds \ {s, r} : run'[x] = run[x]
  BY <1>5, <1>6
<1>10. \A x \in RunIds \ {s} : Active(run'[x]) => Active(run[x]) /\ run'[x].job = run[x].job /\ x # r
  BY <1>8, <1>9
<1>11. \A x \in RunIds \ {s} : Active(run'[x]) => run'[x].job # req[c].job
  BY <1>1, <1>8, <1>10 DEF OneAtATime, RunsExclude
<1>12. RunsExclude'
  BY <1>6, <1>10, <1>11 DEF OneAtATime, RunsExclude
<1>13. \A d \in claims : d.job # req[c].job
  BY <1>1, <1>8 DEF OneAtATime, ClaimsExclude
<1>14. ClaimsExclude'
  BY <1>3, <1>6, <1>10, <1>13 DEF OneAtATime, ClaimsExclude
<1>15. \A x \in RunIds : /\ run'[x].trigger \in {run[x].trigger, "resumed"}
                         /\ run'[x].status = run[x].status \/ run'[x].trigger = "resumed"
  BY <1>4, <1>5, <1>6, <1>9
<1> QED BY <1>12, <1>14, <1>15

LEMMA OthersExclude ==
  ASSUME IInv, OneAtATime, RunRewrite, claims' \subseteq claims PROVE (RunsExclude /\ ClaimsExclude)'
<1>1. \A r \in RunIds : Active(run'[r]) => Active(run[r]) /\ run'[r].job = run[r].job
  BY RewriteActive
<1> QED BY <1>1 DEF OneAtATime, RunsExclude, ClaimsExclude

LEMMA OneAtATimeStep ==
  ASSUME OneProcess, "run_now" \notin Ops, IInv, OneAtATime, [Next]_vars PROVE OneAtATime'
<1>1. ClaimsAtHome' /\ AnswersAreAsked'
  BY ClaimsAtHomeStep, AnswersStep DEF OneAtATime
<1>2. CASE \E p \in Procs : ClaimDueJobs(p)
  BY <1>1, <1>2, ClaimExcludes DEF OneAtATime
<1>3. CASE \E c \in claims : BeginDispatch(c)
  BY <1>1, <1>3, BeginExcludes DEF OneAtATime
<1>4. CASE \E c \in Clients, p \in Procs : AnswerParkedRun(c, p)
  BY <1>1, <1>4, AnswerExcludes DEF OneAtATime
<1>5. ASSUME NEW c \in Clients, NEW p \in Procs PROVE ~RunJobNow(c, p)
  BY DEF OneAtATime, AnswersAreAsked, RunJobNow
<1>6. CASE ~OpensRun /\ ~\E p \in Procs : ClaimDueJobs(p)
  <2>1. claims' \subseteq claims
    BY <1>6, NewClaims
  <2> QED BY <1>1, <1>6, <2>1, EveryRunRewrite, OthersExclude DEF OneAtATime
<1> QED BY <1>2, <1>3, <1>4, <1>5, <1>6 DEF OpensRun

LEMMA InitOneAtATime == Init => OneAtATime
<1> SUFFICES ASSUME Init PROVE OneAtATime
  OBVIOUS
<1>1. \A r \in RunIds : ~Active(run[r])
  BY DEF Init, AbsentRun, Active, Answerable
<1>2. \A c \in Clients : req[c].kind = "idle"
  BY DEF Init, IdleRequest
<1>3. claims = {}
  BY DEF Init
<1> QED BY <1>1, <1>2, <1>3 DEF OneAtATime, ClaimsAtHome, AnswersAreAsked, RunsExclude, ClaimsExclude

\* A set with no two members, and two sets that are not both inhabited.
LEMMA AtMostOne ==
  ASSUME NEW S, \A x, y \in S : x = y
  PROVE  Cardinality(S) \in {0, 1} /\ (S = {} => Cardinality(S) = 0)
<1>1. CASE S = {}
  BY <1>1, FS_EmptySet
<1>2. CASE S # {}
  <2>1. PICK x : S = {x}
    BY <1>2
  <2> QED BY <1>2, <2>1, FS_Singleton
<1> QED BY <1>1, <1>2

LEMMA OneAtATimeCounts == IInv /\ OneAtATime => OneScheduledRun
<1> SUFFICES ASSUME IInv, OneAtATime, NEW j \in Jobs
             PROVE  Cardinality(ClaimsOf(j)) + Cardinality(ScheduleRuns(j)) <= 1
  BY DEF OneScheduledRun
<1> DEFINE n == Cardinality(ClaimsOf(j))
           m == Cardinality(ScheduleRuns(j))
<1>1. \A c, d \in ClaimsOf(j) : c = d
  BY DEF OneAtATime, ClaimsExclude, ClaimsOf
<1>2. \A r, s \in ScheduleRuns(j) : r = s
  BY DEF OneAtATime, RunsExclude, ScheduleRuns, RunningOf, Active
<1>3. ClaimsOf(j) = {} \/ ScheduleRuns(j) = {}
  BY DEF OneAtATime, ClaimsExclude, ClaimsOf, ScheduleRuns, RunningOf, Active
<1>4. n \in {0, 1} /\ (ClaimsOf(j) = {} => n = 0)
  BY <1>1, AtMostOne
<1>5. m \in {0, 1} /\ (ScheduleRuns(j) = {} => m = 0)
  BY <1>2, AtMostOne
<1> HIDE DEF n, m
<1>6. n + m <= 1
  BY <1>3, <1>4, <1>5
<1> QED BY <1>6 DEF n, m

\* One process, and nobody running jobs by hand: a job is never in the hands of
\* two dispatches, through crashes, sweeps of live runs, failed writes and answers.
THEOREM OneRunAtATime ==
  ASSUME OneProcess, "run_now" \notin Ops PROVE Spec => []OneScheduledRun
<1>1. IInv /\ OneAtATime /\ [Next]_vars => OneAtATime'
  BY OneAtATimeStep
<1> QED BY <1>1, InitOneAtATime, OneAtATimeCounts, Invariance, PTL DEF Spec

LEMMA OpensBesideNoAsk ==
  ASSUME OneProcess, "run_now" \notin Ops, IInv, OneAtATime, [Next]_vars, NEW r \in RunIds,
         run[r].status = "absent", run'[r].status = "running", run'[r].trigger \in {"scheduled", "retry"}
  PROVE  ParkedOf(run, run'[r].job) = {}
<1>1. ~Active(run[r]) /\ Active(run'[r])
  BY DEF Active, Answerable
<1>2. OpensRun
  BY <1>1, EveryRunRewrite, RewriteActive
<1>3. ASSUME NEW c \in claims, BeginDispatch(c) PROVE ParkedOf(run, run'[r].job) = {}
  <2>1. run'[r].job = c.job
    BY <1>1, <1>3, BeginExcludes
  <2> QED BY <2>1 DEF OneAtATime, ClaimsExclude, ParkedOf, Active
<1>4. ASSUME NEW c \in Clients, NEW p \in Procs PROVE ~AnswerParkedRun(c, p)
  BY AnswerExcludes
<1>5. ASSUME NEW c \in Clients, NEW p \in Procs PROVE ~RunJobNow(c, p)
  BY DEF OneAtATime, AnswersAreAsked, RunJobNow
<1> QED BY <1>2, <1>3, <1>4, <1>5 DEF OpensRun

\* Under the same hypotheses a run that waits for its subscriber holds the
\* schedule up to the moment its answer takes its place.
THEOREM ParksHoldTheSchedule ==
  ASSUME OneProcess, "run_now" \notin Ops PROVE Spec => ParkHoldsTheSchedule
<1>1. IInv /\ OneAtATime /\ [Next]_vars => OneAtATime'
  BY OneAtATimeStep
<1>2. IInv /\ OneAtATime /\ [Next]_vars =>
        [\A r \in RunIds :
           (run[r].status = "absent" /\ run'[r].status = "running"
              /\ run'[r].trigger \in {"scheduled", "retry"})
           => ParkedOf(run, run'[r].job) = {}]_vars
  BY OpensBesideNoAsk
<1> QED BY <1>1, <1>2, InitOneAtATime, Invariance, PTL DEF Spec, ParkHoldsTheSchedule

-----------------------------------------------------------------------------
(* One loss, one attempt.  An interrupted run earns its job an attempt when  *)
(* its dispatcher records it, when the sweep finds it, or both: an attempt   *)
(* is claimed only when no run of the job is in progress, so what the sweep  *)
(* grants a second time is still the first one.  The count needs dispatchers *)
(* whose runs no sweep takes for lost, so the theorem assumes that a live    *)
(* one never misses three beats; it holds for any number of processes.       *)

RetryClaims(j) == {c \in ClaimsOf(j) : c.trigger = "retry"}
SettledOf(j)   == {r \in LossesOf(j) : run[r].status # "running"}
TriesOf(j)     == Cardinality(AttemptsOf(j)) + Cardinality(RetryClaims(j))

DispatchersBeat == \A t \in tasks : /\ run[t.run].beat = "fresh"
                                    /\ Unrecorded(t) => run[t.run].status = "running"

ClaimsAreFinite == \A j \in Jobs : IsFiniteSet(RetryClaims(j))

AttemptsAreEarned == \A j \in Jobs : /\ TriesOf(j) + PendingOf(j) <= Cardinality(LossesOf(j))
                                     /\ TriesOf(j) <= Cardinality(SettledOf(j))

LossInv == OneTaskPerRun /\ DispatchersBeat /\ ClaimsAreFinite /\ AttemptsAreEarned

\* No step ends a run that a beating dispatcher has not recorded.
LEMMA RunsStay ==
  ASSUME ~LapseLive, IInv, LossInv, [Next]_vars, NEW t \in tasks
  PROVE  /\ run'[t.run].beat = "fresh"
         /\ Unrecorded(t) => run'[t.run].status = "running"
<1>1. run \in RunTable /\ t.run \in RunIds
  BY DEF IInv, TablesOK, MemoryOK, SoundTask, Task
<1>2. RunStep
  BY EveryRunStep
<1>3. run[t.run].status # "absent" /\ run[t.run].beat = "fresh"
  BY DEF LossInv, OneTaskPerRun, DispatchersBeat
<1>4. KeepsRun(t.run)
  BY <1>1, <1>2, <1>3, StepKeepsRuns DEF KeepsRuns
<1>5. run'[t.run] \in SoundRun
  BY <1>1, NextIInv DEF IInv, TablesOK, RunTable
<1>6. run'[t.run].beat = "fresh"
  BY <1>3, <1>4, <1>5 DEF KeepsRun, SoundRun, RunRecord
<1>7. ASSUME Unrecorded(t) PROVE run'[t.run].status = "running"
  <2>1. run[t.run].status = "running"
    BY <1>7 DEF LossInv, DispatchersBeat
  <2>2. CASE Sweeps
    <3>1. PICK S \in SUBSET RunIds : /\ \A q \in S : run[q].status = "running" /\ run[q].beat = "stale"
                                     /\ run' = InterruptRuns(run, S)
      BY <2>2 DEF Sweeps
    <3>2. t.run \notin S
      BY <1>3, <3>1
    <3> QED BY <1>1, <2>1, <3>1, <3>2, SweptEntries DEF Same
  <2>3. CASE Notifies
    BY <1>1, <2>1, <2>3, NotifiedEntries DEF Same
  <2>4. ASSUME NEW q \in RunIds, Marks(q) PROVE run'[t.run].status = "running"
    BY <1>1, <2>1, <2>4, MarkedEntries DEF Same
  <2>5. ASSUME NEW q \in RunIds, Finishes(q) PROVE run'[t.run].status = "running"
    <3>1. q # t.run
      BY <1>7, <2>5 DEF Finishes, LossInv, OneTaskPerRun, Unrecorded
    <3> QED BY <1>1, <2>1, <2>5, <3>1, FinishedEntries DEF Same
  <2>6. ASSUME NEW q \in RunIds, Opens(q) PROVE run'[t.run].status = "running"
    BY <1>1, <2>1, <2>6 DEF Opens, CreateRun, RunTable
  <2>7. ASSUME NEW q \in RunIds, NEW s \in RunIds, Continues(q, s) PROVE run'[t.run].status = "running"
    BY <1>1, <2>1, <2>7 DEF Continues, CreateRun, ClearParkedTask, RunTable, SoundRun, RunRecord
  <2> QED BY <1>2, <2>1, <2>2, <2>3, <2>4, <2>5, <2>6, <2>7 DEF RunStep, RunRewrite
<1> QED BY <1>6, <1>7

LEMMA BeatsStep == ASSUME ~LapseLive, IInv, LossInv, [Next]_vars PROVE DispatchersBeat'
<1>1. \A t \in tasks : /\ run'[t.run].beat = "fresh"
                       /\ Unrecorded(t) => run'[t.run].status = "running"
  BY RunsStay
<1>2. CASE tasks' \subseteq tasks
  BY <1>1, <1>2 DEF DispatchersBeat
<1>3. ASSUME NEW t \in tasks, NEW u \in SoundTask, tasks' = Replace(t, u), u.run = t.run,
             Unrecorded(u) => Unrecorded(t)
      PROVE  DispatchersBeat'
  BY <1>1, <1>3 DEF DispatchersBeat, Replace
<1>4. ASSUME NEW u \in SoundTask, tasks' = tasks \cup {u}, run'[u.run].status = "running",
             run'[u.run].beat = "fresh"
      PROVE  DispatchersBeat'
  BY <1>1, <1>4 DEF DispatchersBeat
<1> QED BY <1>2, <1>3, <1>4, EveryTaskStep DEF TaskStep

-----------------------------------------------------------------------------
(* Losses are never forgotten *)

LEMMA AdvancedStays ==
  ASSUME IInv, OneTaskPerRun, [Next]_vars, NEW r \in RunIds, advanced[r] # "none"
  PROVE  advanced'[r] = advanced[r]
<1>1. ASSUME NEW t \in tasks, RecordOutcome(t) PROVE advanced'[r] = advanced[r]
  <2>1. r # t.run
    BY <1>1, RecordTask
  <2> QED BY <1>1, <2>1, RecordOf
<1> QED BY <1>1, OutcomesAreRecorded

LEMMA LossesStay ==
  ASSUME IInv, OneTaskPerRun, [Next]_vars, NEW j \in Jobs
  PROVE  LossesOf(j) \subseteq LossesOf(j)' /\ SettledOf(j) \subseteq SettledOf(j)'
<1> SUFFICES ASSUME NEW r \in LossesOf(j)
             PROVE  r \in LossesOf(j)' /\ (run[r].status # "running" => run'[r].status # "running")
  BY DEF SettledOf
<1>1. r \in RunIds /\ run[r].job = j /\ run[r].trigger \in {"scheduled", "resumed"}
        /\ "interrupted" \in {run[r].status, advanced[r]}
  BY DEF LossesOf
<1>2. run[r].status # "absent"
  BY <1>1 DEF OneTaskPerRun
<1>3. run'[r].job = j /\ run'[r].trigger = run[r].trigger
  BY <1>1, <1>2, EveryRunStep, StepKeepsRuns DEF KeepsRuns, KeepsRun, IInv, TablesOK
<1>4. run[r].status # "running" => run'[r].status = run[r].status
  BY <1>1, <1>2, EveryRunStep, StepKeepsOutcome DEF Completed, IInv, TablesOK
<1>5. advanced[r] = "interrupted" => advanced'[r] = "interrupted"
  BY <1>1, AdvancedStays
<1>6. r \in LossesOf(j)'
  BY <1>1, <1>3, <1>4, <1>5 DEF LossesOf
<1> QED BY <1>4, <1>6

-----------------------------------------------------------------------------
(* Who earns an attempt *)

\* An outcome leaves an attempt only if the run was interrupted and earns one.
LEMMA FinalizeEarns ==
  ASSUME NEW s \in SoundRow, NEW o \in OutcomeRecord, NEW trigger \in Triggers,
         NEW snap \in Snapshots, NEW destroy \in BOOLEAN
  PROVE  \/ FinalizeRow(s, o, trigger, snap, destroy).retry \in {"none", s.retry}
         \/ o.status = "interrupted" /\ EarnsRetry(trigger)
<1> DEFINE leave  == LeavesSchedule(trigger)
           broken == o.badTimezone /\ snap.kind = "recurring" /\ ~leave
           plans  == IF leave \/ broken THEN {} ELSE ComputeNextRun(snap)
           code   == StopGiven(s, IF broken /\ o.code = "none" THEN "invalid_timezone" ELSE o.code)
           fired  == IF destroy /\ o.status = "success"
                     THEN DisableSubscription(s, "condition_met_once") ELSE s
           held   == IF ~o.counts /\ code # "none"
                     THEN DisableSubscription(fired, code) ELSE fired
           status == IF o.counts THEN o.status ELSE "interrupted"
           retry  == o.status = "interrupted" /\ EarnsRetry(trigger)
           t      == CompleteJob(held, status, plans, retry, code, leave)
<1>1. s \in SubscriptionRow
  BY DEF SoundRow
<1>2. fired \in SubscriptionRow /\ fired.retry \in {"none", s.retry}
  BY <1>1 DEF DisableSubscription, SubscriptionRow, Codes
<1>3. code \in Codes
  BY DEF StopGiven, OutcomeRecord, Codes
<1>4. held \in SubscriptionRow /\ held.retry \in {"none", fired.retry}
  <2> HIDE DEF fired, code
  <2> QED BY <1>2, <1>3 DEF DisableSubscription, SubscriptionRow
<1> HIDE DEF leave, plans, code, fired, held, status, retry
<1>5. t.retry = IF retry THEN "pending" ELSE held.retry
  BY <1>4 DEF CompleteJob, SubscriptionRow
<1>6. t = FinalizeRow(s, o, trigger, snap, destroy)
  BY DEF FinalizeRow, leave, plans, code, fired, held, status, retry
<1> HIDE DEF t
<1> QED BY <1>2, <1>4, <1>5, <1>6 DEF retry

LEMMA BecomesEarnsNothing ==
  ASSUME NEW s \in SoundRow, NEW t, Becomes(s, t), s.retry = "none" PROVE t.retry = "none"
<1> USE DEF SoundRow, SubscriptionRow
<1>1. CASE t = s \/ t = ClaimRow(s)
  BY <1>1 DEF ClaimRow
<1>2. CASE t = PauseRow(s) \/ t = WithdrawRow(s) \/ t = DisableIfEnabled(s, "unreachable")
  BY <1>2 DEF PauseRow, WithdrawRow, DisableIfEnabled, DisableSubscription
<1>3. CASE t = UnsuspendRow(s)
  BY <1>3 DEF UnsuspendRow, Recomputed
<1>4. CASE \E kind \in Kinds : \E when \in Moments(kind) :
             t = EditRow(s, kind, when) \/ t = AdoptRow(s, kind, when)
  BY <1>4 DEF EditRow, AdoptRow, DisableSubscription
<1> QED BY <1>1, <1>2, <1>3, <1>4 DEF Becomes

LEMMA SwitchEarnsNothing ==
  ASSUME IInv, NEW j \in Jobs, SwitchesOn(j), sub[j].retry = "none" PROVE sub'[j].retry = "none"
<1> DEFINE s == sub[j]
           Bare(t) == t.retry = "none"
<1> USE DEF SoundRow, SubscriptionRow
<1>1. s \in SoundRow /\ Bare(s)
  BY DEF IInv, TablesOK
<1> HIDE DEF s
<1>2. Bare([s EXCEPT !.next = "due"])
  BY <1>1
<1>3. Bare(ResumeRow(s))
  BY <1>1 DEF ResumeRow, Recomputed
<1>4. \A on \in BOOLEAN : Bare(ToggleRow(s, on))
  BY <1>1 DEF ToggleRow
<1>5. \A t \in RestoredRows(s) : Bare(t)
  BY <1>1 DEF RestoredRows, Recomputed, DisableSubscription
<1>6. \A c \in {"elapsed", "sign_in", "unreachable"} : Bare(RecodeStop(s, c))
  BY <1>1 DEF RecodeStop
<1> HIDE DEF Bare
<1>7. \A passed : \A t \in ReleasedRows(s, passed) : Bare(t)
  BY <1>1, <1>3, <1>6 DEF ReleasedRows
<1>8. Bare(sub'[j])
  BY <1>2, <1>3, <1>4, <1>5, <1>7 DEF SwitchesOn, s
<1> QED BY <1>8 DEF Bare

\* A pending attempt is a new one only if a run of the job that was in progress
\* is interrupted by this step.
LEMMA PendingIsEarned ==
  ASSUME IInv, LossInv, [Next]_vars, NEW j \in Jobs, sub[j].retry = "none", sub'[j].retry # "none"
  PROVE  \E r \in LossesOf(j)' : r \notin SettledOf(j)
<1>1. sub \in [Jobs -> SoundRow] /\ run \in RunTable /\ sub[j].retry = "none"
  BY DEF IInv, TablesOK
<1>2. ASSUME NEW t \in tasks, RecordOutcome(t) PROVE \E r \in LossesOf(j)' : r \notin SettledOf(j)
  <2>1. PICK i \in Jobs : i = run[t.run].job
    BY <1>2, RecordOf
  <2>2. PICK o \in OutcomeRecord, destroy \in BOOLEAN :
          /\ o.status = "interrupted" => o.counts
          /\ advanced'[t.run] = IF o.counts THEN o.status ELSE "uncounted"
          /\ sub' = [sub EXCEPT ![i] = FinalizeRow(sub[i], o, run[t.run].trigger, t.snap, destroy)]
    BY <1>2, <2>1, RecordOf
  <2>3. t.run \in RunIds /\ run[t.run].trigger \in Triggers /\ t.snap \in Snapshots /\ run' = run
    BY <1>2, RecordOf, RecordTask DEF LossInv
  <2> DEFINE row == FinalizeRow(sub[i], o, run[t.run].trigger, t.snap, destroy)
  <2>4. row.retry \in {"none", sub[i].retry} \/ (o.status = "interrupted" /\ EarnsRetry(run[t.run].trigger))
    BY <1>1, <2>3, FinalizeEarns
  <2>5. sub' = [sub EXCEPT ![i] = row]
    BY <2>2
  <2> HIDE DEF row
  <2>6. i = j /\ sub'[j] = row
    BY <1>1, <2>5
  <2>7. o.status = "interrupted" /\ EarnsRetry(run[t.run].trigger)
    BY <1>1, <2>4, <2>6
  <2>8. t.run \in LossesOf(j)'
    BY <2>1, <2>2, <2>3, <2>6, <2>7 DEF LossesOf, EarnsRetry
  <2>9. run[t.run].status = "running"
    BY <1>2 DEF RecordOutcome, Ready, Unrecorded, LossInv, DispatchersBeat
  <2> QED BY <2>8, <2>9 DEF SettledOf
<1>3. ASSUME Earns(j) PROVE \E r \in LossesOf(j)' : r \notin SettledOf(j)
  <2>1. PICK p \in Procs, r \in RunIds :
          /\ HealStuckRuns(p) /\ r \in StaleRuns(run, InFlight(p))
          /\ run[r].job = j /\ EarnsRetry(run[r].trigger)
    BY <1>3 DEF Earns
  <2>2. run[r].status = "running" /\ run' = InterruptRuns(run, StaleRuns(run, InFlight(p)))
    BY <2>1 DEF HealStuckRuns, StaleRuns
  <2>3. run'[r].status = "interrupted"
    <3>1. StaleRuns(run, InFlight(p)) \in SUBSET RunIds
            /\ \A q \in StaleRuns(run, InFlight(p)) : run[q].status = "running"
      BY DEF StaleRuns
    <3>2. Same(run'[r], [run[r] EXCEPT !.status = "interrupted"])
      BY <1>1, <2>1, <2>2, <3>1, SweptEntries
    <3> QED BY <1>1, <3>2 DEF Same, RunTable, SoundRun, RunRecord
  <2>4. run'[r].job = j /\ run'[r].trigger = run[r].trigger
    BY <1>1, <2>1, <2>2, EveryRunStep, StepKeepsRuns DEF KeepsRuns, KeepsRun
  <2>5. r \in LossesOf(j)'
    BY <2>1, <2>3, <2>4 DEF LossesOf, EarnsRetry
  <2> QED BY <2>2, <2>5 DEF SettledOf
<1>4. ~Becomes(sub[j], sub'[j]) /\ ~SwitchesOn(j)
  BY <1>1, BecomesEarnsNothing, SwitchEarnsNothing
<1> QED BY <1>2, <1>3, <1>4, EveryOtherWrite DEF OtherWrites

-----------------------------------------------------------------------------
(* Who makes an attempt *)

LEMMA NewRuns ==
  ASSUME IInv, [Next]_vars, NEW r \in RunIds, run[r].status = "absent", run'[r].status # "absent"
  PROVE  (\E c \in claims : BeginDispatch(c)) \/ run'[r].trigger \in {"manual", "resumed"}
<1>1. run \in RunTable
  BY DEF IInv, TablesOK
<1>2. ASSUME RunRewrite PROVE FALSE
  <2>1. ~Same(run'[r], run[r])
    BY DEF Same
  <2>2. CASE Sweeps
    BY <1>1, <2>1, <2>2, SweptEntries DEF Sweeps
  <2>3. ASSUME NEW q \in RunIds, Finishes(q) PROVE FALSE
    BY <1>1, <2>1, <2>3, FinishedEntries
  <2> QED BY <1>1, <1>2, <2>1, <2>2, <2>3, NotifiedEntries, MarkedEntries DEF RunRewrite
<1>3. ASSUME NEW c \in Clients, NEW p \in Procs, NEW table \in RunTable, NEW trigger,
             \A x \in RunIds : table[x].status = run[x].status, QueueRun(c, p, table, trigger)
      PROVE  run'[r].trigger = trigger
  <2>1. PICK s \in RunIds : run' = CreateRun(table, s, req[c].job, trigger)
    BY <1>3 DEF QueueRun
  <2> QED BY <1>3, <2>1 DEF CreateRun, AbsentRun, RunTable
<1>4. ASSUME NEW c \in Clients, NEW p \in Procs, RunJobNow(c, p) PROVE run'[r].trigger = "manual"
  BY <1>1, <1>3, <1>4 DEF RunJobNow
<1>5. ASSUME NEW c \in Clients, NEW p \in Procs, AnswerParkedRun(c, p) PROVE run'[r].trigger = "resumed"
  <2>1. req[c].run \in RunIds
    BY <1>5 DEF AnswerParkedRun, IInv, WebOK, SoundRequest, IdleRequest
  <2>2. ClearParkedTask(run, req[c].run) \in RunTable
    BY <1>1, <2>1, ClearParkedSound
  <2>3. \A x \in RunIds : ClearParkedTask(run, req[c].run)[x].status = run[x].status
    BY <1>1 DEF ClearParkedTask, RunTable, SoundRun, RunRecord
  <2> QED BY <1>3, <1>5, <2>2, <2>3 DEF AnswerParkedRun
<1> QED BY <1>2, <1>4, <1>5, EveryRunRewrite DEF OpensRun

\* What a step does to the attempts made and claimed: nothing, but that the claim
\* turns a pending attempt into a claimed one when no run is in progress.
Takes(j) == /\ TriesOf(j)' <= TriesOf(j) + 1
            /\ sub[j].retry # "none" /\ sub'[j].retry = "none"
            /\ LossesOf(j) = SettledOf(j)

LEMMA Finite ==
  ASSUME NEW j \in Jobs
  PROVE  /\ IsFiniteSet(AttemptsOf(j)) /\ IsFiniteSet(LossesOf(j)) /\ IsFiniteSet(SettledOf(j))
         /\ IsFiniteSet(AttemptsOf(j)') /\ IsFiniteSet(LossesOf(j)') /\ IsFiniteSet(SettledOf(j)')
<1>1. IsFiniteSet(RunIds)
  BY FS_Interval, MaxRunsAssumption DEF RunIds
<1> QED BY <1>1, FS_Subset DEF AttemptsOf, LossesOf, SettledOf

LEMMA OneMore ==
  ASSUME NEW S, IsFiniteSet(S), NEW x
  PROVE  /\ Cardinality(S) \in Nat /\ IsFiniteSet(S \cup {x})
         /\ Cardinality(S \cup {x}) <= Cardinality(S) + 1
<1> DEFINE n == Cardinality(S)
           m == Cardinality(S \cup {x})
<1>1. n \in Nat /\ IsFiniteSet(S \cup {x}) /\ m = (IF x \in S THEN n ELSE n + 1)
  BY FS_CardinalityType, FS_AddElement
<1> HIDE DEF n, m
<1>2. m <= n + 1
  BY <1>1
<1> QED BY <1>1, <1>2 DEF n, m

LEMMA FewerTries ==
  ASSUME NEW j \in Jobs, IsFiniteSet(RetryClaims(j)),
         AttemptsOf(j)' \subseteq AttemptsOf(j), RetryClaims(j)' \subseteq RetryClaims(j)
  PROVE  IsFiniteSet(RetryClaims(j)') /\ TriesOf(j)' <= TriesOf(j)
<1>1. /\ IsFiniteSet(RetryClaims(j)') /\ Cardinality(RetryClaims(j)') <= Cardinality(RetryClaims(j))
      /\ Cardinality(RetryClaims(j)) \in Nat /\ Cardinality(RetryClaims(j)') \in Nat
  BY FS_Subset, FS_CardinalityType
<1>2. /\ Cardinality(AttemptsOf(j)') <= Cardinality(AttemptsOf(j))
      /\ Cardinality(AttemptsOf(j)) \in Nat /\ Cardinality(AttemptsOf(j)') \in Nat
  BY Finite, FS_Subset, FS_CardinalityType
<1> QED BY <1>1, <1>2 DEF TriesOf

\* An attempt already made stays one, and only BeginDispatch makes a new one.
LEMMA AttemptsAreBegun ==
  ASSUME IInv, [Next]_vars, NEW j \in Jobs, ~\E c \in claims : BeginDispatch(c)
  PROVE  AttemptsOf(j)' \subseteq AttemptsOf(j)
<1> SUFFICES ASSUME NEW r \in AttemptsOf(j)' PROVE r \in AttemptsOf(j)
  OBVIOUS
<1>1. r \in RunIds /\ run'[r].job = j /\ run'[r].status # "absent" /\ run'[r].trigger = "retry"
  BY DEF AttemptsOf
<1>2. run[r].status # "absent"
  BY <1>1, NewRuns
<1>3. KeepsRun(r)
  BY <1>1, <1>2, EveryRunStep, StepKeepsRuns DEF KeepsRuns, IInv, TablesOK
<1> QED BY <1>1, <1>2, <1>3 DEF KeepsRun, AttemptsOf

LEMMA BeginTries ==
  ASSUME IInv, NEW c \in claims, BeginDispatch(c), NEW j \in Jobs, IsFiniteSet(RetryClaims(j))
  PROVE  IsFiniteSet(RetryClaims(j)') /\ TriesOf(j)' <= TriesOf(j)
<1>1. PICK r \in RunIds : run' = CreateRun(run, r, c.job, c.trigger)
  BY DEF BeginDispatch
<1>2. claims' = claims \ {c}
  BY DEF BeginDispatch
<1>3. /\ run'[r].job = c.job /\ run'[r].trigger = c.trigger
      /\ \A s \in RunIds \ {r} : run'[s] = run[s]
  BY <1>1 DEF CreateRun, AbsentRun, IInv, TablesOK, RunTable
<1>4. CASE c.job = j /\ c.trigger = "retry"
  <2> DEFINE a == Cardinality(AttemptsOf(j))
             k == Cardinality(RetryClaims(j))
  <2>1. RetryClaims(j)' = RetryClaims(j) \ {c} /\ c \in RetryClaims(j)
    BY <1>2, <1>4 DEF RetryClaims, ClaimsOf
  <2>2. AttemptsOf(j)' \subseteq AttemptsOf(j) \cup {r}
    BY <1>3 DEF AttemptsOf
  <2>3. k \in Nat /\ IsFiniteSet(RetryClaims(j)') /\ Cardinality(RetryClaims(j)') = k - 1
    BY <2>1, FS_RemoveElement, FS_CardinalityType
  <2>4. IsFiniteSet(AttemptsOf(j) \cup {r}) /\ Cardinality(AttemptsOf(j) \cup {r}) <= a + 1 /\ a \in Nat
    BY Finite, OneMore
  <2>5. Cardinality(AttemptsOf(j)') <= Cardinality(AttemptsOf(j) \cup {r})
    BY <2>2, <2>4, FS_Subset
  <2>6. Cardinality(AttemptsOf(j)') \in Nat /\ Cardinality(AttemptsOf(j) \cup {r}) \in Nat
    BY <2>4, Finite, FS_CardinalityType
  <2> QED BY <2>3, <2>4, <2>5, <2>6 DEF TriesOf
<1>5. CASE ~(c.job = j /\ c.trigger = "retry")
  <2>1. RetryClaims(j)' \subseteq RetryClaims(j)
    BY <1>2 DEF RetryClaims, ClaimsOf
  <2>2. AttemptsOf(j)' \subseteq AttemptsOf(j)
    BY <1>3, <1>5 DEF AttemptsOf
  <2> QED BY <2>1, <2>2, FewerTries
<1> QED BY <1>4, <1>5

LEMMA ClaimTries ==
  ASSUME IInv, LossInv, [Next]_vars, NEW p \in Procs, ClaimDueJobs(p), NEW j \in Jobs
  PROVE  IsFiniteSet(RetryClaims(j)') /\ (TriesOf(j)' <= TriesOf(j) \/ Takes(j))
<1>1. IsFiniteSet(RetryClaims(j)) /\ AttemptsOf(j)' = AttemptsOf(j) /\ run' = run
  BY DEF LossInv, ClaimsAreFinite, AttemptsOf, ClaimDueJobs
<1>2. CASE RetryClaims(j)' \subseteq RetryClaims(j)
  BY <1>1, <1>2, FewerTries
<1>3. ASSUME NEW c \in RetryClaims(j)', c \notin RetryClaims(j)
      PROVE  IsFiniteSet(RetryClaims(j)') /\ Takes(j)
  <2>1. c \in claims' /\ c \notin claims /\ c.job = j /\ c.trigger = "retry"
    BY <1>3 DEF RetryClaims, ClaimsOf
  <2>2. Claimable(j) /\ RetryDue(sub[j])
    BY <2>1, ClaimOf
  <2>3. \A d \in RetryClaims(j)' : d \in RetryClaims(j) \/ d = c
    <3>1. ASSUME NEW d \in RetryClaims(j)', d \notin RetryClaims(j) PROVE d = c
      <4>1. d \in claims' /\ d \notin claims /\ d.job = j
        BY <3>1 DEF RetryClaims, ClaimsOf
      <4> QED BY <2>1, <4>1, ClaimOf
    <3> QED BY <3>1
  <2>4. IsFiniteSet(RetryClaims(j)') /\ Cardinality(RetryClaims(j)') <= Cardinality(RetryClaims(j)) + 1
          /\ Cardinality(RetryClaims(j)) \in Nat /\ Cardinality(RetryClaims(j)') \in Nat
    <3>1. RetryClaims(j)' \subseteq RetryClaims(j) \cup {c}
      BY <2>3
    <3>2. IsFiniteSet(RetryClaims(j) \cup {c})
            /\ Cardinality(RetryClaims(j) \cup {c}) <= Cardinality(RetryClaims(j)) + 1
            /\ Cardinality(RetryClaims(j)) \in Nat
      BY <1>1, OneMore
    <3>3. IsFiniteSet(RetryClaims(j)') /\ Cardinality(RetryClaims(j)') <= Cardinality(RetryClaims(j) \cup {c})
      BY <3>1, <3>2, FS_Subset
    <3>4. Cardinality(RetryClaims(j)') \in Nat /\ Cardinality(RetryClaims(j) \cup {c}) \in Nat
      BY <3>2, <3>3, FS_CardinalityType
    <3> QED BY <3>2, <3>3, <3>4
  <2>5. TriesOf(j)' <= TriesOf(j) + 1
    <3>1. Cardinality(AttemptsOf(j)) \in Nat
      BY Finite, FS_CardinalityType
    <3> QED BY <1>1, <2>4, <3>1 DEF TriesOf
  <2>6. LossesOf(j) = SettledOf(j)
    BY <2>2 DEF Claimable, RunningOf, LossesOf, SettledOf
  <2>7. sub[j].retry # "none" /\ sub'[j].retry = "none"
    <3>1. sub[j] \in SoundRow
      BY DEF IInv, TablesOK
    <3>2. sub'[j] = ClaimRow(sub[j])
      BY <2>1, <2>2 DEF ClaimDueJobs
    <3> QED BY <2>2, <3>1, <3>2 DEF ClaimRow, RetryDue, SoundRow, SubscriptionRow
  <2> QED BY <2>4, <2>5, <2>6, <2>7 DEF Takes
<1> QED BY <1>2, <1>3

LEMMA StepTries ==
  ASSUME IInv, LossInv, [Next]_vars, NEW j \in Jobs
  PROVE  IsFiniteSet(RetryClaims(j)') /\ (TriesOf(j)' <= TriesOf(j) \/ Takes(j))
<1>1. IsFiniteSet(RetryClaims(j))
  BY DEF LossInv, ClaimsAreFinite
<1>2. CASE \E p \in Procs : ClaimDueJobs(p)
  BY <1>2, ClaimTries
<1>3. CASE \E c \in claims : BeginDispatch(c)
  BY <1>1, <1>3, BeginTries
<1>4. CASE (~\E p \in Procs : ClaimDueJobs(p)) /\ ~\E c \in claims : BeginDispatch(c)
  <2>1. claims' \subseteq claims
    BY <1>4, NewClaims
  <2>2. RetryClaims(j)' \subseteq RetryClaims(j)
    BY <2>1 DEF RetryClaims, ClaimsOf
  <2>3. AttemptsOf(j)' \subseteq AttemptsOf(j)
    BY <1>4, AttemptsAreBegun
  <2> QED BY <1>1, <2>2, <2>3, FewerTries
<1> QED BY <1>2, <1>3, <1>4

LEMMA AttemptsStep ==
  ASSUME IInv, LossInv, [Next]_vars PROVE ClaimsAreFinite' /\ AttemptsAreEarned'
<1>1. ASSUME NEW j \in Jobs
      PROVE  /\ IsFiniteSet(RetryClaims(j)')
             /\ TriesOf(j)' + PendingOf(j)' <= Cardinality(LossesOf(j)')
             /\ TriesOf(j)' <= Cardinality(SettledOf(j)')
  <2> DEFINE n == TriesOf(j)
             m == TriesOf(j)'
             l == Cardinality(LossesOf(j))
             l2 == Cardinality(LossesOf(j)')
             s == Cardinality(SettledOf(j))
             s2 == Cardinality(SettledOf(j)')
             q == PendingOf(j)
             q2 == PendingOf(j)'
  <2>1. IsFiniteSet(RetryClaims(j)') /\ (m <= n \/ Takes(j))
    BY StepTries
  <2>2. n \in Nat /\ m \in Nat
    BY <2>1, Finite, FS_CardinalityType DEF TriesOf, LossInv, ClaimsAreFinite
  <2>3. l \in Nat /\ l2 \in Nat /\ s \in Nat /\ s2 \in Nat
    BY Finite, FS_CardinalityType
  <2>4. l <= l2 /\ s <= s2 /\ s2 <= l2
    <3>1. SettledOf(j)' \subseteq LossesOf(j)'
      BY DEF SettledOf
    <3> QED BY <3>1, LossesStay, Finite, FS_Subset DEF LossInv
  <2>5. q \in {0, 1} /\ q2 \in {0, 1} /\ (sub[j].retry # "none" => q = 1) /\ (sub'[j].retry = "none" => q2 = 0)
          /\ (q = 0 => sub[j].retry = "none") /\ (q2 = 1 => sub'[j].retry # "none")
    BY DEF PendingOf
  <2>6. n + q <= l /\ n <= s
    BY DEF LossInv, AttemptsAreEarned
  <2>7. ASSUME q = 0, q2 = 1 PROVE s + 1 <= l2
    <3>1. PICK r \in LossesOf(j)' : r \notin SettledOf(j)
      BY <2>5, <2>7, PendingIsEarned
    <3>2. SettledOf(j) \cup {r} \subseteq LossesOf(j)'
      BY <3>1, LossesStay DEF LossInv, SettledOf
    <3>3. Cardinality(SettledOf(j) \cup {r}) = s + 1
      BY <3>1, Finite, FS_AddElement
    <3> QED BY <3>2, <3>3, Finite, FS_Subset
  <2>8. Takes(j) => m <= n + 1 /\ q = 1 /\ q2 = 0 /\ l = s
    BY <2>5 DEF Takes
  <2> HIDE DEF n, m, l, l2, s, s2, q, q2
  <2>9. m <= s2
    BY <2>1, <2>2, <2>3, <2>4, <2>6, <2>8
  <2>10. m + q2 <= l2
    BY <2>1, <2>2, <2>3, <2>4, <2>5, <2>6, <2>7, <2>8
  <2> QED BY <2>1, <2>9, <2>10 DEF m, s2, q2, l2
<1> QED BY <1>1 DEF ClaimsAreFinite, AttemptsAreEarned

LEMMA InitLossInv == Init => LossInv
<1> SUFFICES ASSUME Init PROVE LossInv
  OBVIOUS
<1>1. OneTaskPerRun /\ DispatchersBeat
  BY DEF Init, OneTaskPerRun, DispatchersBeat
<1>2. ASSUME NEW j \in Jobs
      PROVE  /\ IsFiniteSet(RetryClaims(j)) /\ TriesOf(j) + PendingOf(j) <= Cardinality(LossesOf(j))
             /\ TriesOf(j) <= Cardinality(SettledOf(j))
  <2>1. RetryClaims(j) = {}
    BY DEF Init, RetryClaims, ClaimsOf
  <2>2. AttemptsOf(j) = {}
    BY DEF Init, AttemptsOf, AbsentRun
  <2>3. TriesOf(j) = 0 /\ IsFiniteSet(RetryClaims(j))
    BY <2>1, <2>2, FS_EmptySet DEF TriesOf
  <2>4. PendingOf(j) = 0
    BY DEF Init, NewSubscription, PendingOf
  <2>5. Cardinality(LossesOf(j)) \in Nat /\ Cardinality(SettledOf(j)) \in Nat
    BY Finite, FS_CardinalityType
  <2> QED BY <2>3, <2>4, <2>5
<1> QED BY <1>1, <1>2 DEF LossInv, ClaimsAreFinite, AttemptsAreEarned

LEMMA LossInvCounts == IInv /\ LossInv => OneLossOneAttempt
<1> SUFFICES ASSUME IInv, LossInv, NEW j \in Jobs
             PROVE  Cardinality(AttemptsOf(j)) + PendingOf(j) + Cardinality(RetryClaims(j))
                      <= Cardinality(LossesOf(j))
  BY DEF OneLossOneAttempt, RetryClaims
<1>1. Cardinality(AttemptsOf(j)) \in Nat /\ Cardinality(LossesOf(j)) \in Nat
  BY Finite, FS_CardinalityType
<1>2. Cardinality(RetryClaims(j)) \in Nat
  BY FS_CardinalityType DEF LossInv, ClaimsAreFinite
<1>3. PendingOf(j) \in {0, 1}
  BY DEF PendingOf
<1>4. Cardinality(AttemptsOf(j)) + Cardinality(RetryClaims(j)) + PendingOf(j) <= Cardinality(LossesOf(j))
  BY DEF LossInv, AttemptsAreEarned, TriesOf
<1> QED BY <1>1, <1>2, <1>3, <1>4

\* Where no live dispatcher is taken for dead, the attempts a job has had, has
\* claimed and has pending never outnumber its interrupted runs, however many
\* processes tick, crash and sweep, and whoever else starts runs of the job.
THEOREM LossesEarnOneAttempt == ASSUME ~LapseLive PROVE Spec => []OneLossOneAttempt
<1>1. IInv /\ LossInv /\ [Next]_vars => LossInv'
  BY BeatsStep, AttemptsStep, OneTaskStep DEF LossInv
<1> QED BY <1>1, InitLossInv, LossInvCounts, Invariance, PTL DEF Spec
=============================================================================
