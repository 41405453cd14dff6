------------------------------- MODULE RunRow -------------------------------
(***************************************************************************)
(* scheduled_job_runs, and what each statement of ScheduledJobRepository    *)
(* makes of the whole table.  The table is a function over the run ids,    *)
(* handed out in order; an id not yet handed out is "absent".              *)
(*                                                                         *)
(* ask is parked_task_id: the agent-runner task that waits ("task"), the   *)
(* check of the watch itself ("check"), or NULL.  beat says whether        *)
(* last_seen_at is within STALE_RUN_AFTER_SECONDS.  notice is              *)
(* notice_due_at: not owed, owed for later, owed now, owed past            *)
(* NOTICE_GIVE_UP_AFTER_SECONDS, or owed by a run that a later completed   *)
(* run of the same job has overtaken.                                      *)
(***************************************************************************)
EXTENDS JobRow

CONSTANTS Jobs,     \* the subscriptions of one definition
          MaxRuns   \* bound: run rows ever inserted

ASSUME MaxRunsAssumption == MaxRuns \in Nat

RunIds == 1 .. MaxRuns

Statuses == Outcomes \cup {"absent", "running"}
Asks     == {"none", "task", "check"}
Notices  == {"none", "waiting", "due", "too_old", "superseded"}

RunRecord ==
  [job : Jobs, status : Statuses, trigger : Triggers, ask : Asks,
   beat : {"fresh", "stale"}, notice : Notices, delivered : BOOLEAN,
   failure : BOOLEAN]

\* What _finalize is told of a finished dispatch.
OutcomeRecord == [status : Outcomes, ask : Asks, code : Codes, counts : BOOLEAN,
                  delivered : BOOLEAN, badTimezone : BOOLEAN]

AbsentRun == [job |-> CHOOSE j \in Jobs : TRUE, status |-> "absent",
              trigger |-> "scheduled", ask |-> "none", beat |-> "fresh",
              notice |-> "none", delivered |-> FALSE, failure |-> FALSE]

Completed(row)  == row.status \notin {"absent", "running"}
Answerable(row) == row.status = "auth_required" /\ row.ask # "none"
Owed(row)       == row.notice # "none"

Unused(run)      == {r \in RunIds : run[r].status = "absent"}
NextRunId(run, r) == r \in Unused(run) /\ \A q \in Unused(run) : r <= q

\* Mutant: a run that was interrupted still holds its job.
RunningOf_Interrupted(run, j) ==
  {r \in RunIds : run[r].job = j /\ run[r].status \in {"running", "interrupted"}}

RunningOf(run, j) == {r \in RunIds : run[r].job = j /\ run[r].status = "running"}
ParkedOf(run, j) == {r \in RunIds : run[r].job = j /\ Answerable(run[r])}

\* create_run: last_seen_at starts at insert time.
CreateRun(run, r, j, trigger) ==
  [run EXCEPT ![r] = [AbsentRun EXCEPT !.job = j, !.status = "running",
                                       !.trigger = trigger]]

TouchRun(run, r, beat) == [run EXCEPT ![r].beat = beat]

\* The runs S complete together as rows; what they overtake no longer owes
\* its notice.  Rows completed in one statement are ordered by id.
CompleteAs(run, S, rows) ==
  LET overtaken(x) == \E r \in S : /\ run[r].job = run[x].job
                                   /\ x \in S => r > x
      kept(x) == IF x \in S THEN rows[x] ELSE run[x]
  IN [x \in RunIds |->
        IF /\ overtaken(x)
           /\ Owed(kept(x))
        THEN [kept(x) EXCEPT !.notice = "superseded"] ELSE kept(x)]

\* Mutants: a reported failure is forgotten; a completion does not ask whether
\* the run is still running.
DeliveredAfter_Forgets(row, o) == o.delivered
Finalisable_Always(row)        == TRUE

\* A lost retry has exhausted recovery, and owes its subscriber a notice.
NoticeAfter(row, status) ==
  IF status = "interrupted" /\ row.trigger = "retry" THEN "waiting" ELSE row.notice

DeliveredAfter(row, o) == o.delivered /\ ~row.failure

\* Only a run still running is finalised.
Finalisable(row) == row.status = "running"

CompleteRun(run, r, o) ==
  IF ~Finalisable(run[r]) THEN run
  ELSE CompleteAs(run, {r}, [run EXCEPT
         ![r] = [@ EXCEPT !.status = o.status, !.ask = o.ask,
                          !.delivered = DeliveredAfter(run[r], o),
                          !.notice = NoticeAfter(run[r], o.status)]])

\* close_run_minimally: neither the ask nor the notice is recorded.
CloseRunMinimally(run, r, o) ==
  IF ~Finalisable(run[r]) THEN run
  ELSE CompleteAs(run, {r}, [run EXCEPT ![r].status = o.status])

\* Mutant: only scheduled runs are swept.
StaleRuns_ScheduledOnly(run, exclude) ==
  {r \in RunIds : /\ run[r].status = "running" /\ run[r].beat = "stale"
                  /\ r \notin exclude /\ run[r].trigger = "scheduled"}

\* interrupt_stale_runs, for a process dispatching the runs in exclude.
StaleRuns(run, exclude) ==
  {r \in RunIds : /\ run[r].status = "running"
                  /\ run[r].beat = "stale"
                  /\ r \notin exclude}

InterruptRuns(run, S) ==
  CompleteAs(run, S,
    [r \in RunIds |->
       [run[r] EXCEPT !.status = "interrupted",
                      !.notice = NoticeAfter(run[r], "interrupted")]])

\* claim_due_notices: what is given up, and what is claimed for this round.
AbandonedNotices(run) ==
  {r \in RunIds : run[r].notice \in {"too_old", "superseded"}}
DueNotices(run) == {r \in RunIds : run[r].notice = "due"}

\* The rows claim_due_notices returns for the claimed runs.
ClaimedItem(run, r) == [run_id |-> r, subscription_id |-> run[r].job]

\* told: the claimed runs whose notice was delivered, and cleared.
AfterNotices(run, told) ==
  [r \in RunIds |->
     CASE r \in AbandonedNotices(run) \cup told -> [run[r] EXCEPT !.notice = "none"]
       [] r \in DueNotices(run) \ told -> [run[r] EXCEPT !.notice = "waiting"]
       [] OTHER -> run[r]]

\* clear_parked_task: the conditional write that decides who answers.
ClearParkedTask(run, r) == [run EXCEPT ![r].ask = "none"]

MarkRunDelivered(run, r) ==
  IF run[r].status = "auth_required" /\ ~run[r].failure
  THEN [run EXCEPT ![r].delivered = TRUE] ELSE run

MarkRunUndelivered(run, r) ==
  [run EXCEPT ![r] = [@ EXCEPT !.delivered = FALSE, !.failure = TRUE]]
=============================================================================
