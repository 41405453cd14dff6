--------------------------- MODULE SchedulerProps ---------------------------
(***************************************************************************)
(* What the scheduler must and must not do: invariants, action properties, *)
(* the abstract ledger of runs it implements, and liveness under the       *)
(* fairness of its tick loop.  The last section states what the code's own *)
(* comments and decision records claim and some behaviour contradicts.     *)
(***************************************************************************)
EXTENDS Scheduler

(* Counting runs and attempts *)

ClaimsOf(j)     == {c \in claims : c.job = j}
ScheduleRuns(j) == {r \in RunningOf(run, j) : run[r].trigger # "manual"}
AttemptsOf(j)   == {r \in RunIds : /\ run[r].job = j /\ run[r].status # "absent"
                                   /\ run[r].trigger = "retry"}
LossesOf(j)     == {r \in RunIds : /\ run[r].job = j /\ run[r].trigger \in {"scheduled", "resumed"}
                                   /\ "interrupted" \in {run[r].status, advanced[r]}}
PendingOf(j)    == IF sub[j].retry = "none" THEN 0 ELSE 1

\* One process, nobody running jobs by hand: a job is never in the hands of
\* two dispatches at once, counting the claims whose run row is not written.
OneScheduledRun ==
  \A j \in Jobs : Cardinality(ClaimsOf(j)) + Cardinality(ScheduleRuns(j)) <= 1

\* "One loss, one attempt": the attempts made, claimed and pending never
\* outnumber the scheduled and resumed runs that were interrupted.
OneLossOneAttempt ==
  \A j \in Jobs :
    Cardinality(AttemptsOf(j)) + PendingOf(j)
      + Cardinality({c \in ClaimsOf(j) : c.trigger = "retry"})
    <= Cardinality(LossesOf(j))

\* A job whose run waits for its subscriber is not run by the schedule: the
\* row a claim inserts never finds an ask unanswered.
ParkHoldsTheSchedule ==
  [][\A r \in RunIds :
       (run[r].status = "absent" /\ run'[r].status = "running"
          /\ run'[r].trigger \in {"scheduled", "retry"})
       => ParkedOf(run, run'[r].job) = {}]_vars

-----------------------------------------------------------------------------
(* Stops *)

\* The CHECK of migration 110: no statement writes a pause code on a row that
\* it leaves switched on.
PauseIsOff == \A j \in Jobs : sub[j].code # "none" => ~sub[j].enabled

\* Whoever lifts a stop drops the attempt earned while it was in force.
StopLiftDropsRetry ==
  [][\A j \in Jobs : (sub[j].code # "none" /\ sub'[j].code = "none")
                     => sub'[j].retry = "none"]_vars

\* A run that ends while its job is stopped does not replace the stop, except
\* by the two codes that must win.
EngineKeepsStop ==
  [][\A r \in RunIds :
       LET j == run[r].job
       IN (advanced'[r] # advanced[r] /\ sub[j].code # "none")
          => sub'[j].code \in {sub[j].code, "condition_met_once", "invalid_timezone"}]_vars

\* Only MaxFailures runs that really failed pause a job: not interruptions,
\* not asks, not an agent or a sign-in the subscriber has lost.
AutoPauseIsEarned ==
  \A j \in Jobs :
    sub[j].code = "auto_paused" =>
      Cardinality({r \in RunIds : run[r].job = j /\ advanced[r] = "failed"}) >= MaxFailures

\* A report that a notification reached nobody survives the run's own write,
\* whichever of the two comes first.
ReportedStaysUndelivered ==
  \A r \in RunIds : ~(run[r].failure /\ run[r].delivered)

\* The continuation of an answered run says nothing about the schedule: an
\* edit made while it was in flight stands.
ResumedRunLeavesSchedule ==
  [][\A r \in RunIds :
       (advanced'[r] # advanced[r] /\ run[r].trigger = "resumed")
       => LET j == run[r].job
          IN sub'[j].next = sub[j].next /\ sub'[j].plan = sub[j].plan]_vars

\* Once the subscriber has switched a job off nothing claims it, whatever its
\* in-flight run earns afterwards, until they switch it on.
PausedIsNotClaimed ==
  [][\A c \in claims' : c \in claims \/ chosen[c.job]]_vars

\* An occurrence of a recurring job that came due while the definition was
\* suspended is not made up for when the suspension is lifted.
NothingIsMadeUpFor ==
  [][\A c \in claims' :
       c \in claims \/ c.trigger = "retry" \/ c.snap.kind = "once"
                   \/ c.job \notin missed]_vars

-----------------------------------------------------------------------------
(* The run table *)

\* A recovery notice is owed only by a retry that was itself interrupted.
NoticeOnlyExhausted ==
  \A r \in RunIds :
    Owed(run[r]) => run[r].trigger = "retry" /\ run[r].status = "interrupted"

\* What a run was recorded as is final, also when its dispatcher turns out to
\* be alive after another process has called the run interrupted.
OutcomeIsFinal ==
  [][\A r \in RunIds : Completed(run[r]) => run'[r].status = run[r].status]_vars

LedgerEntry(row) ==
  CASE row.status = "absent"  -> "absent"
    [] row.status = "running" -> IF row.trigger = "resumed" THEN "resumed" ELSE "fresh"
    [] Answerable(row)        -> "asking"
    [] OTHER                  -> "closed"

Ledger == INSTANCE RunLedger WITH ledger <- [r \in RunIds |-> LedgerEntry(run[r])]

\* The scheduler implements the ledger.
ImplementsLedger == Ledger!Spec

-----------------------------------------------------------------------------
(* Liveness.  The event loop runs every task that can take a step, a killed *)
(* process is restarted, dispatches end (every stream has a read timeout),  *)
(* and the clock moves.                                                     *)

Advance(r) ==
  \E t \in tasks : t.run = r /\ (StartTask(t) \/ RecordOutcome(t) \/ FinishRun(t) \/ PostCheckAsk(t))

Fairness ==
  /\ \A p \in Procs : WF_vars(Start(p)) /\ WF_vars(HealStuckRuns(p)) /\ WF_vars(EndTick(p))
                      /\ WF_vars(DeliverDueNotices(p)) /\ WF_vars(ClaimDueJobs(p))
  /\ \A j \in Jobs : WF_vars(RetryComesDue(j))
                     /\ WF_vars(\E c \in ClaimsOf(j) : BeginDispatch(c))
  /\ \A r \in RunIds : WF_vars(Advance(r)) /\ WF_vars(HeartbeatLapses(r))

FairSpec == Spec /\ Fairness

\* Bound: the table has room for one more round of claims.
Full == ~Room(Cardinality(Jobs))

\* No run reads as work in progress forever, whatever dies or fails.
NoRunIsStranded ==
  \A r \in RunIds : (run[r].status = "running") ~> Completed(run[r])

\* A pending attempt is made, unless somebody stops the job or it waits for
\* its subscriber: also for a one-shot its own run has already retired.
RetryIsTaken ==
  \A j \in Jobs :
    (sub[j].retry # "none") ~> \/ sub[j].retry = "none" \/ sub[j].code # "none"
                               \/ ParkedOf(run, j) # {} \/ Full

\* A due job neither sits nor loops: its occurrence is executed and the
\* schedule moves on, even when recording an outcome fails.
DueJobMovesOn ==
  \A j \in Jobs :
    (sub[j].enabled /\ sub[j].next = "due") ~>
      (~sub[j].enabled \/ sub[j].next = "future" \/ ParkedOf(run, j) # {} \/ Full)

-----------------------------------------------------------------------------
(* What the code says of itself, and some behaviour contradicts *)

\* A due recovery notice that is sent reaches the user: it stops being due only
\* because it was delivered, overtaken, or too old.
DueNoticeIsDelivered ==
  [][\A r \in RunIds :
       (run[r].notice = "due" /\ run'[r].notice # "due")
       => r \in told' \/ run'[r].notice \in {"too_old", "superseded"}]_vars
=============================================================================
