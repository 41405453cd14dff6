------------------------------- MODULE JobRow -------------------------------
(***************************************************************************)
(* One row of scheduled_job_subscriptions (what the console calls a job),  *)
(* and what each statement of ScheduledJobRepository and SchedulerService  *)
(* makes of it.  Every operator takes the row as the statement finds it    *)
(* and returns the row it leaves, so the state machine in Scheduler decides *)
(* only which statement runs, in which transaction, and when.              *)
(*                                                                         *)
(* Timestamps are kept as what a comparison with NOW() tells apart:        *)
(* next_run_at is "future" or "due", retry_at is "none", "pending" (set,   *)
(* not reached) or "due".  sched counts the versions of the trigger in     *)
(* force, and plan is the version next_run_at was computed from.           *)
(***************************************************************************)
EXTENDS Naturals

CONSTANT MaxFailures  \* scheduled_job_definitions.max_failures

ASSUME MaxFailuresAssumption == MaxFailures \in Nat \ {0}

Kinds == {"once", "recurring"}

\* PauseCode, one member per way a stop is treated: by_user stands for
\* manually_paused and disabled_by_user, sign_in for awaiting_sign_in and
\* sign_in_expired, unreachable also for undelivered, elapsed for the three
\* elapsed_* codes.
Codes == {"none", "by_user", "auto_paused", "sign_in", "no_offline_token",
          "agent_inaccessible", "access_revoked", "unreachable",
          "condition_met_once", "invalid_timezone", "elapsed"}

SignInHolds == {"sign_in", "no_offline_token"}

Triggers == {"scheduled", "retry", "manual", "resumed"}

Outcomes == {"success", "failed", "condition_not_met", "interrupted",
             "auth_required"}

SubscriptionRow ==
  [enabled : BOOLEAN, code : Codes, next : {"future", "due"}, plan : Nat,
   retry : {"none", "pending", "due"}, fails : Nat, kind : Kinds, sched : Nat]

NewSubscription(kind) ==
  [enabled |-> TRUE, code |-> "none", next |-> "future", plan |-> 0,
   retry |-> "none", fails |-> 0, kind |-> kind, sched |-> 0]

\* What a dispatch carries of the row it was claimed from: the trigger.
Snapshots == [kind : Kinds, sched : Nat]
Snapshot(s) == [kind |-> s.kind, sched |-> s.sched]

Elapsed(s) == s.kind = "once" /\ s.next = "due"

-----------------------------------------------------------------------------
(* The claim *)

RetryDue(s) == s.retry = "due"

\* Mutants: the retry branch asks for enabled, or does not look at the code.
DueRow_EnabledRetry(s) == s.enabled /\ (s.next = "due" \/ RetryDue(s))
DueRow_AnyRetry(s)     == (s.enabled /\ s.next = "due") \/ RetryDue(s)

\* The two wake-up reasons.  The retry branch trusts the code, not enabled.
DueRow(s) == \/ s.enabled /\ s.next = "due"
             \/ RetryDue(s) /\ s.code = "none"

ClaimRow(s) == [s EXCEPT !.retry = "none"]

-----------------------------------------------------------------------------
(* What a finished run writes *)

DisableSubscription(s, code) ==
  [s EXCEPT !.enabled = FALSE, !.code = code, !.retry = "none"]

DisableIfEnabled(s, code) ==
  IF s.enabled THEN DisableSubscription(s, code) ELSE s

\* The plan of the next occurrence: none for a one-shot.
ComputeNextRun(snap) == IF snap.kind = "once" THEN {} ELSE {snap.sched}

\* Mutant: interruptions count.
FailsAfter_AnyButSuccess(fails, status) == IF status = "success" THEN 0 ELSE fails + 1

FailsAfter(fails, status) ==
  CASE status = "failed" -> fails + 1
    [] status \in {"success", "condition_not_met"} -> 0
    [] OTHER -> fails

NextAfter(s, plans)    == IF plans = {} THEN s.next ELSE "future"
Retires(plans, leave)  == plans = {} /\ ~leave
AutoPauses(s, status)  == /\ s.enabled
                          /\ FailsAfter(s.fails, status) > s.fails
                          /\ FailsAfter(s.fails, status) >= MaxFailures

\* complete_job: plans is the computed next occurrence ({} for NULL).
CompleteJob(s, status, plans, retry, code, leave) ==
  [s EXCEPT
     !.fails   = FailsAfter(@, status),
     !.next    = NextAfter(s, plans),
     !.plan    = IF plans = {} THEN @ ELSE CHOOSE v \in plans : TRUE,
     !.retry   = IF retry THEN "pending" ELSE @,
     !.enabled = @ /\ ~Retires(plans, leave) /\ ~AutoPauses(s, status),
     !.code    = IF AutoPauses(s, status) THEN "auto_paused"
                 ELSE IF code # "none" /\ (Retires(plans, leave) \/ ~s.enabled) THEN code
                 ELSE @]

\* An interrupted occurrence, or the continuation of one, earns one attempt.
EarnsRetry_NotManual(trigger) == trigger # "manual"  \* mutant: a retry earns another
EarnsRetry(trigger) == trigger \in {"scheduled", "resumed"}

\* The code of the stop this run asks for: none over a stop already in place,
\* except that an unresolvable timezone always wins.
StopGiven_Overwrites(s, code) == code  \* mutant
StopGiven(s, code) ==
  IF ~s.enabled /\ s.code # "none" /\ code # "invalid_timezone" THEN "none" ELSE code

LeavesSchedule_Never(trigger) == FALSE  \* mutant: a resumed run echoes its plan
LeavesSchedule(trigger) == trigger = "resumed"

\* The first transaction of _finalize.  o says how the run ended, destroy
\* whether the job is a watch that fires once.
FinalizeRow(s, o, trigger, snap, destroy) ==
  LET leave  == LeavesSchedule(trigger)
      broken == o.badTimezone /\ snap.kind = "recurring" /\ ~leave
      plans  == IF leave \/ broken THEN {} ELSE ComputeNextRun(snap)
      code   == StopGiven(s, IF broken /\ o.code = "none" THEN "invalid_timezone" ELSE o.code)
      fired  == IF destroy /\ o.status = "success"
                THEN DisableSubscription(s, "condition_met_once") ELSE s
      held   == IF ~o.counts /\ code # "none"
                THEN DisableSubscription(fired, code) ELSE fired
  IN CompleteJob(held, IF o.counts THEN o.status ELSE "interrupted", plans,
                 o.status = "interrupted" /\ EarnsRetry(trigger), code, leave)

\* interrupt_stale_runs: the attempt a swept run earns its job.
GrantRetry(s) == IF s.code = "none" THEN [s EXCEPT !.retry = "pending"] ELSE s

-----------------------------------------------------------------------------
(* What people do to the row *)

PauseRow(s) == DisableSubscription(s, "by_user")

\* resume_job refuses a one-shot whose moment has passed.
ResumableRow(s) == ~Elapsed(s)

\* A recurring trigger is computed anew from now; a one-shot keeps its moment.
Recomputed(s) ==
  IF s.kind = "once" THEN s ELSE [s EXCEPT !.next = "future", !.plan = s.sched]

ResumeRow(s) ==
  Recomputed([s EXCEPT !.enabled = TRUE, !.fails = 0, !.code = "none", !.retry = "none"])

\* update_job with enabled in the request: either way a pending retry goes.
ToggleRow_KeepsRetry(s, on) ==  \* mutant
  [s EXCEPT !.enabled = on, !.code = IF on THEN "none" ELSE "by_user"]

ToggleRow(s, on) ==
  [s EXCEPT !.enabled = on, !.code = IF on THEN "none" ELSE "by_user",
            !.retry = "none"]

\* update_job with a new trigger for the caller alone: when says whether its
\* first occurrence lies ahead.
EditRow(s, kind, when) ==
  [s EXCEPT !.kind = kind, !.sched = @ + 1, !.plan = s.sched + 1, !.next = when]

\* A trigger adopted from the definition never arms an elapsed one-shot.
AdoptRow(s, kind, when) ==
  LET edited == EditRow(s, kind, when)
  IN IF kind = "once" /\ when = "due"
     THEN DisableSubscription(edited, "elapsed") ELSE edited

UnsuspendRow_AsItStands(s) == s  \* mutant
UnsuspendRow(s) ==
  IF s.enabled /\ s.next = "due" THEN Recomputed(s) ELSE s

\* recode_stop: the reason of a stop, only while the row is still off.
RecodeStop(s, code) == IF s.enabled THEN s ELSE [s EXCEPT !.code = code]

\* _switch_on_held: what may become of a row that was listed as held, with its
\* moment then passed or not.  It is resumed, or its stop takes the code of
\* what refused the resume (its sign-in, its channel, its moment), or nothing
\* is written (its timezone).
ReleasedRows(s, passed) ==
  IF passed THEN {RecodeStop(s, "elapsed")}
  ELSE {s, RecodeStop(s, "sign_in"), RecodeStop(s, "unreachable"),
        IF Elapsed(s) THEN RecodeStop(s, "elapsed") ELSE ResumeRow(s)}

\* A member of the sharing group loses access to the job, and regains it: the
\* row is switched on, then held again if the member has not signed in or cannot
\* be reached on its channel.  An elapsed one-shot stays off.
WithdrawRow(s) == DisableSubscription(s, "access_revoked")

RestoredRows(s) ==
  LET back == [s EXCEPT !.enabled = TRUE, !.code = "none", !.retry = "none"]
  IN IF Elapsed(s) THEN {[s EXCEPT !.code = "elapsed", !.retry = "none"]}
     ELSE {Recomputed(back)}
          \cup {DisableSubscription(back, c) : c \in {"sign_in", "unreachable"}}
=============================================================================
