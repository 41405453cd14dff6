-------------------------- MODULE SchedulerProofs ---------------------------
(***************************************************************************)
(* The safety of the scheduler for any number of jobs, runs, processes and *)
(* requests: both tables stay well formed whatever the interleaving.       *)
(*                                                                         *)
(* The inductive invariant IInv strengthens TypeOK in the two tables: a    *)
(* subscription is a SoundRow and a run a SoundRun, which is what          *)
(* PauseIsOff, NoticeOnlyExhausted and ReportedStaysUndelivered say of     *)
(* the tables.                                                             *)
(*                                                                         *)
(* The scheduler implements the ledger of runs, and what a run was         *)
(* recorded as is final.  Both follow from RunStep: whatever a step does,  *)
(* it leaves the run table as it was or executes one statement of RunRow   *)
(* on it, with the facts about that statement's arguments that IInv gives. *)
(***************************************************************************)
EXTENDS SchedulerProps, TLAPS

-----------------------------------------------------------------------------
(* The rows: every statement of JobRow and RunRow leaves a well-typed row, and *)
(* a subscription that carries a pause code only when it is off.               *)

\* A subscription the pause_is_off constraint of migration 110 admits.
SoundRow == {s \in SubscriptionRow : s.code # "none" => ~s.enabled}

\* A new subscription is sound.
LEMMA NewSubscriptionSound ==
  ASSUME NEW kind \in Kinds
  PROVE  NewSubscription(kind) \in SoundRow
BY DEF NewSubscription, SoundRow, SubscriptionRow, Codes, Kinds

\* The claim and a disabling statement keep a row sound.
LEMMA ClaimSound == ASSUME NEW s \in SoundRow PROVE ClaimRow(s) \in SoundRow
BY DEF ClaimRow, SoundRow, SubscriptionRow

LEMMA DisableSound ==
  ASSUME NEW s \in SoundRow, NEW code \in Codes
  PROVE  DisableSubscription(s, code) \in SoundRow
BY DEF DisableSubscription, SoundRow, SubscriptionRow

LEMMA DisableIfEnabledSound ==
  ASSUME NEW s \in SoundRow, NEW code \in Codes
  PROVE  DisableIfEnabled(s, code) \in SoundRow
BY DisableSound DEF DisableIfEnabled

\* The failure counter stays a natural number.
LEMMA FailsAfterNat ==
  ASSUME NEW n \in Nat, NEW status \in Outcomes
  PROVE  FailsAfter(n, status) \in Nat
BY DEF FailsAfter, Outcomes

\* The plan a finished run computes is the trigger of its snapshot, or none.
LEMMA PlanOfSnapshot ==
  ASSUME NEW snap \in Snapshots
  PROVE  ComputeNextRun(snap) \in {{}, {snap.sched}} /\ snap.sched \in Nat
BY DEF ComputeNextRun, Snapshots

\* complete_job: an automatic pause and a given code are written only on a
\* row that this write, or an earlier one, switches off.
LEMMA CompleteJobSound ==
  ASSUME NEW s \in SoundRow, NEW status \in Outcomes, NEW v \in Nat,
         NEW plans \in {{}, {v}}, NEW retry \in BOOLEAN, NEW code \in Codes,
         NEW leave \in BOOLEAN
  PROVE  CompleteJob(s, status, plans, retry, code, leave) \in SoundRow
<1> DEFINE t == CompleteJob(s, status, plans, retry, code, leave)
<1>1. s \in SubscriptionRow /\ (s.code # "none" => ~s.enabled)
  BY DEF SoundRow
<1>2. FailsAfter(s.fails, status) \in Nat
  BY <1>1, FailsAfterNat DEF SubscriptionRow
<1>3. NextAfter(s, plans) \in {"future", "due"}
  BY <1>1 DEF NextAfter, SubscriptionRow
<1>4. (IF plans = {} THEN s.plan ELSE CHOOSE w \in plans : TRUE) \in Nat
  BY <1>1 DEF SubscriptionRow
<1>5. AutoPauses(s, status) \in BOOLEAN /\ Retires(plans, leave) \in BOOLEAN
  BY <1>1, <1>2 DEF AutoPauses, Retires, SubscriptionRow
<1>6. t \in SubscriptionRow
  <2> DEFINE fails   == FailsAfter(s.fails, status)
             next    == NextAfter(s, plans)
             plan    == IF plans = {} THEN s.plan ELSE CHOOSE w \in plans : TRUE
             attempt == IF retry THEN "pending" ELSE s.retry
             enabled == s.enabled /\ ~Retires(plans, leave) /\ ~AutoPauses(s, status)
             stop    == IF AutoPauses(s, status) THEN "auto_paused"
                        ELSE IF code # "none" /\ (Retires(plans, leave) \/ ~s.enabled)
                        THEN code ELSE s.code
  <2>1. fails \in Nat /\ next \in {"future", "due"} /\ plan \in Nat
    BY <1>2, <1>3, <1>4
  <2>2. attempt \in {"none", "pending", "due"} /\ enabled \in BOOLEAN
    BY <1>1 DEF SubscriptionRow
  <2>3. stop \in Codes
    BY <1>1 DEF SubscriptionRow, Codes
  <2>4. t = [s EXCEPT !.fails = fails, !.next = next, !.plan = plan, !.retry = attempt,
                      !.enabled = enabled, !.code = stop]
    BY DEF CompleteJob
  <2> HIDE DEF t, fails, next, plan, attempt, enabled, stop
  <2> QED BY <1>1, <2>1, <2>2, <2>3, <2>4 DEF SubscriptionRow
<1>7. t.code # "none" => ~t.enabled
  BY <1>1, <1>5 DEF CompleteJob, SubscriptionRow
<1> QED BY <1>6, <1>7 DEF SoundRow

\* The first transaction of _finalize keeps the row sound.
LEMMA FinalizeSound ==
  ASSUME NEW s \in SoundRow, NEW o \in OutcomeRecord, NEW trigger \in Triggers,
         NEW snap \in Snapshots, NEW destroy \in BOOLEAN
  PROVE  FinalizeRow(s, o, trigger, snap, destroy) \in SoundRow
<1> DEFINE leave  == LeavesSchedule(trigger)
           broken == o.badTimezone /\ snap.kind = "recurring" /\ ~leave
           plans  == IF leave \/ broken THEN {} ELSE ComputeNextRun(snap)
           asked  == IF broken /\ o.code = "none" THEN "invalid_timezone" ELSE o.code
           code   == StopGiven(s, asked)
           fired  == IF destroy /\ o.status = "success"
                     THEN DisableSubscription(s, "condition_met_once") ELSE s
           held   == IF ~o.counts /\ code # "none"
                     THEN DisableSubscription(fired, code) ELSE fired
           status == IF o.counts THEN o.status ELSE "interrupted"
           retry  == o.status = "interrupted" /\ EarnsRetry(trigger)
<1>1. leave \in BOOLEAN /\ retry \in BOOLEAN
  BY DEF LeavesSchedule, EarnsRetry
<1>2. snap.sched \in Nat /\ plans \in {{}, {snap.sched}}
  BY PlanOfSnapshot
<1>3. code \in Codes
  BY DEF StopGiven, OutcomeRecord, Codes
<1>4. fired \in SoundRow
  BY DisableSound DEF Codes
<1>5. held \in SoundRow
  BY <1>3, <1>4, DisableSound
<1>6. status \in Outcomes
  BY DEF OutcomeRecord, Outcomes
<1>7. CompleteJob(held, status, plans, retry, code, leave) \in SoundRow
  <2> HIDE DEF leave, plans, code, held, status, retry
  <2> QED BY <1>1, <1>2, <1>3, <1>5, <1>6, CompleteJobSound
<1> QED BY <1>7 DEF FinalizeRow

\* The healer grants an attempt only to a job nobody stopped.
LEMMA GrantRetrySound == ASSUME NEW s \in SoundRow PROVE GrantRetry(s) \in SoundRow
BY DEF GrantRetry, SoundRow, SubscriptionRow

\* What people do to a row.
LEMMA PauseSound == ASSUME NEW s \in SoundRow PROVE PauseRow(s) \in SoundRow
BY DisableSound DEF PauseRow, Codes

LEMMA RecomputedSound == ASSUME NEW s \in SoundRow PROVE Recomputed(s) \in SoundRow
BY DEF Recomputed, SoundRow, SubscriptionRow

LEMMA ResumeSound == ASSUME NEW s \in SoundRow PROVE ResumeRow(s) \in SoundRow
<1> DEFINE on == [s EXCEPT !.enabled = TRUE, !.fails = 0, !.code = "none", !.retry = "none"]
<1>1. on \in SoundRow
  BY DEF SoundRow, SubscriptionRow, Codes
<1> QED BY <1>1, RecomputedSound DEF ResumeRow

LEMMA ToggleSound ==
  ASSUME NEW s \in SoundRow, NEW on \in BOOLEAN PROVE ToggleRow(s, on) \in SoundRow
BY DEF ToggleRow, SoundRow, SubscriptionRow, Codes

LEMMA EditSound ==
  ASSUME NEW s \in SoundRow, NEW kind \in Kinds, NEW when \in {"future", "due"}
  PROVE  EditRow(s, kind, when) \in SoundRow
<1>1. s \in SubscriptionRow /\ s.sched + 1 \in Nat
  BY DEF SoundRow, SubscriptionRow
<1>2. EditRow(s, kind, when) \in SubscriptionRow
  BY <1>1 DEF EditRow, SubscriptionRow
<1> QED BY <1>1, <1>2 DEF EditRow, SoundRow, SubscriptionRow

LEMMA AdoptSound ==
  ASSUME NEW s \in SoundRow, NEW kind \in Kinds, NEW when \in {"future", "due"}
  PROVE  AdoptRow(s, kind, when) \in SoundRow
BY EditSound, DisableSound DEF AdoptRow, Codes

LEMMA UnsuspendSound == ASSUME NEW s \in SoundRow PROVE UnsuspendRow(s) \in SoundRow
BY RecomputedSound DEF UnsuspendRow

\* A release that is refused recodes a stop: sound because the statement
\* writes only where the row is still off.
LEMMA RecodeSound ==
  ASSUME NEW s \in SoundRow, NEW code \in Codes \ {"none"}
  PROVE  RecodeStop(s, code) \in SoundRow
BY DEF RecodeStop, SoundRow, SubscriptionRow

LEMMA ReleaseSound ==
  ASSUME NEW s \in SoundRow, NEW passed \in BOOLEAN
  PROVE  ReleasedRows(s, passed) \subseteq SoundRow
<1>1. {RecodeStop(s, "elapsed"), RecodeStop(s, "sign_in"), RecodeStop(s, "unreachable")}
        \subseteq SoundRow
  BY RecodeSound DEF Codes
<1>2. ResumeRow(s) \in SoundRow
  BY ResumeSound
<1> QED BY <1>1, <1>2 DEF ReleasedRows

LEMMA WithdrawSound == ASSUME NEW s \in SoundRow PROVE WithdrawRow(s) \in SoundRow
BY DisableSound DEF WithdrawRow, Codes

\* Regained access lifts access_revoked only, which marks a row that is off.
LEMMA RestoreSound ==
  ASSUME NEW s \in SoundRow, s.code = "access_revoked"
  PROVE  RestoredRows(s) \subseteq SoundRow
<1> DEFINE back == [s EXCEPT !.enabled = TRUE, !.code = "none", !.retry = "none"]
<1>1. back \in SoundRow
  BY DEF SoundRow, SubscriptionRow, Codes
<1>2. [s EXCEPT !.code = "elapsed", !.retry = "none"] \in SoundRow
  BY DEF SoundRow, SubscriptionRow, Codes
<1>3. \A c \in {"sign_in", "unreachable"} : DisableSubscription(back, c) \in SoundRow
  BY <1>1, DisableSound DEF Codes
<1> QED BY <1>1, <1>2, <1>3, RecomputedSound DEF RestoredRows

-----------------------------------------------------------------------------
(* The run table *)

\* A run owes a notice only when it is a retry that was interrupted, one that
\* was reported undelivered does not count as delivered, and only a parked run
\* asks something.
SoundRun ==
  {x \in RunRecord : /\ Owed(x) => x.trigger = "retry" /\ x.status = "interrupted"
                     /\ ~(x.failure /\ x.delivered)
                     /\ x.ask # "none" => x.status = "auth_required"}

SoundOutcome == {o \in OutcomeRecord : o.ask # "none" => o.status = "auth_required"}

RunTable == [RunIds -> SoundRun]

\* An absent run is sound.
LEMMA AbsentSound == ASSUME Jobs # {} PROVE AbsentRun \in SoundRun
<1>1. (CHOOSE j \in Jobs : TRUE) \in Jobs
  OBVIOUS
<1> QED BY <1>1 DEF AbsentRun, SoundRun, RunRecord, Statuses, Triggers, Asks, Notices, Owed

\* Writing a sound row into a sound table.
LEMMA TableUpdate ==
  ASSUME NEW table \in RunTable, NEW r \in RunIds, NEW x \in SoundRun
  PROVE  [table EXCEPT ![r] = x] \in RunTable
BY DEF RunTable

\* create_run.
LEMMA CreateRunSound ==
  ASSUME NEW table \in RunTable, NEW r \in RunIds, NEW j \in Jobs, NEW trigger \in Triggers
  PROVE  CreateRun(table, r, j, trigger) \in RunTable
<1> DEFINE x == [AbsentRun EXCEPT !.job = j, !.status = "running", !.trigger = trigger]
<1>1. x \in SoundRun
  BY DEF AbsentRun, SoundRun, RunRecord, Statuses, Triggers, Asks, Notices, Owed
<1> QED BY <1>1, TableUpdate DEF CreateRun

\* touch_run, clear_parked_task, mark_run_delivered and mark_run_undelivered.
LEMMA TouchSound ==
  ASSUME NEW table \in RunTable, NEW r \in RunIds, NEW beat \in {"fresh", "stale"}
  PROVE  TouchRun(table, r, beat) \in RunTable
<1> DEFINE x == [table[r] EXCEPT !.beat = beat]
<1>1. x \in SoundRun
  BY DEF RunTable, SoundRun, RunRecord, Owed
<1>2. TouchRun(table, r, beat) = [table EXCEPT ![r] = x]
  BY DEF TouchRun
<1> QED BY <1>1, <1>2, TableUpdate

LEMMA ClearParkedSound ==
  ASSUME NEW table \in RunTable, NEW r \in RunIds
  PROVE  ClearParkedTask(table, r) \in RunTable
<1> DEFINE x == [table[r] EXCEPT !.ask = "none"]
<1>1. x \in SoundRun
  BY DEF RunTable, SoundRun, RunRecord, Owed, Asks
<1>2. ClearParkedTask(table, r) = [table EXCEPT ![r] = x]
  BY DEF ClearParkedTask
<1> QED BY <1>1, <1>2, TableUpdate

LEMMA MarkDeliveredSound ==
  ASSUME NEW table \in RunTable, NEW r \in RunIds
  PROVE  MarkRunDelivered(table, r) \in RunTable
<1> DEFINE x == [table[r] EXCEPT !.delivered = TRUE]
<1>1. CASE table[r].status = "auth_required" /\ ~table[r].failure
  <2>1. x \in SoundRun
    BY <1>1 DEF RunTable, SoundRun, RunRecord, Owed
  <2>2. MarkRunDelivered(table, r) = [table EXCEPT ![r] = x]
    BY <1>1 DEF MarkRunDelivered
  <2> QED BY <2>1, <2>2, TableUpdate
<1>2. CASE ~(table[r].status = "auth_required" /\ ~table[r].failure)
  BY <1>2 DEF MarkRunDelivered
<1> QED BY <1>1, <1>2

LEMMA MarkUndeliveredSound ==
  ASSUME NEW table \in RunTable, NEW r \in RunIds
  PROVE  MarkRunUndelivered(table, r) \in RunTable
<1> DEFINE x == [table[r] EXCEPT !.delivered = FALSE, !.failure = TRUE]
<1>1. x \in SoundRun
  BY DEF RunTable, SoundRun, RunRecord, Owed
<1>2. MarkRunUndelivered(table, r) = [table EXCEPT ![r] = x]
  BY DEF MarkRunUndelivered
<1> QED BY <1>1, <1>2, TableUpdate

\* The time steps of a notice keep it owed by the run that owes it.
LEMMA NoticeStepSound ==
  ASSUME NEW table \in RunTable, NEW r \in RunIds, Owed(table[r]),
         NEW n \in Notices
  PROVE  [table EXCEPT ![r].notice = n] \in RunTable
<1> DEFINE x == [table[r] EXCEPT !.notice = n]
<1>1. x \in SoundRun
  BY DEF RunTable, SoundRun, RunRecord, Owed
<1>2. [table EXCEPT ![r].notice = n] = [table EXCEPT ![r] = x]
  OBVIOUS
<1> QED BY <1>1, <1>2, TableUpdate

\* Overtaking a notice keeps the table sound.
LEMMA CompleteAsSound ==
  ASSUME NEW table \in RunTable, NEW S \in SUBSET RunIds, NEW ended \in RunTable
  PROVE  CompleteAs(table, S, ended) \in RunTable
<1> DEFINE kept(x) == IF x \in S THEN ended[x] ELSE table[x]
<1>1. ASSUME NEW x \in RunIds PROVE kept(x) \in SoundRun
  BY DEF RunTable
<1>2. ASSUME NEW x \in RunIds, Owed(kept(x))
      PROVE  [kept(x) EXCEPT !.notice = "superseded"] \in SoundRun
  <2> HIDE DEF kept
  <2> QED BY <1>1, <1>2 DEF SoundRun, RunRecord, Owed, Notices
<1> HIDE DEF kept
<1>3. \A x \in RunIds : \A b \in BOOLEAN :
        (IF b /\ Owed(kept(x)) THEN [kept(x) EXCEPT !.notice = "superseded"] ELSE kept(x))
        \in SoundRun
  BY <1>1, <1>2
<1> QED BY <1>3 DEF CompleteAs, RunTable, kept

\* complete_run.
LEMMA CompleteRunSound ==
  ASSUME NEW table \in RunTable, NEW r \in RunIds, NEW o \in SoundOutcome
  PROVE  CompleteRun(table, r, o) \in RunTable
<1> DEFINE x == [table[r] EXCEPT !.status = o.status, !.ask = o.ask,
                                 !.delivered = DeliveredAfter(table[r], o),
                                 !.notice = NoticeAfter(table[r], o.status)]
<1>1. CASE Finalisable(table[r])
  <2>1. table[r] \in SoundRun /\ table[r].notice = "none" /\ table[r].ask = "none"
    BY <1>1 DEF RunTable, SoundRun, Finalisable, Owed
  <2>2. x \in SoundRun
    BY <2>1 DEF SoundRun, RunRecord, Owed, NoticeAfter, DeliveredAfter, SoundOutcome, OutcomeRecord,
                Statuses, Notices
  <2>3. [table EXCEPT ![r] = x] \in RunTable
    BY <2>2, TableUpdate
  <2>4. CompleteRun(table, r, o) = CompleteAs(table, {r}, [table EXCEPT ![r] = x])
    BY <1>1 DEF CompleteRun
  <2> QED BY <2>3, <2>4, CompleteAsSound
<1>2. CASE ~Finalisable(table[r])
  BY <1>2 DEF CompleteRun
<1> QED BY <1>1, <1>2

\* close_run_minimally.
LEMMA CloseMinimallySound ==
  ASSUME NEW table \in RunTable, NEW r \in RunIds, NEW o \in SoundOutcome
  PROVE  CloseRunMinimally(table, r, o) \in RunTable
<1> DEFINE x == [table[r] EXCEPT !.status = o.status]
<1>1. CASE Finalisable(table[r])
  <2>1. table[r] \in SoundRun /\ table[r].notice = "none" /\ table[r].ask = "none"
    BY <1>1 DEF RunTable, SoundRun, Finalisable, Owed
  <2>2. x \in SoundRun
    BY <2>1 DEF SoundRun, RunRecord, Owed, SoundOutcome, OutcomeRecord, Statuses
  <2>3. [table EXCEPT ![r] = x] \in RunTable
    BY <2>2, TableUpdate
  <2>4. CloseRunMinimally(table, r, o) = CompleteAs(table, {r}, [table EXCEPT ![r] = x])
    BY <1>1 DEF CloseRunMinimally
  <2> QED BY <2>3, <2>4, CompleteAsSound
<1>2. CASE ~Finalisable(table[r])
  BY <1>2 DEF CloseRunMinimally
<1> QED BY <1>1, <1>2

\* interrupt_stale_runs.
LEMMA InterruptSound ==
  ASSUME NEW table \in RunTable, NEW S \in SUBSET RunIds,
         \A r \in S : table[r].status = "running"
  PROVE  InterruptRuns(table, S) \in RunTable
<1> DEFINE lost(r) == [table[r] EXCEPT !.status = "interrupted",
                                       !.notice = NoticeAfter(table[r], "interrupted")]
           ended == [r \in RunIds |-> IF r \in S THEN lost(r) ELSE table[r]]
<1>1. ASSUME NEW r \in S PROVE lost(r) \in SoundRun
  BY <1>1 DEF RunTable, SoundRun, RunRecord, Owed, NoticeAfter, Statuses, Outcomes, Notices
<1>2. ended \in RunTable
  BY <1>1 DEF RunTable
<1>3. InterruptRuns(table, S) = CompleteAs(table, S, ended)
  BY DEF InterruptRuns, CompleteAs
<1> QED BY <1>2, <1>3, CompleteAsSound

\* claim_due_notices and clear_notice.
LEMMA AfterNoticesSound ==
  ASSUME NEW table \in RunTable, NEW sent \in SUBSET RunIds
  PROVE  AfterNotices(table, sent) \in RunTable
<1>1. ASSUME NEW r \in RunIds
      PROVE  [table[r] EXCEPT !.notice = "none"] \in SoundRun
  BY DEF RunTable, SoundRun, RunRecord, Owed, Notices
<1>2. ASSUME NEW r \in RunIds, r \in DueNotices(table)
      PROVE  [table[r] EXCEPT !.notice = "waiting"] \in SoundRun
  BY <1>2 DEF DueNotices, RunTable, SoundRun, RunRecord, Owed, Notices
<1>3. \A r \in RunIds : table[r] \in SoundRun
  BY DEF RunTable
<1> QED BY <1>1, <1>2, <1>3 DEF AfterNotices, RunTable

-----------------------------------------------------------------------------
(* The state machine *)


SoundTask    == {t \in Task : t.outcome \in SoundOutcome}
SoundRequest == {q \in Request : q.kind = "answer" => q.run \in RunIds}

TablesOK     == sub \in [Jobs -> SoundRow] /\ run \in RunTable
DefinitionOK == suspended \in BOOLEAN /\ deleted \subseteq Jobs
MemoryOK     == /\ phase \in [Procs -> {"down", "heal", "notices", "claim", "gather"}]
                /\ claims \subseteq Claim /\ tasks \subseteq SoundTask
WebOK        == req \in [Clients -> SoundRequest \cup {IdleRequest}] /\ releasing \subseteq Held
HistoryOK    == /\ told \subseteq RunIds
                /\ advanced \in [RunIds -> Outcomes \cup {"none", "uncounted"}]
                /\ chosen \in [Jobs -> BOOLEAN] /\ missed \subseteq Jobs
BudgetOK     == crashes \in 0 .. MaxCrashes /\ faults \in 0 .. MaxFaults

IInv == TablesOK /\ DefinitionOK /\ MemoryOK /\ WebOK /\ HistoryOK /\ BudgetOK

\* The initial state satisfies the invariant.
LEMMA InitIInv == Init => IInv
<1> SUFFICES ASSUME Init PROVE IInv
  OBVIOUS
<1>1. sub \in [Jobs -> SoundRow]
  <2>1. PICK k \in [Jobs -> InitialKinds] : sub = [j \in Jobs |-> NewSubscription(k[j])]
    BY DEF Init
  <2>2. \A j \in Jobs : NewSubscription(k[j]) \in SoundRow
    BY KindsAssumption, NewSubscriptionSound
  <2> QED BY <2>1, <2>2
<1>2. run \in RunTable
  BY AbsentSound, JobsAssumption DEF Init, RunTable
<1>3. DefinitionOK /\ MemoryOK /\ WebOK /\ HistoryOK
  BY DEF Init, DefinitionOK, MemoryOK, WebOK, HistoryOK
<1>4. BudgetOK
  BY BudgetAssumption DEF Init, BudgetOK
<1> QED BY <1>1, <1>2, <1>3, <1>4 DEF IInv, TablesOK

\* A step that changes no variable keeps it.
LEMMA StutterIInv == IInv /\ UNCHANGED vars => IInv'
BY DEF IInv, TablesOK, DefinitionOK, MemoryOK, WebOK, HistoryOK, BudgetOK, vars, rows,
       definition, memory, web, history, budget

\* What a dispatch ends with is a record _finalize understands.
LEMMA EndingIsOutcome ==
  ASSUME NEW name, NEW bad \in BOOLEAN PROVE Ending(name, bad) \in SoundOutcome
BY DEF SoundOutcome, Ending, Outcome, OutcomeRecord, Outcomes, Asks, Codes

LEMMA SnapshotOfRow == ASSUME NEW s \in SoundRow PROVE Snapshot(s) \in Snapshots
BY DEF Snapshot, Snapshots, SoundRow, SubscriptionRow

LEMMA NewTaskIsTask ==
  ASSUME NEW r \in RunIds, NEW p \in Procs, NEW stage \in Stages, NEW mode \in Modes,
         NEW snap \in Snapshots
  PROVE  NewTask(r, p, stage, mode, snap) \in SoundTask
BY EndingIsOutcome DEF NewTask, SoundTask, SoundOutcome, Task

-----------------------------------------------------------------------------
(* The steps of the tick loop *)

LEMMA TickIInv == ASSUME IInv, NEW p \in Procs, Tick(p) PROVE IInv'
<1> USE DEF IInv
<1>1. CASE HealStuckRuns(p)
  <2> DEFINE S == StaleRuns(run, InFlight(p))
             earning == {run[r].job : r \in {q \in S : EarnsRetry(run[q].trigger)}}
  <2>1. S \in SUBSET RunIds /\ \A r \in S : run[r].status = "running"
    BY DEF StaleRuns
  <2>2. run' \in RunTable
    BY <1>1, <2>1, InterruptSound DEF HealStuckRuns, TablesOK
  <2>3. \A j \in Jobs : sub[j] \in SoundRow /\ GrantRetry(sub[j]) \in SoundRow
    BY GrantRetrySound DEF TablesOK
  <2>4. sub' = [j \in Jobs |-> IF j \in earning /\ Live(j) THEN GrantRetry(sub[j]) ELSE sub[j]]
    BY <1>1 DEF HealStuckRuns
  <2>5. sub' \in [Jobs -> SoundRow]
    BY <2>3, <2>4
  <2>6. MemoryOK'
    BY <1>1 DEF HealStuckRuns, MemoryOK
  <2>7. DefinitionOK' /\ WebOK' /\ HistoryOK' /\ BudgetOK'
    BY <1>1 DEF HealStuckRuns, DefinitionOK, WebOK, HistoryOK, BudgetOK, definition, web, history, budget
  <2> QED BY <2>2, <2>5, <2>6, <2>7 DEF TablesOK
<1>2. CASE DeliverDueNotices(p)
  <2>1. PICK sent \in SUBSET Sendable : run' = AfterNotices(run, sent) /\ told' = told \cup sent
    BY <1>2 DEF DeliverDueNotices
  <2>2. sent \in SUBSET RunIds
    BY <2>1 DEF Sendable, DueNotices
  <2>3. TablesOK'
    BY <1>2, <2>1, <2>2, AfterNoticesSound DEF DeliverDueNotices, TablesOK
  <2>4. MemoryOK' /\ HistoryOK'
    BY <1>2, <2>1, <2>2 DEF DeliverDueNotices, MemoryOK, HistoryOK
  <2>5. DefinitionOK' /\ WebOK' /\ BudgetOK'
    BY <1>2 DEF DeliverDueNotices, DefinitionOK, WebOK, BudgetOK, definition, web, budget
  <2> QED BY <2>3, <2>4, <2>5
<1>3. CASE ClaimDueJobs(p)
  <2> DEFINE due == IF Room(Cardinality(Jobs)) THEN {j \in Jobs : Claimable(j)} ELSE {}
             claim(j) == [proc |-> p, job |-> j, snap |-> Snapshot(sub[j]),
                          trigger |-> IF RetryDue(sub[j]) THEN "retry" ELSE "scheduled"]
  <2>1. \A j \in Jobs : sub[j] \in SoundRow /\ ClaimRow(sub[j]) \in SoundRow
    BY ClaimSound DEF TablesOK
  <2>2. sub' = [j \in Jobs |-> IF j \in due THEN ClaimRow(sub[j]) ELSE sub[j]] /\ run' = run
    BY <1>3 DEF ClaimDueJobs
  <2>3. TablesOK'
    <3> HIDE DEF due
    <3> QED BY <2>1, <2>2 DEF TablesOK
  <2>4. \A j \in due : claim(j) \in Claim
    BY <2>1, SnapshotOfRow DEF Claim
  <2>5. claims' = claims \cup {claim(j) : j \in due}
    BY <1>3 DEF ClaimDueJobs
  <2>6. MemoryOK'
    <3> HIDE DEF due, claim
    <3>1. claims' \subseteq Claim
      BY <2>4, <2>5 DEF MemoryOK
    <3>2. phase' \in [Procs -> {"down", "heal", "notices", "claim", "gather"}] /\ tasks' = tasks
      BY <1>3 DEF ClaimDueJobs, MemoryOK
    <3> QED BY <3>1, <3>2 DEF MemoryOK
  <2>7. DefinitionOK' /\ WebOK' /\ HistoryOK' /\ BudgetOK'
    BY <1>3 DEF ClaimDueJobs, DefinitionOK, WebOK, HistoryOK, BudgetOK, definition, web, history, budget
  <2> QED BY <2>3, <2>6, <2>7
<1>4. CASE EndTick(p)
  BY <1>4 DEF EndTick, TablesOK, DefinitionOK, MemoryOK, WebOK, HistoryOK, BudgetOK, rows,
              definition, web, history, budget
<1>5. CASE TickStepFails(p)
  <2>1. MemoryOK'
    BY <1>5 DEF TickStepFails, MemoryOK
  <2>2. BudgetOK'
    BY <1>5, BudgetAssumption DEF TickStepFails, BudgetOK
  <2>3. TablesOK' /\ DefinitionOK' /\ WebOK' /\ HistoryOK'
    BY <1>5 DEF TickStepFails, TablesOK, DefinitionOK, WebOK, HistoryOK, rows, definition, web, history
  <2> QED BY <2>1, <2>2, <2>3
<1> QED BY <1>1, <1>2, <1>3, <1>4, <1>5 DEF Tick

-----------------------------------------------------------------------------
(* The steps of a dispatch *)

LEMMA ReplaceTask ==
  ASSUME tasks \subseteq SoundTask, NEW t, NEW u \in SoundTask PROVE Replace(t, u) \subseteq SoundTask
BY DEF Replace

LEMMA AfterRecordingTask ==
  ASSUME tasks \subseteq SoundTask, NEW t \in tasks PROVE AfterRecording(t) \subseteq SoundTask
<1>1. [t EXCEPT !.stage = "posting"] \in SoundTask
  BY DEF SoundTask, Task, Stages
<1> QED BY <1>1, ReplaceTask DEF AfterRecording

LEMMA BeginIInv == ASSUME IInv, NEW c \in claims, BeginDispatch(c) PROVE IInv'
<1> USE DEF IInv
<1>1. PICK r \in RunIds : /\ run' = CreateRun(run, r, c.job, c.trigger)
                          /\ tasks' = tasks \cup {NewTask(r, c.proc, "dispatching", "full", c.snap)}
  BY DEF BeginDispatch
<1>2. c \in Claim
  BY DEF MemoryOK
<1>3. c.job \in Jobs /\ c.trigger \in Triggers /\ c.proc \in Procs /\ c.snap \in Snapshots
  BY <1>2 DEF Claim, Triggers
<1>4. TablesOK'
  BY <1>1, <1>3, CreateRunSound DEF BeginDispatch, TablesOK
<1>5. NewTask(r, c.proc, "dispatching", "full", c.snap) \in SoundTask
  BY <1>3, NewTaskIsTask DEF Stages, Modes
<1>6. claims' \subseteq Claim /\ phase' = phase
  BY DEF BeginDispatch, MemoryOK
<1>7. MemoryOK'
  BY <1>1, <1>5, <1>6 DEF MemoryOK
<1>8. DefinitionOK' /\ WebOK' /\ HistoryOK' /\ BudgetOK'
  BY DEF BeginDispatch, DefinitionOK, WebOK, HistoryOK, BudgetOK, definition, web, history, budget
<1> QED BY <1>4, <1>7, <1>8

\* The first transaction of _finalize: the lemma FinalizeSound, on the row of
\* the job the run belongs to.
LEMMA RecordIInv == ASSUME IInv, NEW t \in tasks, RecordOutcome(t) PROVE IInv'
<1> USE DEF IInv
<1> DEFINE j == run[t.run].job
           trigger == run[t.run].trigger
<1>1. t \in Task /\ t.run \in RunIds /\ t.snap \in Snapshots
  BY DEF MemoryOK, SoundTask, Task
<1>2. run[t.run] \in RunRecord
  BY <1>1 DEF TablesOK, RunTable, SoundRun
<1>3. j \in Jobs /\ trigger \in Triggers
  BY <1>2 DEF RunRecord
<1>4. PICK name \in EndingsOf(t.mode, j), bad \in BadTimezones :
        /\ sub' = [sub EXCEPT ![j] = FinalizeRow(@, Ending(name, bad), trigger, t.snap, j \in FiresOnce)]
        /\ tasks' = Replace(t, [t EXCEPT !.stage = "recording", !.outcome = Ending(name, bad)])
        /\ advanced' = [advanced EXCEPT ![t.run] = IF Ending(name, bad).counts
                          THEN Ending(name, bad).status ELSE "uncounted"]
  BY DEF RecordOutcome
<1> DEFINE o == Ending(name, bad)
<1>5. o \in SoundOutcome /\ o \in OutcomeRecord
  BY EndingIsOutcome, SwitchesAssumption DEF SoundOutcome
<1> HIDE DEF o
<1>6. FinalizeRow(sub[j], o, trigger, t.snap, j \in FiresOnce) \in SoundRow
  <2> DEFINE destroy == j \in FiresOnce
  <2>1. destroy \in BOOLEAN /\ sub[j] \in SoundRow
    BY <1>3 DEF TablesOK
  <2> HIDE DEF destroy, j, trigger
  <2>2. FinalizeRow(sub[j], o, trigger, t.snap, destroy) \in SoundRow
    BY <1>1, <1>3, <1>5, <2>1, FinalizeSound
  <2> QED BY <2>2 DEF destroy
<1>7. sub' \in [Jobs -> SoundRow]
  <2> DEFINE row == FinalizeRow(sub[j], o, trigger, t.snap, j \in FiresOnce)
  <2>1. sub' = [sub EXCEPT ![j] = row]
    BY <1>4 DEF o
  <2> HIDE DEF row, j
  <2>2. row \in SoundRow
    BY <1>6 DEF row, j
  <2> QED BY <2>1, <2>2 DEF TablesOK
<1>8. [t EXCEPT !.stage = "recording", !.outcome = o] \in SoundTask
  BY <1>1, <1>5 DEF SoundTask, Task, Stages
<1>9. tasks' \subseteq SoundTask
  <2>1. tasks' = Replace(t, [t EXCEPT !.stage = "recording", !.outcome = o])
    BY <1>4 DEF o
  <2> QED BY <1>8, <2>1, ReplaceTask DEF MemoryOK
<1>10. advanced' \in [RunIds -> Outcomes \cup {"none", "uncounted"}]
  <2>1. o.status \in Outcomes
    BY <1>5 DEF OutcomeRecord
  <2>2. advanced' = [advanced EXCEPT ![t.run] = IF o.counts THEN o.status ELSE "uncounted"]
    BY <1>4 DEF o
  <2> QED BY <2>1, <2>2 DEF HistoryOK
<1>11. TablesOK' /\ MemoryOK' /\ HistoryOK'
  BY <1>7, <1>9, <1>10 DEF RecordOutcome, TablesOK, MemoryOK, HistoryOK
<1>12. DefinitionOK' /\ WebOK' /\ BudgetOK'
  BY DEF RecordOutcome, DefinitionOK, WebOK, BudgetOK, definition, web, budget
<1> QED BY <1>11, <1>12

\* The second transaction of _finalize, and its fallback.
LEMMA FinishIInv ==
  ASSUME IInv, NEW t \in tasks, FinishRun(t) \/ FinishRunFails(t) PROVE IInv'
<1> USE DEF IInv
<1>1. t \in Task /\ t.run \in RunIds /\ t.outcome \in SoundOutcome
  BY DEF MemoryOK, SoundTask, Task
<1>2. CompleteRun(run, t.run, t.outcome) \in RunTable
  BY <1>1, CompleteRunSound DEF TablesOK
<1>3. CloseRunMinimally(run, t.run, t.outcome) \in RunTable
  BY <1>1, CloseMinimallySound DEF TablesOK
<1>4. TablesOK'
  BY <1>2, <1>3 DEF FinishRun, FinishRunFails, TablesOK
<1>5. AfterRecording(t) \subseteq SoundTask
  BY AfterRecordingTask DEF MemoryOK
<1>6. MemoryOK'
  BY <1>5 DEF FinishRun, FinishRunFails, MemoryOK
<1>7. BudgetOK'
  BY BudgetAssumption DEF FinishRun, FinishRunFails, BudgetOK, budget
<1>8. DefinitionOK' /\ WebOK' /\ HistoryOK'
  BY DEF FinishRun, FinishRunFails, DefinitionOK, WebOK, HistoryOK, definition, web, history
<1> QED BY <1>4, <1>6, <1>7, <1>8

LEMMA DispatchIInv == ASSUME IInv, Dispatch PROVE IInv'
<1> USE DEF IInv
<1>1. ASSUME NEW c \in claims, BeginDispatch(c) PROVE IInv'
  BY <1>1, BeginIInv
<1>2. ASSUME NEW c \in claims, BeginDispatchFails(c) PROVE IInv'
  <2>1. MemoryOK' /\ BudgetOK'
    BY <1>2, BudgetAssumption DEF BeginDispatchFails, MemoryOK, BudgetOK
  <2> QED BY <1>2, <2>1 DEF BeginDispatchFails, TablesOK, DefinitionOK, WebOK, HistoryOK, rows,
                            definition, web, history
<1>3. ASSUME NEW t \in tasks, StartTask(t) PROVE IInv'
  <2>1. [t EXCEPT !.stage = "dispatching"] \in SoundTask
    BY DEF MemoryOK, SoundTask, Task, Stages
  <2>2. MemoryOK'
    BY <1>3, <2>1, ReplaceTask DEF StartTask, MemoryOK
  <2> QED BY <1>3, <2>2 DEF StartTask, TablesOK, DefinitionOK, WebOK, HistoryOK, BudgetOK, rows,
                            definition, web, history, budget
<1>4. ASSUME NEW t \in tasks, RecordOutcome(t) PROVE IInv'
  BY <1>4, RecordIInv
<1>5. ASSUME NEW t \in tasks, OutcomeNotRecorded(t) PROVE IInv'
  <2>1. MemoryOK' /\ BudgetOK'
    BY <1>5, BudgetAssumption DEF OutcomeNotRecorded, MemoryOK, BudgetOK
  <2> QED BY <1>5, <2>1 DEF OutcomeNotRecorded, TablesOK, DefinitionOK, WebOK, HistoryOK, rows,
                            definition, web, history
<1>6. ASSUME NEW t \in tasks, FinishRun(t) \/ FinishRunFails(t) PROVE IInv'
  BY <1>6, FinishIInv
<1>7. ASSUME NEW t \in tasks, PostCheckAsk(t) PROVE IInv'
  <2>1. t.run \in RunIds
    BY DEF MemoryOK, SoundTask, Task
  <2>2. TablesOK'
    BY <1>7, <2>1, MarkDeliveredSound DEF PostCheckAsk, TablesOK
  <2>3. MemoryOK'
    BY <1>7 DEF PostCheckAsk, MemoryOK
  <2> QED BY <1>7, <2>2, <2>3 DEF PostCheckAsk, DefinitionOK, WebOK, HistoryOK, BudgetOK,
                                  definition, web, history, budget
<1>8. ASSUME NEW t \in tasks, Heartbeat(t) PROVE IInv'
  <2>1. t.run \in RunIds
    BY DEF MemoryOK, SoundTask, Task
  <2>2. TablesOK'
    BY <1>8, <2>1, TouchSound DEF Heartbeat, TablesOK
  <2> QED BY <1>8, <2>2 DEF Heartbeat, DefinitionOK, MemoryOK, WebOK, HistoryOK, BudgetOK,
                            definition, memory, web, history, budget
<1> QED BY <1>1, <1>2, <1>3, <1>4, <1>5, <1>6, <1>7, <1>8 DEF Dispatch

-----------------------------------------------------------------------------
(* Processes and time *)

LEMMA ProcessIInv == ASSUME IInv, NEW p \in Procs, Crash(p) \/ Start(p) PROVE IInv'
<1> USE DEF IInv
<1>1. MemoryOK'
  BY DEF Crash, Start, MemoryOK
<1>2. BudgetOK'
  BY BudgetAssumption DEF Crash, Start, BudgetOK, budget
<1>3. TablesOK' /\ DefinitionOK' /\ WebOK' /\ HistoryOK'
  BY DEF Crash, Start, TablesOK, DefinitionOK, WebOK, HistoryOK, rows, definition, web, history
<1> QED BY <1>1, <1>2, <1>3

LEMMA TimeIInv == ASSUME IInv, Time PROVE IInv'
<1> USE DEF IInv
<1>1. ASSUME TimePasses, TablesOK' PROVE IInv'
  BY <1>1 DEF TimePasses, DefinitionOK, MemoryOK, WebOK, HistoryOK, BudgetOK, definition, memory,
              web, history, budget
<1>2. ASSUME NEW j \in Jobs, ScheduleComesDue(j) PROVE IInv'
  <2>1. [sub[j] EXCEPT !.next = "due"] \in SoundRow
    BY DEF TablesOK, SoundRow, SubscriptionRow
  <2>2. sub' = [sub EXCEPT ![j] = [sub[j] EXCEPT !.next = "due"]]
    BY <1>2 DEF ScheduleComesDue
  <2>3. TablesOK'
    BY <1>2, <2>1, <2>2 DEF ScheduleComesDue, TablesOK
  <2>4. HistoryOK'
    BY <1>2 DEF ScheduleComesDue, HistoryOK
  <2> QED BY <1>2, <2>3, <2>4 DEF ScheduleComesDue, DefinitionOK, MemoryOK, WebOK, BudgetOK,
                                  definition, memory, web, budget
<1>3. ASSUME NEW j \in Jobs, RetryComesDue(j) PROVE IInv'
  <2>1. [sub[j] EXCEPT !.retry = "due"] \in SoundRow
    BY DEF TablesOK, SoundRow, SubscriptionRow
  <2>2. sub' = [sub EXCEPT ![j] = [sub[j] EXCEPT !.retry = "due"]]
    BY <1>3 DEF RetryComesDue
  <2>3. TablesOK'
    BY <1>3, <2>1, <2>2 DEF RetryComesDue, TablesOK
  <2> QED BY <1>1, <1>3, <2>3 DEF RetryComesDue
<1>4. ASSUME NEW r \in RunIds, NoticeComesDue(r) \/ NoticeGetsTooOld(r) PROVE IInv'
  <2>1. Owed(run[r])
    BY <1>4 DEF NoticeComesDue, NoticeGetsTooOld, Owed
  <2>2. TablesOK'
    BY <1>4, <2>1, NoticeStepSound DEF NoticeComesDue, NoticeGetsTooOld, TablesOK, Notices
  <2> QED BY <1>1, <1>4, <2>2 DEF NoticeComesDue, NoticeGetsTooOld
<1>5. ASSUME NEW r \in RunIds, HeartbeatLapses(r) PROVE IInv'
  <2>1. TablesOK'
    BY <1>5, TouchSound DEF HeartbeatLapses, TablesOK
  <2> QED BY <1>1, <1>5, <2>1 DEF HeartbeatLapses
<1> QED BY <1>2, <1>3, <1>4, <1>5 DEF Time

-----------------------------------------------------------------------------
(* Requests *)

LEMMA RequestedIInv ==
  ASSUME IInv, NEW c \in Clients, NEW kind \in {"run_now", "answer"}, NEW j \in Jobs,
         NEW r \in RunIds \cup {0}, NEW mode \in Modes, kind = "answer" => r \in RunIds,
         Requested(c, kind, j, r, mode)
  PROVE  IInv'
<1> USE DEF IInv
<1> DEFINE q == [kind |-> kind, job |-> j, run |-> r, mode |-> mode, snap |-> Snapshot(sub[j])]
<1>1. q \in SoundRequest
  BY SnapshotOfRow DEF TablesOK, SoundRequest, Request
<1>2. req' = [req EXCEPT ![c] = q]
  BY DEF Requested
<1>3. WebOK'
  <2> HIDE DEF q
  <2> QED BY <1>1, <1>2 DEF Requested, WebOK
<1> QED BY <1>3 DEF Requested, TablesOK, DefinitionOK, MemoryOK, HistoryOK, BudgetOK, rows,
                    definition, memory, history, budget

LEMMA QueueIInv ==
  ASSUME IInv, NEW c \in Clients, NEW p \in Procs, NEW table \in RunTable,
         NEW trigger \in Triggers, req[c] \in Request, QueueRun(c, p, table, trigger)
  PROVE  IInv'
<1> USE DEF IInv
<1>1. PICK r \in RunIds : /\ run' = CreateRun(table, r, req[c].job, trigger)
                          /\ tasks' = tasks \cup {NewTask(r, p, "queued", req[c].mode, req[c].snap)}
                          /\ req' = [req EXCEPT ![c] = IdleRequest]
  BY DEF QueueRun
<1>2. req[c].job \in Jobs /\ req[c].mode \in Modes /\ req[c].snap \in Snapshots
  BY DEF Request
<1>3. TablesOK'
  BY <1>1, <1>2, CreateRunSound DEF QueueRun, TablesOK
<1>4. NewTask(r, p, "queued", req[c].mode, req[c].snap) \in SoundTask
  BY <1>2, NewTaskIsTask DEF Stages
<1>5. MemoryOK'
  BY <1>1, <1>4 DEF QueueRun, MemoryOK
<1>6. WebOK'
  BY <1>1 DEF QueueRun, WebOK
<1> QED BY <1>3, <1>5, <1>6 DEF QueueRun, DefinitionOK, HistoryOK, BudgetOK, definition, history,
                                budget

LEMMA WebIInv == ASSUME IInv, Web PROVE IInv'
<1> USE DEF IInv
<1>1. ASSUME NEW c \in Clients, NEW j \in Jobs, RequestRunNow(c, j) PROVE IInv'
  BY <1>1, RequestedIInv DEF RequestRunNow, Modes
<1>2. ASSUME NEW c \in Clients, NEW r \in RunIds, NEW approved \in BOOLEAN,
             RequestAnswer(c, r, approved)
      PROVE  IInv'
  <2>1. run[r].job \in Jobs
    BY DEF TablesOK, RunTable, SoundRun, RunRecord
  <2>2. AnswerMode(run[r].ask, approved) \in Modes
    BY DEF AnswerMode, Modes
  <2>3. Requested(c, "answer", run[r].job, r, AnswerMode(run[r].ask, approved))
    BY <1>2 DEF RequestAnswer
  <2> QED BY <2>1, <2>2, <2>3, RequestedIInv
<1>3. ASSUME NEW c \in Clients, req[c].kind \in {"run_now", "answer"}
      PROVE  req[c] \in SoundRequest /\ req[c] \in Request
  BY <1>3 DEF WebOK, IdleRequest, SoundRequest
<1>4. ASSUME NEW c \in Clients, NEW p \in Procs, RunJobNow(c, p) PROVE IInv'
  BY <1>3, <1>4, QueueIInv DEF RunJobNow, TablesOK, Triggers
<1>5. ASSUME NEW c \in Clients, NEW p \in Procs, AnswerParkedRun(c, p) PROVE IInv'
  <2>1. req[c] \in Request /\ req[c].run \in RunIds
    BY <1>3, <1>5 DEF AnswerParkedRun, SoundRequest
  <2>2. ClearParkedTask(run, req[c].run) \in RunTable
    BY <2>1, ClearParkedSound DEF TablesOK
  <2>3. QueueRun(c, p, ClearParkedTask(run, req[c].run), "resumed")
    BY <1>5 DEF AnswerParkedRun
  <2> QED BY <2>1, <2>2, <2>3, QueueIInv DEF Triggers
<1>6. ASSUME NEW c \in Clients, RefuseAnswer(c) PROVE IInv'
  <2>1. WebOK'
    BY <1>6 DEF RefuseAnswer, WebOK
  <2> QED BY <1>6, <2>1 DEF RefuseAnswer, TablesOK, DefinitionOK, MemoryOK, HistoryOK, BudgetOK,
                            rows, definition, memory, history, budget
<1> QED BY <1>1, <1>2, <1>4, <1>5, <1>6 DEF Web

-----------------------------------------------------------------------------
(* People *)

LEMMA WriteIInv ==
  ASSUME IInv, NEW j \in Jobs, NEW row \in SoundRow, Write(j, row), WebOK',
         chosen' \in [Jobs -> BOOLEAN]
  PROVE  IInv'
<1> USE DEF IInv
<1>1. TablesOK'
  BY DEF Write, TablesOK
<1>2. HistoryOK'
  BY DEF Write, HistoryOK
<1> QED BY <1>1, <1>2 DEF Write, DefinitionOK, MemoryOK, BudgetOK, definition, memory, budget

LEMMA DecideIInv ==
  ASSUME IInv, NEW j \in Jobs, NEW on \in BOOLEAN, NEW row \in SoundRow, Decide(j, on, row)
  PROVE  IInv'
<1>1. WebOK' /\ chosen' \in [Jobs -> BOOLEAN]
  BY DEF Decide, IInv, WebOK, HistoryOK, web
<1> QED BY <1>1, WriteIInv DEF Decide

LEMMA AdjustIInv ==
  ASSUME IInv, NEW j \in Jobs, NEW row \in SoundRow, Adjust(j, row) PROVE IInv'
<1>1. WebOK' /\ chosen' \in [Jobs -> BOOLEAN]
  BY DEF Adjust, IInv, WebOK, HistoryOK, web
<1> QED BY <1>1, WriteIInv DEF Adjust

\* Removing subscriptions writes no row.
LEMMA RemoveIInv == ASSUME IInv, NEW S \in SUBSET Jobs, Remove(S) PROVE IInv'
BY DEF IInv, Remove, TablesOK, DefinitionOK, MemoryOK, WebOK, HistoryOK, BudgetOK, rows, memory,
       web, history, budget

LEMMA JobIInv ==
  ASSUME IInv, NEW j \in Jobs,
         \/ Pause(j) \/ Resume(j) \/ \E on \in BOOLEAN : Toggle(j, on)
         \/ \E kind \in Kinds : EditTrigger(j, kind) \/ AdoptTrigger(j, kind)
         \/ WithdrawAccess(j) \/ RestoreAccess(j)
  PROVE  IInv'
<1>1. sub[j] \in SoundRow
  BY DEF IInv, TablesOK
<1>2. CASE Pause(j)
  BY <1>1, <1>2, PauseSound, DecideIInv DEF Pause
<1>3. CASE Resume(j)
  BY <1>1, <1>3, ResumeSound, DecideIInv DEF Resume
<1>4. CASE \E on \in BOOLEAN : Toggle(j, on)
  BY <1>1, <1>4, ToggleSound, DecideIInv DEF Toggle
<1>5. CASE \E kind \in Kinds : EditTrigger(j, kind) \/ AdoptTrigger(j, kind)
  <2>1. PICK kind \in Kinds, when \in {"future", "due"} :
          Adjust(j, EditRow(sub[j], kind, when)) \/ Adjust(j, AdoptRow(sub[j], kind, when))
    BY <1>5 DEF EditTrigger, AdoptTrigger, Moments
  <2> QED BY <1>1, <2>1, EditSound, AdoptSound, AdjustIInv
<1>6. CASE WithdrawAccess(j)
  BY <1>1, <1>6, WithdrawSound, AdjustIInv, RemoveIInv DEF WithdrawAccess
<1>7. CASE RestoreAccess(j)
  <2>1. PICK row \in RestoredRows(sub[j]) : Adjust(j, row)
    BY <1>7 DEF RestoreAccess
  <2>2. row \in SoundRow
    BY <1>1, <1>7, <2>1, RestoreSound DEF RestoreAccess
  <2> QED BY <2>1, <2>2, AdjustIInv
<1> QED BY <1>2, <1>3, <1>4, <1>5, <1>6, <1>7

LEMMA ReleaseIInv ==
  ASSUME IInv, NEW h \in releasing, ReleaseHeld(h) PROVE IInv'
<1> USE DEF IInv
<1>1. h.job \in Jobs /\ h.passed \in BOOLEAN
  BY DEF WebOK, Held
<1>2. sub[h.job] \in SoundRow
  BY <1>1 DEF TablesOK
<1>3. PICK row \in ReleasedRows(sub[h.job], h.passed) \cup {sub[h.job]} : Write(h.job, row)
  BY DEF ReleaseHeld
<1>4. row \in SoundRow
  BY <1>1, <1>2, <1>3, ReleaseSound
<1>5. WebOK' /\ chosen' \in [Jobs -> BOOLEAN]
  BY DEF ReleaseHeld, WebOK, HistoryOK
<1> QED BY <1>1, <1>3, <1>4, <1>5, WriteIInv

LEMMA ListHeldIInv ==
  ASSUME IInv, NEW j \in Jobs, SignIn(j) \/ BindChannel(j) PROVE IInv'
<1> USE DEF IInv
<1>1. Elapsed(sub[j]) \in BOOLEAN
  BY DEF Elapsed
<1>2. PICK passed \in BOOLEAN : releasing' = releasing \cup {[job |-> j, passed |-> passed]}
  BY <1>1 DEF SignIn, BindChannel
<1>3. [job |-> j, passed |-> passed] \in Held
  BY DEF Held
<1>4. releasing' \subseteq Held /\ req' = req
  BY <1>2, <1>3 DEF SignIn, BindChannel, WebOK
<1>5. WebOK'
  BY <1>4 DEF WebOK
<1> QED BY <1>5 DEF SignIn, BindChannel, TablesOK, DefinitionOK, MemoryOK, HistoryOK,
                    BudgetOK, rows, definition, memory, history, budget

LEMMA ReportIInv ==
  ASSUME IInv, NEW r \in RunIds, NEW b \in BOOLEAN, ReportUndelivered(r, b) PROVE IInv'
<1> USE DEF IInv
<1> DEFINE j == run[r].job
           row == DisableIfEnabled(sub[j], "unreachable")
<1>1. j \in Jobs
  BY DEF TablesOK, RunTable, SoundRun, RunRecord
<1>2. row \in SoundRow
  BY <1>1, DisableIfEnabledSound DEF TablesOK, Codes
<1>3. sub' = sub \/ sub' = [sub EXCEPT ![j] = row]
  BY DEF ReportUndelivered
<1>4. sub' \in [Jobs -> SoundRow]
  <2> HIDE DEF j, row
  <2> QED BY <1>1, <1>2, <1>3 DEF TablesOK
<1>5. TablesOK'
  BY <1>4, MarkUndeliveredSound DEF ReportUndelivered, TablesOK
<1> QED BY <1>5 DEF ReportUndelivered, DefinitionOK, MemoryOK, WebOK, HistoryOK, BudgetOK,
                    definition, memory, web, history, budget

LEMMA PeopleIInv == ASSUME IInv, People PROVE IInv'
<1> USE DEF IInv
<1>1. CASE Suspend
  BY <1>1 DEF Suspend, TablesOK, DefinitionOK, MemoryOK, WebOK, HistoryOK, BudgetOK, rows, memory,
              web, history, budget
<1>2. CASE Unsuspend
  <2>1. \A j \in Jobs : sub[j] \in SoundRow /\ UnsuspendRow(sub[j]) \in SoundRow
    BY UnsuspendSound DEF TablesOK
  <2>2. TablesOK'
    BY <1>2, <2>1 DEF Unsuspend, TablesOK
  <2> QED BY <1>2, <2>2 DEF Unsuspend, DefinitionOK, MemoryOK, WebOK, HistoryOK, BudgetOK, memory,
                            web, history, budget
<1>3. ASSUME NEW j \in Jobs, Delete(j) PROVE IInv'
  BY <1>3, RemoveIInv DEF Delete
<1> QED BY <1>1, <1>2, <1>3, JobIInv, ReleaseIInv, ListHeldIInv, ReportIInv DEF People

-----------------------------------------------------------------------------
\* The invariant is inductive.
LEMMA NextIInv == IInv /\ [Next]_vars => IInv'
<1> SUFFICES ASSUME IInv, [Next]_vars PROVE IInv'
  OBVIOUS
<1>1. CASE Next
  BY <1>1, TickIInv, ProcessIInv, DispatchIInv, TimeIInv, WebIInv, PeopleIInv DEF Next
<1>2. CASE UNCHANGED vars
  BY <1>2, StutterIInv
<1> QED BY <1>1, <1>2

LEMMA Invariance == Spec => []IInv
BY InitIInv, NextIInv, PTL DEF Spec

\* Every variable keeps its type, whatever the processes, people and faults do.
THEOREM TypeCorrect == Spec => []TypeOK
<1>1. IInv => TypeOK
  BY DEF IInv, TablesOK, DefinitionOK, MemoryOK, WebOK, HistoryOK, BudgetOK, TypeOK, SoundRow,
         RunTable, SoundRun, SoundTask, SoundRequest
<1> QED BY <1>1, Invariance, PTL

\* The CHECK constraint pause_is_off of migration 110 never rejects a write: no
\* statement leaves a pause code on a subscription that is on.
THEOREM PauseIsAlwaysOff == Spec => []PauseIsOff
<1>1. IInv => PauseIsOff
  BY DEF IInv, TablesOK, SoundRow, PauseIsOff
<1> QED BY <1>1, Invariance, PTL

\* A user is told that recovery is exhausted only about a retry that was itself
\* interrupted.
THEOREM NoticesAreEarned == Spec => []NoticeOnlyExhausted
<1>1. IInv => NoticeOnlyExhausted
  BY DEF IInv, TablesOK, RunTable, SoundRun, NoticeOnlyExhausted
<1> QED BY <1>1, Invariance, PTL

\* A run a chat client reported as undelivered never counts as delivered,
\* whichever of the report, the outcome and the posted ask is written last.
THEOREM ReportsPrevail == Spec => []ReportedStaysUndelivered
<1>1. IInv => ReportedStaysUndelivered
  BY DEF IInv, TablesOK, RunTable, SoundRun, ReportedStaysUndelivered
<1> QED BY <1>1, Invariance, PTL

-----------------------------------------------------------------------------
(* The run table: what a step does to it *)

Marks(r) == \/ run' = MarkRunDelivered(run, r)
            \/ run' = MarkRunUndelivered(run, r)
            \/ \E beat \in {"fresh", "stale"} :
                 /\ run' = TouchRun(run, r, beat)
                 /\ beat = "stale" => LapseLive \/ \A t \in tasks : t.run # r
            \/ \E n \in Notices : run' = [run EXCEPT ![r].notice = n]

Opens(r) ==
  /\ run[r].status = "absent"
  /\ \E j \in Jobs, trigger \in Triggers \ {"resumed"} : run' = CreateRun(run, r, j, trigger)

Finishes(r) ==
  /\ \E t \in tasks : t.run = r /\ t.stage = "recording"
  /\ \E o \in SoundOutcome : run' = CompleteRun(run, r, o) \/ run' = CloseRunMinimally(run, r, o)

Continues(r, s) ==
  /\ run[r].ask # "none" /\ run[s].status = "absent"
  /\ \E j \in Jobs : run' = CreateRun(ClearParkedTask(run, r), s, j, "resumed")

Sweeps == \E S \in SUBSET RunIds : /\ \A r \in S : run[r].status = "running" /\ run[r].beat = "stale"
                                   /\ run' = InterruptRuns(run, S)

Notifies == \E sent \in SUBSET RunIds : run' = AfterNotices(run, sent)

\* A step that opens no run, and any step.
RunRewrite == \/ run' = run \/ Sweeps \/ Notifies
              \/ \E r \in RunIds : Marks(r) \/ Finishes(r)

RunStep == RunRewrite \/ \E r \in RunIds : Opens(r) \/ \E s \in RunIds : Continues(r, s)

-----------------------------------------------------------------------------
(* Every step of the scheduler is a RunStep, and only three of them open a run *)

OpensRun == \/ \E c \in claims : BeginDispatch(c)
            \/ \E c \in Clients, p \in Procs : RunJobNow(c, p) \/ AnswerParkedRun(c, p)

LEMMA TickRunRewrite == ASSUME IInv, NEW p \in Procs, Tick(p) PROVE RunRewrite
<1>1. CASE HealStuckRuns(p)
  BY <1>1 DEF HealStuckRuns, StaleRuns, RunRewrite, Sweeps
<1>2. CASE DeliverDueNotices(p)
  BY <1>2 DEF DeliverDueNotices, Sendable, DueNotices, RunRewrite, Notifies
<1>3. CASE ClaimDueJobs(p) \/ EndTick(p) \/ TickStepFails(p)
  BY <1>3 DEF ClaimDueJobs, EndTick, TickStepFails, rows, RunRewrite
<1> QED BY <1>1, <1>2, <1>3 DEF Tick

LEMMA DispatchRunRewrite == ASSUME IInv, Dispatch, ~OpensRun PROVE RunRewrite
<1>1. ASSUME NEW t \in tasks PROVE t.run \in RunIds /\ t.outcome \in SoundOutcome
  BY DEF IInv, MemoryOK, SoundTask, Task
<1>2. ASSUME NEW t \in tasks, FinishRun(t) \/ FinishRunFails(t) PROVE RunRewrite
  BY <1>1, <1>2 DEF FinishRun, FinishRunFails, RunRewrite, Finishes
<1>3. ASSUME NEW t \in tasks, PostCheckAsk(t) \/ Heartbeat(t) PROVE RunRewrite
  BY <1>1, <1>3 DEF PostCheckAsk, Heartbeat, RunRewrite, Marks
<1>4. ASSUME NEW t \in tasks, StartTask(t) \/ RecordOutcome(t) \/ OutcomeNotRecorded(t)
      PROVE  RunRewrite
  BY <1>4 DEF StartTask, RecordOutcome, OutcomeNotRecorded, rows, RunRewrite
<1>5. ASSUME NEW c \in claims, BeginDispatchFails(c) PROVE RunRewrite
  BY <1>5 DEF BeginDispatchFails, rows, RunRewrite
<1> QED BY <1>2, <1>3, <1>4, <1>5 DEF Dispatch, OpensRun

LEMMA TimeRunRewrite == ASSUME IInv, Time PROVE RunRewrite
<1>1. ASSUME NEW j \in Jobs, ScheduleComesDue(j) \/ RetryComesDue(j) PROVE RunRewrite
  BY <1>1 DEF ScheduleComesDue, RetryComesDue, RunRewrite
<1>2. ASSUME NEW r \in RunIds, NoticeComesDue(r) \/ NoticeGetsTooOld(r) PROVE RunRewrite
  BY <1>2 DEF NoticeComesDue, NoticeGetsTooOld, Notices, RunRewrite, Marks
<1>3. ASSUME NEW r \in RunIds, HeartbeatLapses(r) PROVE RunRewrite
  BY <1>3 DEF HeartbeatLapses, RunRewrite, Marks
<1> QED BY <1>1, <1>2, <1>3 DEF Time

LEMMA WebRunRewrite == ASSUME Web, ~OpensRun PROVE RunRewrite
BY DEF Web, OpensRun, RefuseAnswer, RequestRunNow, RequestAnswer, Requested, rows, RunRewrite

LEMMA PeopleRunRewrite == ASSUME People PROVE RunRewrite
<1>1. ASSUME NEW r \in RunIds, NEW b \in BOOLEAN, ReportUndelivered(r, b) PROVE RunRewrite
  BY <1>1 DEF ReportUndelivered, RunRewrite, Marks
<1>2. ASSUME NEW j \in Jobs, NEW row, Write(j, row) PROVE RunRewrite
  BY <1>2 DEF Write, RunRewrite
<1>3. ASSUME NEW j \in Jobs,
             \/ Pause(j) \/ Resume(j) \/ \E on \in BOOLEAN : Toggle(j, on)
             \/ \E kind \in Kinds : EditTrigger(j, kind) \/ AdoptTrigger(j, kind)
             \/ WithdrawAccess(j) \/ RestoreAccess(j)
      PROVE  RunRewrite
  BY <1>2, <1>3 DEF Pause, Resume, Toggle, EditTrigger, AdoptTrigger, WithdrawAccess,
                    RestoreAccess, Remove, Decide, Adjust, rows, RunRewrite
<1>4. ASSUME NEW j \in Jobs, SignIn(j) \/ BindChannel(j) \/ Delete(j) PROVE RunRewrite
  BY <1>4 DEF SignIn, BindChannel, Delete, Remove, rows, RunRewrite
<1>5. ASSUME Suspend \/ Unsuspend PROVE RunRewrite
  BY <1>5 DEF Suspend, Unsuspend, rows, RunRewrite
<1>6. ASSUME NEW h \in releasing, ReleaseHeld(h) PROVE RunRewrite
  BY <1>6 DEF ReleaseHeld, Write, RunRewrite
<1> QED BY <1>1, <1>3, <1>4, <1>5, <1>6 DEF People

LEMMA EveryRunRewrite == ASSUME IInv, [Next]_vars, ~OpensRun PROVE RunRewrite
<1>1. ASSUME NEW p \in Procs, Crash(p) \/ Start(p) PROVE RunRewrite
  BY <1>1 DEF Crash, Start, rows, RunRewrite
<1>2. CASE Next
  BY <1>1, <1>2, TickRunRewrite, DispatchRunRewrite, TimeRunRewrite, WebRunRewrite, PeopleRunRewrite
  DEF Next
<1>3. CASE UNCHANGED vars
  BY <1>3 DEF vars, rows, RunRewrite
<1> QED BY <1>2, <1>3

LEMMA OpenedRun ==
  ASSUME IInv, OpensRun
  PROVE  \E r \in RunIds : Opens(r) \/ \E s \in RunIds : Continues(r, s)
<1>1. ASSUME NEW c \in claims, BeginDispatch(c) PROVE \E r \in RunIds : Opens(r)
  <2>1. c.job \in Jobs /\ c.trigger \in Triggers \ {"resumed"}
    BY DEF IInv, MemoryOK, Claim, Triggers
  <2>2. PICK r \in RunIds : NextRunId(run, r) /\ run' = CreateRun(run, r, c.job, c.trigger)
    BY <1>1 DEF BeginDispatch
  <2>3. Opens(r)
    BY <2>1, <2>2 DEF NextRunId, Unused, Opens
  <2> QED BY <2>3
<1>2. ASSUME NEW c \in Clients, req[c].kind \in {"run_now", "answer"}
      PROVE  req[c].job \in Jobs /\ (req[c].kind = "answer" => req[c].run \in RunIds)
  BY <1>2 DEF IInv, WebOK, IdleRequest, SoundRequest, Request
<1>3. ASSUME NEW c \in Clients, NEW p \in Procs, RunJobNow(c, p) PROVE \E r \in RunIds : Opens(r)
  <2>1. PICK r \in RunIds : NextRunId(run, r) /\ run' = CreateRun(run, r, req[c].job, "manual")
    BY <1>3 DEF RunJobNow, QueueRun
  <2>2. Opens(r)
    BY <1>2, <1>3, <2>1 DEF RunJobNow, NextRunId, Unused, Opens, Triggers
  <2> QED BY <2>2
<1>4. ASSUME NEW c \in Clients, NEW p \in Procs, AnswerParkedRun(c, p)
      PROVE  \E r \in RunIds, s \in RunIds : Continues(r, s)
  <2>1. req[c].kind = "answer" /\ run[req[c].run].ask # "none"
    BY <1>4 DEF AnswerParkedRun, StillAsks
  <2>2. PICK s \in RunIds : /\ NextRunId(run, s)
                            /\ run' = CreateRun(ClearParkedTask(run, req[c].run), s, req[c].job, "resumed")
    BY <1>4 DEF AnswerParkedRun, QueueRun
  <2>3. Continues(req[c].run, s)
    BY <1>2, <2>1, <2>2 DEF NextRunId, Unused, Continues
  <2> QED BY <1>2, <2>1, <2>3
<1> QED BY <1>1, <1>3, <1>4 DEF OpensRun

LEMMA EveryRunStep == IInv /\ [Next]_vars => RunStep
BY EveryRunRewrite, OpenedRun DEF RunStep

-----------------------------------------------------------------------------
(* What the statements make of the entries *)

\* The entry of a row, case by case.
LEMMA EntryOf ==
  ASSUME NEW x
  PROVE  /\ x.status = "absent" => LedgerEntry(x) = "absent"
         /\ x.status = "running" =>
              LedgerEntry(x) = IF x.trigger = "resumed" THEN "resumed" ELSE "fresh"
         /\ Answerable(x) => LedgerEntry(x) = "asking"
         /\ (x.status \notin {"absent", "running"} /\ ~Answerable(x)) => LedgerEntry(x) = "closed"
<1>1. ASSUME x.status = "absent" PROVE LedgerEntry(x) = "absent"
  BY <1>1 DEF LedgerEntry, Answerable
<1>2. ASSUME x.status = "running"
      PROVE  LedgerEntry(x) = IF x.trigger = "resumed" THEN "resumed" ELSE "fresh"
  BY <1>2 DEF LedgerEntry, Answerable
<1>3. ASSUME Answerable(x) PROVE LedgerEntry(x) = "asking"
  BY <1>3 DEF LedgerEntry, Answerable
<1>4. ASSUME x.status \notin {"absent", "running"}, ~Answerable(x)
      PROVE  LedgerEntry(x) = "closed"
  BY <1>4 DEF LedgerEntry, Answerable
<1> QED BY <1>1, <1>2, <1>3, <1>4

\* What a row's entry is computed from.
Same(x, y) == x.status = y.status /\ x.trigger = y.trigger /\ x.ask = y.ask

LEMMA SameEntry == ASSUME NEW x, NEW y, Same(x, y) PROVE LedgerEntry(x) = LedgerEntry(y)
BY DEF Same, LedgerEntry, Answerable

\* Overtaking notices touches no entry.
LEMMA CompleteAsEntries ==
  ASSUME NEW S \in SUBSET RunIds, NEW becomes \in [RunIds -> RunRecord],
         NEW table \in [RunIds -> RunRecord], NEW x \in RunIds
  PROVE  Same(CompleteAs(table, S, becomes)[x], IF x \in S THEN becomes[x] ELSE table[x])
BY DEF CompleteAs, Same, RunRecord

LEMMA MarkedEntries ==
  ASSUME run \in RunTable, NEW r \in RunIds, Marks(r), NEW x \in RunIds
  PROVE  Same(run'[x], run[x])
<1>1. run \in [RunIds -> RunRecord]
  BY DEF RunTable, SoundRun
<1>2. CASE run' = MarkRunDelivered(run, r)
  BY <1>1, <1>2 DEF MarkRunDelivered, Same, RunRecord
<1>3. CASE run' = MarkRunUndelivered(run, r)
  BY <1>1, <1>3 DEF MarkRunUndelivered, Same, RunRecord
<1>4. CASE \E beat \in {"fresh", "stale"} : run' = TouchRun(run, r, beat)
  BY <1>1, <1>4 DEF TouchRun, Same, RunRecord
<1>5. CASE \E n \in Notices : run' = [run EXCEPT ![r].notice = n]
  BY <1>1, <1>5 DEF Same, RunRecord
<1> QED BY <1>2, <1>3, <1>4, <1>5 DEF Marks

LEMMA NotifiedEntries ==
  ASSUME run \in RunTable, Notifies, NEW x \in RunIds PROVE Same(run'[x], run[x])
BY DEF Notifies, AfterNotices, Same, RunTable, SoundRun, RunRecord

LEMMA SweptEntries ==
  ASSUME run \in RunTable, NEW S \in SUBSET RunIds, run' = InterruptRuns(run, S),
         \A r \in S : run[r].status = "running", NEW x \in RunIds
  PROVE  Same(run'[x], IF x \in S THEN [run[x] EXCEPT !.status = "interrupted"] ELSE run[x])
<1> DEFINE lost == [r \in RunIds |-> [run[r] EXCEPT !.status = "interrupted",
                                       !.notice = NoticeAfter(run[r], "interrupted")]]
<1>1. run \in [RunIds -> RunRecord]
  BY DEF RunTable, SoundRun
<1>2. lost \in [RunIds -> RunRecord]
  <2>1. ASSUME NEW r \in RunIds
        PROVE  run[r] \in RunRecord /\ NoticeAfter(run[r], "interrupted") \in Notices
    BY <1>1 DEF RunRecord, NoticeAfter, Notices
  <2>2. ASSUME NEW y \in RunRecord, NEW n \in Notices
        PROVE  [y EXCEPT !.status = "interrupted", !.notice = n] \in RunRecord
    BY DEF RunRecord, Statuses, Outcomes
  <2> QED BY <2>1, <2>2
<1>3. run' = CompleteAs(run, S, lost)
  BY DEF InterruptRuns
<1>4. Same(run'[x], IF x \in S THEN lost[x] ELSE run[x])
  <2> HIDE DEF lost
  <2> QED BY <1>1, <1>2, <1>3, CompleteAsEntries
<1>5. run[x] \in RunRecord /\ lost[x] = [run[x] EXCEPT !.status = "interrupted",
                                       !.notice = NoticeAfter(run[x], "interrupted")]
  BY <1>1
<1>6. Same(lost[x], [run[x] EXCEPT !.status = "interrupted"])
  BY <1>5 DEF Same, RunRecord
<1> HIDE DEF lost
<1> QED BY <1>4, <1>6 DEF Same

\* A finished run is written once; every other run keeps its entry.
LEMMA FinishedEntries ==
  ASSUME run \in RunTable, NEW r \in RunIds, Finishes(r)
  PROVE  \/ run' = run
         \/ /\ run[r].status = "running"
            /\ run'[r].status \in Outcomes
            /\ \A x \in RunIds \ {r} : Same(run'[x], run[x])
<1>1. CASE run[r].status = "running"
  <2>1. PICK o \in SoundOutcome :
          run' = CompleteRun(run, r, o) \/ run' = CloseRunMinimally(run, r, o)
    BY DEF Finishes
  <2>2. o.status \in Outcomes
    BY DEF SoundOutcome, OutcomeRecord
  <2> DEFINE full == [run[r] EXCEPT !.status = o.status, !.ask = o.ask,
                                    !.delivered = DeliveredAfter(run[r], o),
                                    !.notice = NoticeAfter(run[r], o.status)]
             least == [run[r] EXCEPT !.status = o.status]
  <2>3. PICK row \in {full, least} : run' = CompleteAs(run, {r}, [run EXCEPT ![r] = row])
    BY <1>1, <2>1 DEF CompleteRun, CloseRunMinimally, Finalisable
  <2>4. row.status = o.status
    BY DEF RunTable, SoundRun, RunRecord
  <2> HIDE DEF full, least
  <2>5. run'[r].status = row.status
    BY <2>3 DEF CompleteAs, RunTable, SoundRun, RunRecord
  <2>6. \A x \in RunIds \ {r} : Same(run'[x], run[x])
    BY <2>3 DEF CompleteAs, Same, RunTable, SoundRun, RunRecord
  <2> QED BY <1>1, <2>2, <2>4, <2>5, <2>6
<1>2. CASE run[r].status # "running"
  BY <1>2 DEF Finishes, CompleteRun, CloseRunMinimally, Finalisable
<1> QED BY <1>1, <1>2

-----------------------------------------------------------------------------
(* The theorems *)

\* A row opened for a run, and the others.
LEMMA OpenedEntries ==
  ASSUME NEW table \in [RunIds -> RunRecord], NEW s \in RunIds, NEW j \in Jobs,
         NEW trigger \in Triggers, NEW x \in RunIds
  PROVE  IF x = s
         THEN LedgerEntry(CreateRun(table, s, j, trigger)[x])
                = IF trigger = "resumed" THEN "resumed" ELSE "fresh"
         ELSE CreateRun(table, s, j, trigger)[x] = table[x]
<1> DEFINE row == [AbsentRun EXCEPT !.job = j, !.status = "running", !.trigger = trigger]
<1>1. row.status = "running" /\ row.trigger = trigger
  BY DEF AbsentRun
<1>2. CreateRun(table, s, j, trigger)[x] = IF x = s THEN row ELSE table[x]
  BY DEF CreateRun
<1> HIDE DEF row
<1> QED BY <1>1, <1>2, EntryOf

\* A completed run keeps its status.
LEMMA StepKeepsOutcome ==
  ASSUME run \in RunTable, RunStep, NEW r \in RunIds, Completed(run[r])
  PROVE  run'[r].status = run[r].status
<1>1. run \in [RunIds -> RunRecord]
  BY DEF RunTable, SoundRun
<1>2. run[r].status \notin {"absent", "running"}
  BY DEF Completed
<1>3. CASE Sweeps
  <2>1. PICK S \in SUBSET RunIds : /\ \A q \in S : run[q].status = "running"
                                   /\ run' = InterruptRuns(run, S)
    BY <1>3 DEF Sweeps
  <2>2. r \notin S
    BY <1>2, <2>1
  <2> QED BY <2>1, <2>2, SweptEntries DEF Same
<1>4. CASE Notifies
  BY <1>4, NotifiedEntries DEF Same
<1>5. ASSUME NEW q \in RunIds, Marks(q) PROVE run'[r].status = run[r].status
  BY <1>5, MarkedEntries DEF Same
<1>6. ASSUME NEW q \in RunIds, Opens(q) PROVE run'[r].status = run[r].status
  BY <1>1, <1>2, <1>6 DEF Opens, CreateRun
<1>7. ASSUME NEW q \in RunIds, Finishes(q) PROVE run'[r].status = run[r].status
  BY <1>2, <1>7, FinishedEntries DEF Same
<1>8. ASSUME NEW q \in RunIds, NEW s \in RunIds, Continues(q, s)
      PROVE  run'[r].status = run[r].status
  <2>1. ClearParkedTask(run, q)[r].status = run[r].status
    BY <1>1 DEF ClearParkedTask, RunRecord
  <2>2. ClearParkedTask(run, q) \in [RunIds -> RunRecord]
    BY ClearParkedSound DEF RunTable, SoundRun
  <2>3. PICK j \in Jobs : /\ run[s].status = "absent"
                          /\ run' = CreateRun(ClearParkedTask(run, q), s, j, "resumed")
    BY <1>8 DEF Continues
  <2>4. run'[r] = ClearParkedTask(run, q)[r]
    BY <1>2, <2>2, <2>3, OpenedEntries DEF Triggers
  <2> QED BY <2>1, <2>4
<1> QED BY <1>3, <1>4, <1>5, <1>6, <1>7, <1>8 DEF RunStep, RunRewrite

\* What a run was recorded as is final: a dispatcher that other processes took
\* for dead cannot record its outcome over theirs, nor they over its.
THEOREM OutcomesAreFinal == Spec => OutcomeIsFinal
<1>1. IInv /\ [Next]_vars => [\A r \in RunIds : Completed(run[r]) => run'[r].status = run[r].status]_vars
  BY EveryRunStep, StepKeepsOutcome DEF IInv, TablesOK
<1> QED BY <1>1, Invariance, PTL DEF Spec, OutcomeIsFinal

\* The ledger of a step that keeps every entry stutters.
LEMMA StutterLedger ==
  ASSUME \A x \in RunIds : LedgerEntry(run'[x]) = LedgerEntry(run[x])
  PROVE  UNCHANGED [r \in RunIds |-> LedgerEntry(run[r])]
OBVIOUS

LEMMA LedgerInit == Init => Ledger!Init
<1> SUFFICES ASSUME Init PROVE Ledger!Init
  OBVIOUS
<1>1. \A r \in RunIds : run[r].status = "absent"
  BY DEF Init, AbsentRun
<1> QED BY <1>1, EntryOf DEF Ledger!Init

LEMMA LedgerSweep == ASSUME run \in RunTable, Sweeps
                     PROVE  [Ledger!Next]_([r \in RunIds |-> LedgerEntry(run[r])])
<1>1. PICK S \in SUBSET RunIds : /\ \A r \in S : run[r].status = "running"
                                 /\ run' = InterruptRuns(run, S)
  BY DEF Sweeps
<1>2. \A x \in RunIds : Same(run'[x], IF x \in S THEN [run[x] EXCEPT !.status = "interrupted"] ELSE run[x])
  BY <1>1, SweptEntries
<1>3. \A x \in RunIds : run[x] \in RunRecord
  BY DEF RunTable, SoundRun
<1>4. \A x \in S : LedgerEntry(run[x]) \in {"fresh", "resumed"} /\ LedgerEntry(run'[x]) = "closed"
  BY <1>1, <1>2, <1>3, EntryOf DEF Same, Answerable, RunRecord
<1>5. \A x \in RunIds \ S : LedgerEntry(run'[x]) = LedgerEntry(run[x])
  BY <1>2, SameEntry
<1>6. CASE S = {}
  BY <1>5, <1>6, StutterLedger
<1>7. CASE S # {}
  <2>1. Ledger!Close(S)
    BY <1>4, <1>5, <1>7 DEF Ledger!Close, Ledger!Open
  <2> QED BY <2>1 DEF Ledger!Next
<1> QED BY <1>6, <1>7

LEMMA LedgerOpen == ASSUME run \in RunTable, NEW r \in RunIds, Opens(r) PROVE Ledger!Next
<1>1. PICK j \in Jobs, trigger \in Triggers \ {"resumed"} : run' = CreateRun(run, r, j, trigger)
  BY DEF Opens
<1>2. run \in [RunIds -> RunRecord]
  BY DEF RunTable, SoundRun
<1>3. LedgerEntry(run'[r]) = "fresh" /\ \A x \in RunIds \ {r} : run'[x] = run[x]
  BY <1>1, <1>2, OpenedEntries
<1>4. LedgerEntry(run[r]) = "absent"
  BY EntryOf DEF Opens
<1>5. Ledger!Begin(r)
  <2>1. \A x \in RunIds : LedgerEntry(run'[x]) = IF x = r THEN "fresh" ELSE LedgerEntry(run[x])
    BY <1>3
  <2>2. [x \in RunIds |-> LedgerEntry(run'[x])]
          = [[x \in RunIds |-> LedgerEntry(run[x])] EXCEPT ![r] = "fresh"]
    BY <2>1
  <2> QED BY <1>4, <2>2 DEF Ledger!Begin
<1> QED BY <1>5 DEF Ledger!Next

LEMMA LedgerFinish == ASSUME run \in RunTable, NEW r \in RunIds, Finishes(r)
                      PROVE  [Ledger!Next]_([x \in RunIds |-> LedgerEntry(run[x])])
<1>1. CASE run' = run
  BY <1>1, StutterLedger
<1>2. CASE /\ run[r].status = "running" /\ run'[r].status \in Outcomes
           /\ \A x \in RunIds \ {r} : Same(run'[x], run[x])
  <2>1. LedgerEntry(run[r]) \in {"fresh", "resumed"} /\ LedgerEntry(run'[r]) \in {"asking", "closed"}
    <3>1. Answerable(run'[r]) \/ ~Answerable(run'[r])
      OBVIOUS
    <3> QED BY <1>2, <3>1, EntryOf DEF Outcomes
  <2>2. \A x \in RunIds \ {r} : LedgerEntry(run'[x]) = LedgerEntry(run[x])
    BY <1>2, SameEntry
  <2>3. Ledger!Ask(r) \/ Ledger!Close({r})
    BY <2>1, <2>2 DEF Ledger!Ask, Ledger!Close, Ledger!Open
  <2> QED BY <2>3 DEF Ledger!Next
<1> QED BY <1>1, <1>2, FinishedEntries

LEMMA LedgerContinue ==
  ASSUME run \in RunTable, NEW r \in RunIds, NEW s \in RunIds, Continues(r, s) PROVE Ledger!Next
<1> DEFINE table == ClearParkedTask(run, r)
<1>1. PICK j \in Jobs : run' = CreateRun(table, s, j, "resumed")
  BY DEF Continues
<1>2. table \in [RunIds -> RunRecord]
  BY ClearParkedSound DEF RunTable, SoundRun
<1>3. LedgerEntry(run'[s]) = "resumed" /\ \A x \in RunIds \ {s} : run'[x] = table[x]
  <2> HIDE DEF table
  <2> QED BY <1>1, <1>2, OpenedEntries DEF Triggers
<1>4. run[r].status = "auth_required" /\ run[r].ask # "none" /\ run[s].status = "absent"
  BY DEF Continues, RunTable, SoundRun
<1>5. table[r].status = "auth_required" /\ table[r].ask = "none"
  BY <1>4 DEF ClearParkedTask, RunTable, SoundRun, RunRecord
<1>6. \A x \in RunIds \ {r} : table[x] = run[x]
  BY DEF ClearParkedTask, RunTable
<1>7. LedgerEntry(run[r]) = "asking" /\ LedgerEntry(run[s]) = "absent" /\ LedgerEntry(table[r]) = "closed"
  BY <1>4, <1>5, EntryOf DEF Answerable
<1>8. Ledger!Answer(r, s)
  <2> HIDE DEF table
  <2> QED BY <1>3, <1>4, <1>6, <1>7 DEF Ledger!Answer
<1> QED BY <1>8 DEF Ledger!Next

\* Every step maps to a step of the ledger or leaves it alone.
LEMMA LedgerStep ==
  ASSUME run \in RunTable, RunStep
  PROVE  [Ledger!Next]_([r \in RunIds |-> LedgerEntry(run[r])])
<1>1. CASE run' = run
  BY <1>1, StutterLedger
<1>2. CASE Notifies \/ \E r \in RunIds : Marks(r)
  <2>1. \A x \in RunIds : Same(run'[x], run[x])
    BY <1>2, NotifiedEntries, MarkedEntries
  <2> QED BY <2>1, SameEntry, StutterLedger
<1> QED BY <1>1, <1>2, LedgerSweep, LedgerOpen, LedgerFinish, LedgerContinue DEF RunStep, RunRewrite

\* The scheduler implements the ledger of runs: opened once, answered at most
\* once and only together with the run that continues it, closed for good.
THEOREM Refinement == Spec => ImplementsLedger
<1>1. IInv /\ [Next]_vars => [Ledger!Next]_([r \in RunIds |-> LedgerEntry(run[r])])
  BY EveryRunStep, LedgerStep DEF IInv, TablesOK
<1> QED BY <1>1, LedgerInit, Invariance, PTL DEF Spec, ImplementsLedger, Ledger!Spec
=============================================================================
