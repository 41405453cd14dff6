------------------------------ MODULE Scheduler -----------------------------
(***************************************************************************)
(* The scheduler of console-backend: several processes, each running the   *)
(* tick loop of SchedulerEngine over the same two tables, the web requests *)
(* that start runs outside the loop, and the people who pause, edit, share *)
(* and answer jobs meanwhile.                                              *)
(*                                                                         *)
(* One action is one database transaction, or one step of a process that   *)
(* touches only its own memory.  What a process holds in memory between    *)
(* two transactions (a claim whose run row is not written yet, a dispatch  *)
(* whose outcome is half recorded, a request that has passed its checks)   *)
(* is in claims, tasks and req, and a crash loses it.                      *)
(***************************************************************************)
EXTENDS RunRow, FiniteSets

CONSTANTS
  Procs,         \* console-backend processes
  Clients,       \* web requests that can be in progress at once
  Watches,       \* the subscriptions whose definition is a watch
  FiresOnce,     \* ... with destroy_after_trigger
  InitialKinds,  \* trigger kinds a job may start with
  Endings,       \* how a dispatch may end (names, see Ending)
  BadTimezones,  \* subset of BOOLEAN: may a stored timezone fail to resolve?
  Ops,           \* what people do (names, one per action below)
  LapseLive,     \* may a live dispatcher miss three heartbeats in a row?
  NoticesArrive, \* does every recovery notice that is sent arrive?
  MaxCrashes,    \* bound: processes killed
  MaxFaults,     \* bound: database writes that fail
  MaxEdits       \* bound: versions of a trigger

ASSUME JobsAssumption == Jobs # {} /\ Watches \subseteq Jobs /\ FiresOnce \subseteq Watches
ASSUME KindsAssumption == InitialKinds \subseteq Kinds
ASSUME SwitchesAssumption ==
  LapseLive \in BOOLEAN /\ NoticesArrive \in BOOLEAN /\ BadTimezones \subseteq BOOLEAN
ASSUME BudgetAssumption == MaxCrashes \in Nat /\ MaxFaults \in Nat /\ MaxEdits \in Nat

VARIABLES
  sub,        \* scheduled_job_subscriptions
  run,        \* scheduled_job_runs
  suspended,  \* the definition's suspended_at
  deleted,    \* the subscriptions with deleted_at
  phase,      \* where each process stands in its tick
  claims,     \* claimed jobs whose run row is not written yet
  tasks,      \* dispatches in memory
  req,        \* web requests between their checks and their write
  releasing,  \* held jobs a sign-in has listed (Held) and is about to resume
  told,       \* history: runs whose recovery notice was delivered
  advanced,   \* history: what each run's outcome made of its job
  chosen,     \* history: did the subscriber, when last asked, want the job on?
  missed,     \* history: jobs whose last occurrence came due in a suspension
  crashes, faults

rows       == <<sub, run>>
definition == <<suspended, deleted>>
memory     == <<phase, claims, tasks>>
web        == <<req, releasing>>
history    == <<told, advanced, chosen, missed>>
budget     == <<crashes, faults>>
vars       == <<rows, definition, memory, web, history, budget>>

-----------------------------------------------------------------------------
(* How a dispatch ends *)

EndingNames == {"success", "failed", "interrupted", "condition_not_met",
                "task_ask", "check_ask", "no_sign_in", "no_access",
                "token_error", "declined"}

Outcome(status, ask, code, counts, delivered, bad) ==
  [status |-> status, ask |-> ask, code |-> code, counts |-> counts,
   delivered |-> delivered, badTimezone |-> bad]

Ending(name, bad) ==
  CASE name = "success"           -> Outcome("success", "none", "none", TRUE, TRUE, bad)
    [] name = "interrupted"       -> Outcome("interrupted", "none", "none", TRUE, FALSE, bad)
    [] name = "condition_not_met" -> Outcome("condition_not_met", "none", "none", TRUE, FALSE, bad)
    [] name = "task_ask"          -> Outcome("auth_required", "task", "none", TRUE, TRUE, bad)
    [] name = "check_ask"         -> Outcome("auth_required", "check", "none", TRUE, FALSE, bad)
    [] name = "no_sign_in"        -> Outcome("failed", "none", "sign_in", FALSE, FALSE, bad)
    [] name = "no_access"         -> Outcome("failed", "none", "agent_inaccessible", FALSE, FALSE, bad)
    [] name = "token_error"       -> Outcome("failed", "none", "no_offline_token", TRUE, FALSE, bad)
    [] name = "declined"          -> Outcome("failed", "none", "none", FALSE, FALSE, bad)
    [] OTHER                      -> Outcome("failed", "none", "none", TRUE, FALSE, bad)

\* full: _dispatch_job.  agent: an answer delivered to the parked task.
\* decline: a declined check, closed without a dispatch.
Modes == {"full", "agent", "decline"}

EndingsOf(mode, j) ==
  CASE mode = "decline" -> {"declined"}
    [] mode = "full" /\ j \in Watches -> Endings
    [] OTHER -> Endings \ {"condition_not_met", "check_ask"}

-----------------------------------------------------------------------------
Stages == {"queued", "dispatching", "recording", "posting"}

Task == [run : RunIds, proc : Procs, stage : Stages, mode : Modes,
         snap : Snapshots, outcome : OutcomeRecord]

Claim == [proc : Procs, job : Jobs, trigger : {"scheduled", "retry"},
          snap : Snapshots]

Request == [kind : {"run_now", "answer"}, job : Jobs, run : RunIds \cup {0},
            mode : Modes, snap : Snapshots]

IdleRequest == [kind |-> "idle"]

Held == [job : Jobs, passed : BOOLEAN]

NewTask(r, p, stage, mode, snap) ==
  [run |-> r, proc |-> p, stage |-> stage, mode |-> mode, snap |-> snap,
   outcome |-> Ending("failed", FALSE)]

Replace(t, u) == (tasks \ {t}) \cup {u}

\* _in_flight: what this process is dispatching right now.
Dispatching(t) == t.stage # "queued" /\ t.mode # "decline"
InFlight(p) == {t.run : t \in {u \in tasks : u.proc = p /\ Dispatching(u)}}

\* The dispatches a tick awaits before it ends.
TickTasks(p) ==
  {t \in tasks : t.proc = p /\ run[t.run].trigger \in {"scheduled", "retry"}}

\* Bound: a run row is kept in reserve for every claim already made.
Room(n) == Cardinality(Unused(run)) >= Cardinality(claims) + n

Live(j) == j \notin deleted
Allowed(op, j) == op \in Ops /\ Live(j)

Init ==
  /\ \E k \in [Jobs -> InitialKinds] : sub = [j \in Jobs |-> NewSubscription(k[j])]
  /\ run = [r \in RunIds |-> AbsentRun]
  /\ suspended = FALSE /\ deleted = {}
  /\ phase = [p \in Procs |-> "heal"]
  /\ claims = {} /\ tasks = {}
  /\ req = [c \in Clients |-> IdleRequest] /\ releasing = {}
  /\ told = {} /\ advanced = [r \in RunIds |-> "none"]
  /\ chosen = [j \in Jobs |-> TRUE] /\ missed = {}
  /\ crashes = 0 /\ faults = 0

-----------------------------------------------------------------------------
(* The tick: heal, deliver notices, claim, await the dispatches *)

HealStuckRuns(p) ==
  LET S == StaleRuns(run, InFlight(p))
      earning == {run[r].job : r \in {q \in S : EarnsRetry(run[q].trigger)}}
  IN /\ phase[p] = "heal"
     /\ run' = InterruptRuns(run, S)
     /\ sub' = [j \in Jobs |-> IF j \in earning /\ Live(j) THEN GrantRetry(sub[j]) ELSE sub[j]]
     /\ phase' = [phase EXCEPT ![p] = "notices"]
     /\ UNCHANGED <<definition, claims, tasks, web, history, budget>>

\* The engine reads the key "job_id" of each claimed row before anything else
\* in the loop; a row without it raises, and the round ends there.
Sendable == {r \in DueNotices(run) : "job_id" \in DOMAIN ClaimedItem(run, r)}

DeliverDueNotices(p) ==
  /\ phase[p] = "notices"
  /\ \E sent \in SUBSET Sendable :
       /\ NoticesArrive => sent = Sendable
       /\ run' = AfterNotices(run, sent)
       /\ told' = told \cup sent
  /\ phase' = [phase EXCEPT ![p] = "claim"]
  /\ UNCHANGED <<sub, definition, claims, tasks, web, advanced, chosen, missed, budget>>

\* Mutants: a running run, or a park, does not hold the schedule.
Claimable_IgnoresRunning(j) ==
  Live(j) /\ ~suspended /\ DueRow(sub[j]) /\ ParkedOf(run, j) = {}
Claimable_IgnoresPark(j) ==
  Live(j) /\ ~suspended /\ DueRow(sub[j]) /\ RunningOf(run, j) = {}

Claimable(j) ==
  /\ Live(j) /\ ~suspended
  /\ DueRow(sub[j])
  /\ RunningOf(run, j) = {}
  /\ ParkedOf(run, j) = {}

ClaimDueJobs(p) ==
  LET due == IF Room(Cardinality(Jobs)) THEN {j \in Jobs : Claimable(j)} ELSE {}
      claim(j) == [proc |-> p, job |-> j, snap |-> Snapshot(sub[j]),
                   trigger |-> IF RetryDue(sub[j]) THEN "retry" ELSE "scheduled"]
  IN /\ phase[p] = "claim"
     /\ claims' = claims \cup {claim(j) : j \in due}
     /\ sub' = [j \in Jobs |-> IF j \in due THEN ClaimRow(sub[j]) ELSE sub[j]]
     /\ phase' = [phase EXCEPT ![p] = IF due = {} THEN "heal" ELSE "gather"]
     /\ UNCHANGED <<run, definition, tasks, web, history, budget>>

\* The run row is a transaction of its own, after the claim's.
BeginDispatch(c) ==
  \E r \in RunIds :
    /\ NextRunId(run, r)
    /\ run' = CreateRun(run, r, c.job, c.trigger)
    /\ claims' = claims \ {c}
    /\ tasks' = tasks \cup {NewTask(r, c.proc, "dispatching", "full", c.snap)}
    /\ UNCHANGED <<sub, definition, phase, web, history, budget>>

\* _tick gathers with return_exceptions, logs what raised, and sleeps.
EndTick(p) ==
  /\ phase[p] = "gather"
  /\ TickTasks(p) = {} /\ ~\E c \in claims : c.proc = p
  /\ phase' = [phase EXCEPT ![p] = "heal"]
  /\ UNCHANGED <<rows, definition, claims, tasks, web, history, budget>>

\* A failed sweep or notice round is logged and the tick goes on; a failed
\* claim ends it.
TickStepFails(p) ==
  /\ faults < MaxFaults /\ faults' = faults + 1
  /\ phase[p] \in {"heal", "notices", "claim"}
  /\ phase' = [phase EXCEPT ![p] = CASE @ = "heal" -> "notices"
                                     [] @ = "notices" -> "claim"
                                     [] OTHER -> "heal"]
  /\ UNCHANGED <<rows, definition, claims, tasks, web, history, crashes>>

-----------------------------------------------------------------------------
(* One dispatch, from the background task that starts it to its last write *)

StartTask(t) ==
  /\ t.stage = "queued" /\ t.mode # "decline"
  /\ tasks' = Replace(t, [t EXCEPT !.stage = "dispatching"])
  /\ UNCHANGED <<rows, definition, phase, claims, web, history, budget>>

Ready(t) == t.stage = "dispatching" \/ (t.stage = "queued" /\ t.mode = "decline")

\* _finalize, first transaction: the job advances.
RecordOutcome(t) ==
  LET j == run[t.run].job
  IN /\ Ready(t)
     /\ \E name \in EndingsOf(t.mode, j), bad \in BadTimezones :
          LET o == Ending(name, bad)
          IN /\ sub' = [sub EXCEPT ![j] =
                          FinalizeRow(@, o, run[t.run].trigger, t.snap, j \in FiresOnce)]
             /\ tasks' = Replace(t, [t EXCEPT !.stage = "recording", !.outcome = o])
             /\ advanced' = [advanced EXCEPT ![t.run] =
                               IF o.counts THEN o.status ELSE "uncounted"]
     /\ UNCHANGED <<run, definition, phase, claims, web, told, chosen, missed, budget>>

\* It fails: OutcomeNotRecordedError, and the run is left to the healer.
OutcomeNotRecorded(t) ==
  /\ Ready(t)
  /\ faults < MaxFaults /\ faults' = faults + 1
  /\ tasks' = tasks \ {t}
  /\ UNCHANGED <<rows, definition, phase, claims, web, history, crashes>>

\* After the run row, a check's ask is still to be posted to the channel.
AfterRecording(t) ==
  IF t.outcome.ask = "check" THEN Replace(t, [t EXCEPT !.stage = "posting"])
  ELSE tasks \ {t}

\* _finalize, second transaction: the run row.
FinishRun(t) ==
  /\ t.stage = "recording"
  /\ run' = CompleteRun(run, t.run, t.outcome)
  /\ tasks' = AfterRecording(t)
  /\ UNCHANGED <<sub, definition, phase, claims, web, history, budget>>

\* It fails: the minimal write, or, if that fails too, nothing.
FinishRunFails(t) ==
  /\ t.stage = "recording"
  /\ faults < MaxFaults /\ faults' = faults + 1
  /\ \/ run' = CloseRunMinimally(run, t.run, t.outcome)
     \/ UNCHANGED run
  /\ tasks' = AfterRecording(t)
  /\ UNCHANGED <<sub, definition, phase, claims, web, history, crashes>>

\* _park_on_check_ask, once the park is written.
PostCheckAsk(t) ==
  /\ t.stage = "posting"
  /\ \/ run' = MarkRunDelivered(run, t.run)
     \/ UNCHANGED run
  /\ tasks' = tasks \ {t}
  /\ UNCHANGED <<sub, definition, phase, claims, web, history, budget>>

Heartbeat(t) ==
  /\ Dispatching(t)
  /\ run[t.run].beat = "stale"
  /\ run' = TouchRun(run, t.run, "fresh")
  /\ UNCHANGED <<sub, definition, memory, web, history, budget>>

\* create_run raises: the claim is gone and no row says it was made.
BeginDispatchFails(c) ==
  /\ faults < MaxFaults /\ faults' = faults + 1
  /\ claims' = claims \ {c}
  /\ UNCHANGED <<rows, definition, phase, tasks, web, history, crashes>>

Dispatch ==
  \/ \E c \in claims : BeginDispatch(c) \/ BeginDispatchFails(c)
  \/ \E t \in tasks : \/ StartTask(t) \/ RecordOutcome(t) \/ OutcomeNotRecorded(t)
                      \/ FinishRun(t) \/ FinishRunFails(t) \/ PostCheckAsk(t)
                      \/ Heartbeat(t)

-----------------------------------------------------------------------------
(* Processes come and go, and time passes *)

Crash(p) ==
  /\ phase[p] # "down"
  /\ crashes < MaxCrashes /\ crashes' = crashes + 1
  /\ phase' = [phase EXCEPT ![p] = "down"]
  /\ claims' = {c \in claims : c.proc # p}
  /\ tasks' = {t \in tasks : t.proc # p}
  /\ UNCHANGED <<rows, definition, web, history, faults>>

Start(p) ==
  /\ phase[p] = "down"
  /\ phase' = [phase EXCEPT ![p] = "heal"]
  /\ UNCHANGED <<rows, definition, claims, tasks, web, history, budget>>

Tick(p) == \/ HealStuckRuns(p) \/ DeliverDueNotices(p) \/ ClaimDueJobs(p)
           \/ EndTick(p) \/ TickStepFails(p)

TimePasses == UNCHANGED <<definition, memory, web, history, budget>>

ScheduleComesDue(j) ==
  /\ sub[j].next = "future"
  /\ sub' = [sub EXCEPT ![j].next = "due"]
  /\ missed' = IF suspended THEN missed \cup {j} ELSE missed \ {j}
  /\ UNCHANGED <<run, definition, memory, web, told, advanced, chosen, budget>>

RetryComesDue(j) ==
  /\ sub[j].retry = "pending"
  /\ sub' = [sub EXCEPT ![j].retry = "due"]
  /\ UNCHANGED run /\ TimePasses

NoticeComesDue(r) ==
  /\ run[r].notice = "waiting"
  /\ run' = [run EXCEPT ![r].notice = "due"]
  /\ UNCHANGED sub /\ TimePasses

NoticeGetsTooOld(r) ==
  /\ run[r].notice \in {"waiting", "due"}
  /\ run' = [run EXCEPT ![r].notice = "too_old"]
  /\ UNCHANGED sub /\ TimePasses

\* Nobody reports on a run no process holds; a live dispatcher may miss three
\* beats only where LapseLive says so.
HeartbeatLapses(r) ==
  /\ run[r].status = "running" /\ run[r].beat = "fresh"
  /\ LapseLive \/ \A t \in tasks : t.run # r
  /\ run' = TouchRun(run, r, "stale")
  /\ UNCHANGED sub /\ TimePasses

Time == \/ \E j \in Jobs : ScheduleComesDue(j) \/ RetryComesDue(j)
        \/ \E r \in RunIds : NoticeComesDue(r) \/ NoticeGetsTooOld(r) \/ HeartbeatLapses(r)

-----------------------------------------------------------------------------
(* Runs started from the web: each request checks, then writes *)

Requested(c, kind, j, r, mode) ==
  /\ req[c] = IdleRequest
  /\ req' = [req EXCEPT ![c] = [kind |-> kind, job |-> j, run |-> r, mode |-> mode,
                                snap |-> Snapshot(sub[j])]]
  /\ UNCHANGED <<rows, definition, memory, releasing, history, budget>>

RequestRunNow(c, j) ==
  /\ Allowed("run_now", j)
  /\ ~suspended
  /\ ParkedOf(run, j) = {}
  /\ Requested(c, "run_now", j, 0, "full")

\* A declined check is closed at once; any other answer is dispatched.
AnswerMode(ask, approved) ==
  CASE ask = "task" -> "agent" [] approved -> "full" [] OTHER -> "decline"

RequestAnswer(c, r, approved) ==
  /\ Answerable(run[r])
  /\ Allowed("answer", run[r].job)
  /\ ~suspended
  /\ Requested(c, "answer", run[r].job, r, AnswerMode(run[r].ask, approved))

\* The new row, and the background task that will execute it.
QueueRun(c, p, table, trigger) ==
  \E r \in RunIds :
    /\ phase[p] # "down"
    /\ Room(1) /\ NextRunId(run, r)
    /\ run' = CreateRun(table, r, req[c].job, trigger)
    /\ tasks' = tasks \cup {NewTask(r, p, "queued", req[c].mode, req[c].snap)}
    /\ req' = [req EXCEPT ![c] = IdleRequest]
    /\ UNCHANGED <<sub, definition, phase, claims, releasing, history, budget>>

RunJobNow(c, p) ==
  /\ req[c].kind = "run_now"
  /\ QueueRun(c, p, run, "manual")

\* The conditional write that decides between two answers.
StillAsks_Unchecked(r) == TRUE  \* mutant
StillAsks(r) == run[r].ask # "none"

\* The ask is consumed and its continuation inserted in one transaction.
AnswerParkedRun(c, p) ==
  /\ req[c].kind = "answer"
  /\ StillAsks(req[c].run)
  /\ QueueRun(c, p, ClearParkedTask(run, req[c].run), "resumed")

RefuseAnswer(c) ==
  /\ req[c].kind = "answer"
  /\ ~StillAsks(req[c].run)
  /\ req' = [req EXCEPT ![c] = IdleRequest]
  /\ UNCHANGED <<rows, definition, memory, releasing, history, budget>>

Web ==
  \E c \in Clients :
    \/ \E j \in Jobs : RequestRunNow(c, j)
    \/ \E r \in RunIds, approved \in BOOLEAN : RequestAnswer(c, r, approved)
    \/ \E p \in Procs : RunJobNow(c, p) \/ AnswerParkedRun(c, p)
    \/ RefuseAnswer(c)

-----------------------------------------------------------------------------
(* What people do to a job *)

Write(j, row) ==
  /\ sub' = [sub EXCEPT ![j] = row]
  /\ UNCHANGED <<run, definition, memory, told, advanced, missed, budget>>

\* The subscriber's own decision, and a write that is not one.
Decide(j, on, row) ==
  /\ Write(j, row)
  /\ chosen' = [chosen EXCEPT ![j] = on]
  /\ UNCHANGED web

Adjust(j, row) == Write(j, row) /\ UNCHANGED <<chosen, web>>

Pause(j) == Allowed("pause", j) /\ Decide(j, FALSE, PauseRow(sub[j]))

Resume(j) ==
  /\ Allowed("resume", j) /\ ResumableRow(sub[j])
  /\ Decide(j, TRUE, ResumeRow(sub[j]))

Toggle(j, on) == Allowed("toggle", j) /\ Decide(j, on, ToggleRow(sub[j], on))

\* A one-shot may be given a moment that has passed.
Moments(kind) == IF kind = "once" THEN {"future", "due"} ELSE {"future"}

EditTrigger(j, kind) ==
  /\ Allowed("edit", j) /\ sub[j].sched < MaxEdits
  /\ \E when \in Moments(kind) : Adjust(j, EditRow(sub[j], kind, when))

AdoptTrigger(j, kind) ==
  /\ Allowed("adopt", j) /\ sub[j].sched < MaxEdits
  /\ \E when \in Moments(kind) : Adjust(j, AdoptRow(sub[j], kind, when))

Remove(S) ==
  /\ deleted' = deleted \cup S
  /\ UNCHANGED <<rows, suspended, memory, web, history, budget>>

\* The group's grant goes, or the member: a subscription only the group stood
\* behind goes with it, any other is stopped.
WithdrawAccess(j) ==
  /\ Allowed("share", j)
  /\ Adjust(j, WithdrawRow(sub[j])) \/ Remove({j})

RestoreAccess(j) ==
  /\ Allowed("share", j) /\ sub[j].code = "access_revoked"
  /\ \E row \in RestoredRows(sub[j]) : Adjust(j, row)

\* release_sign_in_holds lists the held jobs, then resumes each of them.
SignIn(j) ==
  /\ Allowed("sign_in", j)
  /\ sub[j].code \in SignInHolds
  /\ releasing' = releasing \cup {[job |-> j, passed |-> Elapsed(sub[j])]}
  /\ UNCHANGED <<rows, definition, memory, req, history, budget>>

\* release_reachability_holds, when the subscriber signs in from the channel,
\* and the second half of an update that moves the job to another one, which
\* resumes it whatever its moment.
BindChannel(j) ==
  /\ Allowed("bind", j)
  /\ sub[j].code = "unreachable"
  /\ \E passed \in {FALSE, Elapsed(sub[j])} :
       releasing' = releasing \cup {[job |-> j, passed |-> passed]}
  /\ UNCHANGED <<rows, definition, memory, req, history, budget>>

ReleaseHeld(h) ==
  /\ releasing' = releasing \ {h}
  /\ \E row \in IF Live(h.job) THEN ReleasedRows(sub[h.job], h.passed) ELSE {sub[h.job]} :
       Write(h.job, row)
  /\ UNCHANGED <<chosen, req>>

\* A chat client reports that the notification of a run reached nobody.
ReportUndelivered(r, noRecipient) ==
  /\ "report" \in Ops
  /\ run[r].status # "absent" /\ ~run[r].failure
  /\ run' = MarkRunUndelivered(run, r)
  /\ sub' = IF noRecipient /\ Live(run[r].job)
            THEN [sub EXCEPT ![run[r].job] = DisableIfEnabled(@, "unreachable")]
            ELSE sub
  /\ UNCHANGED <<definition, memory, web, history, budget>>

Suspend ==
  /\ "suspend" \in Ops /\ ~suspended
  /\ suspended' = TRUE
  /\ UNCHANGED <<rows, deleted, memory, web, history, budget>>

Unsuspend ==
  /\ suspended
  /\ suspended' = FALSE
  /\ sub' = [j \in Jobs |-> IF Live(j) THEN UnsuspendRow(sub[j]) ELSE sub[j]]
  /\ UNCHANGED <<run, deleted, memory, web, history, budget>>

\* A subscriber deletes their job; its owner deletes everyone's.
Delete(j) == Allowed("delete", j) /\ (Remove({j}) \/ Remove(Jobs))

People ==
  \/ \E j \in Jobs : \/ Pause(j) \/ Resume(j) \/ \E on \in BOOLEAN : Toggle(j, on)
                     \/ \E kind \in Kinds : EditTrigger(j, kind) \/ AdoptTrigger(j, kind)
                     \/ WithdrawAccess(j) \/ RestoreAccess(j)
                     \/ SignIn(j) \/ BindChannel(j) \/ Delete(j)
  \/ \E h \in releasing : ReleaseHeld(h)
  \/ \E r \in RunIds, b \in BOOLEAN : ReportUndelivered(r, b)
  \/ Suspend \/ Unsuspend

-----------------------------------------------------------------------------
Next == \/ \E p \in Procs : Tick(p) \/ Crash(p) \/ Start(p)
        \/ Dispatch \/ Time \/ Web \/ People

Spec == Init /\ [][Next]_vars

TypeOK ==
  /\ sub \in [Jobs -> SubscriptionRow]
  /\ run \in [RunIds -> RunRecord]
  /\ suspended \in BOOLEAN /\ deleted \subseteq Jobs
  /\ phase \in [Procs -> {"down", "heal", "notices", "claim", "gather"}]
  /\ claims \subseteq Claim /\ tasks \subseteq Task
  /\ req \in [Clients -> Request \cup {IdleRequest}] /\ releasing \subseteq Held
  /\ told \subseteq RunIds
  /\ advanced \in [RunIds -> Outcomes \cup {"none", "uncounted"}]
  /\ chosen \in [Jobs -> BOOLEAN] /\ missed \subseteq Jobs
  /\ crashes \in 0 .. MaxCrashes /\ faults \in 0 .. MaxFaults
=============================================================================
