------------------------------ MODULE Catalog -------------------------------
(***************************************************************************)
(* Catalog synchronisation: the jobs table one catalog has, the console    *)
(* requests and the worker loops that write it, the worker that claims and *)
(* executes jobs, and what an execution makes of the files' rows and of    *)
(* the vector store.                                                       *)
(*                                                                         *)
(* A file has one page.  A version number stands for content: of the file  *)
(* at the source (0: it is not there), of the page row (its content_hash;  *)
(* 0: no page stored) and of the vector (0: none).  source_modified_at is  *)
(* the version the source listed.  Jobs are numbered by created_at.        *)
(***************************************************************************)
EXTENDS Naturals, FiniteSets

CONSTANTS
  Files,      \* the files the catalog's sources may hold
  Slots,      \* MAX_CONCURRENT executions of one worker
  Web,        \* concurrent requests to the console
  Requests,   \* which of sync, reindex, pause, resume, cancel, index they make
  Legacy,     \* TRUE: source_config is flat and carries a change_token
  MaxJobs, MaxVersion, MaxUpsets  \* bounds

ASSUME CatalogAssumption ==
  /\ Slots # {} /\ IsFiniteSet(Slots)
  /\ MaxJobs \in Nat /\ MaxVersion \in Nat \ {0}
  /\ MaxUpsets \in Nat
  /\ Legacy \in BOOLEAN

JobIds   == 1..MaxJobs
Versions == 0..MaxVersion
Loops    == {"tick", "heal"}   \* _scheduler_tick_loop, _reindex_heal_loop
Callers  == Web \cup Loops

Terminal  == {"completed", "failed", "cancelled"}
Statuses  == {"absent", "pending", "running", "reindexing", "paused",
              "cancelling"} \cup Terminal
\* What create_sync_job_atomic and the due query call active, and what
\* everything else does.
SyncActive == {"pending", "running", "paused", "cancelling"}
Active     == SyncActive \cup {"reindexing"}

VARIABLES
  job,      \* catalog_sync_jobs.status
  caller,   \* the write a request or loop will make of what it read
  worker,   \* "up", "draining" after SIGTERM, "down"
  hand,     \* claimed jobs the poll loop has no slot for yet
  task,     \* the executions under way
  src,      \* the files at the source
  row,      \* catalog_files and catalog_pages
  vec,      \* the vector store
  ran,      \* history: executions of each sync job, counted to 2
  mixed,    \* history: two executions, or one and an exclusion, overlapped
  upsets    \* crashes, shutdowns and changes of indexing_excluded so far

vars == <<job, caller, worker, hand, task, src, row, vec, ran, mixed,
          upsets>>

NoRow == [there |-> FALSE, mod |-> 0, page |-> 0, thumb |-> FALSE,
          indexed |-> FALSE, excluded |-> FALSE]
NewRow(v) == [NoRow EXCEPT !.there = TRUE, !.mod = v]
\* Flags and pages go with their file's row.
Rows  == {NoRow} \cup
         {r \in [there : {TRUE}, mod : Versions, page : Versions, thumb : BOOLEAN,
                 indexed : BOOLEAN, excluded : BOOLEAN] :
            r.page = 0 => ~r.thumb /\ ~r.indexed}

\* kind: which pipeline entry point; seen: what the source listed, or what the
\* pages were when a re-index read them; file: each file's handler; got: what
\* the handler has in memory.
Idle == [job |-> 0, kind |-> "none", step |-> "idle",
         seen |-> [f \in Files |-> 0], file |-> [f \in Files |-> "none"],
         got |-> [f \in Files |-> 0]]
FileSteps == {"none", "check", "go", "stored", "sent", "done", "failed"}
Tasks == [job : 0..MaxJobs, kind : {"none", "sync", "full", "incremental", "reindex"},
          step : {"idle", "start", "scan", "batch", "close"},
          seen : [Files -> Versions], file : [Files -> FileSteps],
          got : [Files -> Versions]]

NoWrite == [op |-> "none", job |-> 0, to |-> "absent"]
Writes  == [op : {"none", "insert", "update"}, job : 0..MaxJobs, to : Statuses]

Claims == [job : JobIds, as : {"pending", "reindexing"}]

TypeOK ==
  /\ job \in [JobIds -> Statuses] /\ caller \in [Callers -> Writes]
  /\ worker \in {"up", "draining", "down"} /\ hand \in SUBSET Claims
  /\ task \in [Slots -> Tasks]
  /\ src \in [Files -> Versions] /\ row \in [Files -> Rows]
  /\ vec \in [Files -> Versions]
  /\ ran \in [JobIds -> 0..2] /\ mixed \in BOOLEAN
  /\ upsets \in 0..MaxUpsets

Init ==
  /\ job = [j \in JobIds |-> "absent"] /\ caller = [c \in Callers |-> NoWrite]
  /\ worker = "up" /\ hand = {} /\ task = [s \in Slots |-> Idle]
  /\ src = [f \in Files |-> 1] /\ row = [f \in Files |-> NoRow]
  /\ vec = [f \in Files |-> 0]
  /\ ran = [j \in JobIds |-> 0] /\ mixed = FALSE
  /\ upsets = 0

-----------------------------------------------------------------------------
(* Who writes the jobs table, besides executions.  A request reads, decides *)
(* and writes in two statements (or one whose snapshot is older than its    *)
(* insert); nothing locks what was read.                                    *)

Existing  == {j \in JobIds : job[j] # "absent"}
\* get_latest_sync_job; 0 when the catalog has none.
Latest    == IF Existing = {} THEN 0
             ELSE CHOOSE j \in Existing : \A k \in Existing : k <= j
Unindexed(f) == row[f].there /\ row[f].page # 0 /\ ~row[f].indexed
                  /\ ~row[f].excluded

Serving(c) == c \in Web \/ worker = "up"

WillInsert(c, status) ==
  /\ caller[c] = NoWrite /\ Serving(c)
  /\ caller' = [caller EXCEPT ![c] = [op |-> "insert", job |-> 0, to |-> status]]
  /\ UNCHANGED <<job, worker, hand, task, src, row, vec, ran, mixed, upsets>>

\* trigger_sync, or the tick finding the catalog due.
TriggerSync(c) ==
  /\ c = "tick" \/ (c \in Web /\ "sync" \in Requests)
  /\ \A j \in JobIds : job[j] \notin SyncActive
  /\ WillInsert(c, "pending")

\* reindex_catalog looks at the latest job only.
ReindexCatalog(c) ==
  /\ c \in Web /\ "reindex" \in Requests
  /\ Latest # 0 => job[Latest] \notin Active
  /\ \E f \in Files : Unindexed(f)
  /\ WillInsert(c, "reindexing")

\* _reindex_heal_loop looks at all of them.
HealUnindexed ==
  /\ \A j \in JobIds : job[j] \notin Active
  /\ \E f \in Files : Unindexed(f)
  /\ WillInsert("heal", "reindexing")

\* _VALID_TRANSITIONS, as far as the three requests use it.  cancel_sync picks
\* its target from the status it reads.
Allowed(from) ==
  CASE from = "pending" -> {"paused", "cancelled"}
    [] from = "running" -> {"paused", "cancelling"}
    [] from = "paused"  -> {"running", "cancelled"}
    [] OTHER            -> {}
RequestOf(to) == CASE to = "paused" -> "pause" [] to = "running" -> "resume"
                   [] OTHER -> "cancel"

\* The reading half of _transition_sync_job.
Transition(c) ==
  /\ caller[c] = NoWrite /\ Latest # 0
  /\ \E to \in Allowed(job[Latest]) :
       /\ RequestOf(to) \in Requests
       /\ caller' = [caller EXCEPT ![c] = [op |-> "update", job |-> Latest, to |-> to]]
  /\ UNCHANGED <<job, worker, hand, task, src, row, vec, ran, mixed, upsets>>

\* The id the next row gets: created_at orders the rows as they are inserted.
NextId(j) == job[j] = "absent" /\ \A k \in JobIds : k < j => job[k] # "absent"

\* The write: a new row (beyond the bound the insert fails), or the status of
\* the row that was read, whatever it has become.
Write(c) ==
  /\ \/ /\ caller[c].op = "insert"
        /\ \/ \E j \in JobIds : NextId(j) /\ job' = [job EXCEPT ![j] = caller[c].to]
           \/ Existing = JobIds /\ UNCHANGED job
     \/ /\ caller[c].op = "update"
        /\ job' = [job EXCEPT ![caller[c].job] = caller[c].to]
  /\ caller' = [caller EXCEPT ![c] = NoWrite]
  /\ UNCHANGED <<worker, hand, task, src, row, vec, ran, mixed, upsets>>

Busy == {s \in Slots : task[s] # Idle}

\* update_file_indexing: the vector and indexed_at go, unless the vector
\* store fails; including a file again only clears the flag.
UpdateFileIndexing(f) ==
  /\ "index" \in Requests /\ upsets < MaxUpsets /\ row[f].there
  /\ upsets' = upsets + 1
  /\ mixed' = (mixed \/ Busy # {})
  /\ \/ /\ row' = [row EXCEPT ![f].excluded = FALSE] /\ UNCHANGED vec
     \/ /\ row' = [row EXCEPT ![f].excluded = TRUE] /\ UNCHANGED vec
     \/ /\ row' = [row EXCEPT ![f].excluded = TRUE, ![f].indexed = FALSE]
        /\ vec' = [vec EXCEPT ![f] = 0]
  /\ UNCHANGED <<job, caller, worker, hand, task, src, ran>>

-----------------------------------------------------------------------------
(* The worker *)

\* Mutant: a claimed job stays pending, as a re-index stays reindexing.
ClaimedAs_Unmarked(status) == status

\* What claim_pending_jobs writes on the rows it selected.
ClaimedAs(status) == IF status = "pending" THEN "running" ELSE status

\* Mutant: nothing is claimed while a job of the catalog is active.
Claimable_Alone ==
  IF \E j \in JobIds : job[j] \in Active \ {"pending", "reindexing"} THEN {}
  ELSE {j \in JobIds : job[j] \in {"pending", "reindexing"}}

Claimable == {j \in JobIds : job[j] \in {"pending", "reindexing"}}

\* One turn of _poll_loop: up to MAX_CONCURRENT of the oldest claimable jobs.
\* What is returned is the rows as selected, before the update.
ClaimPendingJobs ==
  /\ worker = "up" /\ hand = {} /\ Claimable # {}
  /\ LET J == {j \in Claimable : Cardinality({k \in Claimable : k < j})
                                   < Cardinality(Slots)}
     IN  /\ hand' = {[job |-> j, as |-> job[j]] : j \in J}
         /\ job' = [j \in JobIds |-> IF j \in J THEN ClaimedAs(job[j]) ELSE job[j]]
  /\ UNCHANGED <<caller, worker, task, src, row, vec, ran, mixed, upsets>>

\* await semaphore.acquire(), create_task(_run_job(...)).
RunJob(s) ==
  /\ worker = "up" /\ task[s] = Idle
  /\ \E h \in hand :
       /\ \A g \in hand : h.job <= g.job
       /\ hand' = hand \ {h}
       /\ task' = [task EXCEPT ![s] =
                     [Idle EXCEPT !.job = h.job, !.step = "start",
                        !.kind = IF h.as = "reindexing" THEN "reindex" ELSE "sync"]]
       /\ ran' = [ran EXCEPT ![h.job] =
                    IF h.as = "pending" /\ @ < 2 THEN @ + 1 ELSE @]
  /\ mixed' = (mixed \/ Busy # {})
  /\ UNCHANGED <<job, caller, worker, src, row, vec, upsets>>

\* The execution ends and writes the job's status, whatever it is by now.
Ends(s, status) ==
  /\ job' = [job EXCEPT ![task[s].job] = status]
  /\ task' = [task EXCEPT ![s] = Idle]

HasPriorSync == \E j \in JobIds : job[j] = "completed"

\* _execute_sync and _execute_reindex up to the pipeline: the catalog, the
\* embedding model or the connection is missing, or the pipeline starts.  A
\* sync writes running over whatever was asked since the claim.
Start(s) ==
  /\ task[s].step = "start"
  /\ \/ Ends(s, "failed")
     \/ /\ task[s].kind = "sync"
        /\ task' = [task EXCEPT ![s].step = "scan",
                      ![s].kind = IF HasPriorSync /\ Legacy THEN "incremental" ELSE "full"]
        /\ job' = [job EXCEPT ![task[s].job] = "running"]
     \/ /\ task[s].kind = "reindex"
        /\ task' = [task EXCEPT ![s].step = "scan"]
        /\ UNCHANGED job
  /\ UNCHANGED <<caller, worker, hand, src, row, vec, ran, mixed, upsets>>

\* Every handler of the batch starts at once; the first one reads the job's
\* status, the others find that it was read a moment ago.
Batch(s, F) ==
  \/ /\ F = {} /\ task' = [task EXCEPT ![s].step = "batch", ![s].seen = src]
  \/ \E first \in F :
       task' = [task EXCEPT ![s].step = "batch", ![s].seen = src,
                  ![s].file = [f \in Files |-> IF f = first THEN "check"
                                               ELSE IF f \in F THEN "go" ELSE "none"]]

\* _bulk_register_files: a row for every file listed, with what the source
\* says of it now.
Registered(f) ==
  IF src[f] = 0 THEN row[f]
  ELSE IF row[f].there THEN [row[f] EXCEPT !.mod = src[f]] ELSE NewRow(src[f])

\* run_full_sync lists and registers.  run_incremental_sync lists what differs
\* from the change_token, which was taken at version 1 and is never renewed:
\* _persist_change_tokens gives the flat source a fresh id and finds no token
\* for it.
ScanSource(s) ==
  /\ task[s].step = "scan" /\ task[s].kind # "reindex"
  /\ \/ Ends(s, "failed") /\ UNCHANGED row
     \/ /\ task[s].kind = "full" /\ Batch(s, {f \in Files : src[f] # 0})
        /\ row' = [f \in Files |-> Registered(f)]
        /\ UNCHANGED job
     \/ /\ task[s].kind = "incremental" /\ Batch(s, {f \in Files : src[f] \notin {0, 1}})
        /\ UNCHANGED <<row, job>>
  /\ UNCHANGED <<caller, worker, hand, src, vec, ran, mixed, upsets>>

\* reindex_unindexed_pages reads its pages once.
ScanPages(s) ==
  /\ task[s].step = "scan" /\ task[s].kind = "reindex"
  /\ task' = [task EXCEPT ![s].step = "batch",
                ![s].file = [f \in Files |-> IF Unindexed(f) THEN "stored" ELSE "none"],
                ![s].got = [f \in Files |-> IF Unindexed(f) THEN row[f].page ELSE 0]]
  /\ UNCHANGED <<job, caller, worker, hand, src, row, vec, ran, mixed, upsets>>

\* Mutant: a paused file waits without limit.
CheckShouldContinue_Patient(s, f) ==
  /\ task[s].file[f] = "check" /\ job[task[s].job] # "paused"
  /\ IF job[task[s].job] = "running"
     THEN task' = [task EXCEPT ![s].file[f] = "go"] /\ UNCHANGED job
     ELSE Ends(s, "cancelled")
  /\ UNCHANGED <<caller, worker, hand, src, row, vec, ran, mixed, upsets>>

\* _check_should_continue: go on, give up, or wait while paused, for an hour
\* at most.
CheckShouldContinue(s, f) ==
  /\ task[s].file[f] = "check"
  /\ IF job[task[s].job] = "running"
     THEN task' = [task EXCEPT ![s].file[f] = "go"] /\ UNCHANGED job
     ELSE Ends(s, "cancelled")
  /\ UNCHANGED <<caller, worker, hand, src, row, vec, ran, mixed, upsets>>

Handler(s, f, step) == task' = [task EXCEPT ![s].file[f] = step]

\* What _upsert_catalog_file leaves of the row.
Upserted(s, f) == IF row[f].there THEN [row[f] EXCEPT !.mod = task[s].seen[f]]
                  ELSE NewRow(task[s].seen[f])

\* _process_file, unchanged: the stored source_modified_at is the listed one,
\* and the pages are there with their thumbnails.
FastPath(s, f) ==
  /\ task[s].file[f] = "go"
  /\ row[f].there /\ row[f].mod = task[s].seen[f] /\ row[f].page # 0 /\ row[f].thumb
  /\ Handler(s, f, "done")
  /\ UNCHANGED <<job, caller, worker, hand, src, row, vec, ran, mixed, upsets>>

\* The file is skipped or fails, before or after its record was committed.
FileFails(s, f) ==
  /\ task[s].file[f] = "go"
  /\ Handler(s, f, "failed")
  /\ row' \in {row, [row EXCEPT ![f] = Upserted(s, f)]}
  /\ UNCHANGED <<job, caller, worker, hand, src, vec, ran, mixed, upsets>>

\* Mutant: a page whose content changes keeps its indexed_at.
Stored_KeepsIndexed(r, v, thumb) ==
  [r EXCEPT !.page = v, !.thumb = r.thumb \/ thumb]

\* What _batch_upsert_catalog_pages makes of the page row.
Stored(r, v, thumb) ==
  [r EXCEPT !.page = v, !.thumb = r.thumb \/ thumb, !.indexed = FALSE]

\* Full processing: the content is read now; an unchanged page with a
\* thumbnail is left alone; rendering a thumbnail may fail.
ProcessFile(s, f) ==
  /\ task[s].file[f] = "go" /\ src[f] # 0
  /\ LET r == Upserted(s, f) IN
     /\ ~(row[f].there /\ row[f].mod = task[s].seen[f] /\ row[f].page # 0 /\ row[f].thumb)
     /\ IF r.page = src[f] /\ r.thumb
        THEN Handler(s, f, "done") /\ row' = [row EXCEPT ![f] = r]
        ELSE /\ task' = [task EXCEPT ![s].file[f] = "stored", ![s].got[f] = src[f]]
             /\ \E thumb \in BOOLEAN : row' = [row EXCEPT ![f] = Stored(r, src[f], thumb)]
  /\ UNCHANGED <<job, caller, worker, hand, src, vec, ran, mixed, upsets>>

\* aadd_documents; an error is logged and the page stays unindexed.
AddDocuments(s, f) ==
  /\ task[s].file[f] = "stored"
  /\ \/ /\ task' = [task EXCEPT ![s].file[f] = "sent", ![s].got[f] = 0]
        /\ vec' = [vec EXCEPT ![f] = task[s].got[f]]
     \/ /\ task' = [task EXCEPT ![s].file[f] = "done", ![s].got[f] = 0]
        /\ UNCHANGED vec
  /\ UNCHANGED <<job, caller, worker, hand, src, row, ran, mixed, upsets>>

\* UPDATE catalog_pages SET indexed_at.
MarkIndexed(s, f) ==
  /\ task[s].file[f] = "sent"
  /\ Handler(s, f, "done")
  /\ row' = IF row[f].there /\ row[f].page # 0
            THEN [row EXCEPT ![f].indexed = TRUE] ELSE row
  /\ UNCHANGED <<job, caller, worker, hand, src, vec, ran, mixed, upsets>>

\* Files the execution will remove: not listed (full), or reported deleted.
Gone(s) == {f \in Files : task[s].kind \in {"full", "incremental"}
                            /\ row[f].there /\ task[s].seen[f] = 0}

\* The vectors of removed files go first (or the store fails), uncommitted
\* row deletions with them.  Between two deletions an incremental sync looks
\* at its status once more.
RemoveDeletedFiles(s) ==
  /\ task[s].step = "batch" /\ \A f \in Files : task[s].file[f] \in {"none", "done", "failed"}
  /\ \/ /\ task' = [task EXCEPT ![s].step = "close"]
        /\ vec' \in {vec, [f \in Files |-> IF f \in Gone(s) THEN 0 ELSE vec[f]]}
        /\ UNCHANGED job
     \/ /\ task[s].kind = "incremental" /\ Gone(s) # {}
        /\ job[task[s].job] # "running"
        /\ Ends(s, "cancelled") /\ UNCHANGED vec
  /\ UNCHANGED <<caller, worker, hand, src, row, ran, mixed, upsets>>

\* The deletions and the status are committed.
Complete(s) ==
  /\ task[s].step = "close"
  /\ Ends(s, "completed")
  /\ row' = [f \in Files |-> IF f \in Gone(s) THEN NoRow ELSE row[f]]
  /\ UNCHANGED <<caller, worker, hand, src, vec, ran, mixed, upsets>>

Execute(s) ==
  \/ Start(s) \/ ScanSource(s) \/ ScanPages(s) \/ RemoveDeletedFiles(s) \/ Complete(s)
  \/ \E f \in Files : \/ CheckShouldContinue(s, f) \/ FastPath(s, f) \/ FileFails(s, f)
                      \/ ProcessFile(s, f) \/ AddDocuments(s, f) \/ MarkIndexed(s, f)

\* The process is gone: the claimed jobs, the executions and the loops.
Stopped ==
  /\ hand' = {} /\ caller' = [c \in Callers |-> IF c \in Loops THEN NoWrite ELSE caller[c]]

Crash ==
  /\ worker # "down" /\ upsets < MaxUpsets
  /\ upsets' = upsets + 1 /\ worker' = "down"
  /\ Stopped /\ task' = [s \in Slots |-> Idle]
  /\ UNCHANGED <<job, src, row, vec, ran, mixed>>

\* SIGTERM: the loops are cancelled, the executions are waited for.
Shutdown ==
  /\ worker = "up" /\ upsets < MaxUpsets
  /\ upsets' = upsets + 1 /\ worker' = "draining"
  /\ Stopped
  /\ UNCHANGED <<job, task, src, row, vec, ran, mixed>>

Drained ==
  /\ worker = "draining" /\ Busy = {}
  /\ worker' = "down"
  /\ UNCHANGED <<job, caller, hand, task, src, row, vec, ran, mixed, upsets>>

\* main() starts with _heal_stuck_jobs.
StartWorker ==
  /\ worker = "down"
  /\ worker' = "up"
  /\ job' = [j \in JobIds |-> IF job[j] \in Active THEN "failed" ELSE job[j]]
  /\ UNCHANGED <<caller, hand, task, src, row, vec, ran, mixed, upsets>>

-----------------------------------------------------------------------------
(* Somebody edits or removes a file at the source. *)

ChangeSource(f) ==
  /\ src[f] # 0
  /\ src' \in {[src EXCEPT ![f] = 0]} \cup
              (IF src[f] < MaxVersion THEN {[src EXCEPT ![f] = @ + 1]} ELSE {})
  /\ UNCHANGED <<job, caller, worker, hand, task, row, vec, ran, mixed, upsets>>

Next ==
  \/ \E c \in Callers : TriggerSync(c) \/ ReindexCatalog(c) \/ Write(c)
  \/ \E c \in Web : Transition(c)
  \/ HealUnindexed
  \/ \E f \in Files : UpdateFileIndexing(f) \/ ChangeSource(f)
  \/ ClaimPendingJobs
  \/ \E s \in Slots : RunJob(s) \/ Execute(s)
  \/ Crash \/ Shutdown \/ Drained \/ StartWorker

\* The event loop runs every execution and the poll loop; a stopped worker is
\* restarted.  Nobody has to trigger, edit, pause or resume anything.
Fairness ==
  /\ WF_vars(ClaimPendingJobs) /\ WF_vars(Drained) /\ WF_vars(StartWorker)
  /\ \A s \in Slots : WF_vars(Execute(s)) /\ WF_vars(RunJob(s))

Spec == Init /\ [][Next]_vars /\ Fairness

-----------------------------------------------------------------------------
(* Properties *)

\* "preventing double-processing" (claim_pending_jobs): whatever is asked of a
\* sync job and whenever the worker dies, the job is executed at most once.
SyncRunsOnce == \A j \in JobIds : ran[j] <= 1

\* The order of the writes is safe against a crash at any point: a page row
\* that says it is indexed has its own content in the vector store, unless
\* two executions, or an execution and an exclusion, overlapped.
IndexedIsStored ==
  ~mixed => \A f \in Files : (row[f].there /\ row[f].indexed /\ src[f] # 0)
                             => vec[f] = row[f].page

\* Every execution ends and frees its slot: a paused one is given up.
ExecutionsEnd == \A s \in Slots : task[s] # Idle ~> task[s] = Idle

\* A queued job does not wait for ever, although claimed jobs block the poll
\* loop and a re-index is claimed again at every turn.
PendingIsTaken == \A j \in JobIds : job[j] = "pending" ~> job[j] # "pending"

\* _process_file's fast path is for files whose "source_modified_at has not
\* changed since the last sync": a file a completed full sync counted as
\* processed has the content that was listed, or a later one.
SyncedIsCurrent ==
  [][\A s \in Slots, f \in Files :
       (/\ task[s].kind = "full" /\ task[s].step = "close" /\ task[s].file[f] = "done"
        /\ task'[s] = Idle /\ worker' = worker)
       => row'[f].page >= task[s].seen[f]]_vars
=============================================================================
