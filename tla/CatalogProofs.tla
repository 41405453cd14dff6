---------------------------- MODULE CatalogProofs ----------------------------
(***************************************************************************)
(* Proofs about Catalog, for any number of files, slots, jobs, requests,   *)
(* crashes and restarts: a sync job is executed at most once, every state  *)
(* is well typed, and a page that says it is indexed has its content in    *)
(* the vector store.                                                       *)
(***************************************************************************)
EXTENDS Catalog, TLAPS

-----------------------------------------------------------------------------
(* The job: claimed and executed once *)

Queued == {"absent", "pending"}

\* What one row of the jobs table, the claims in hand and the pending writes
\* are, as far as the claim of a sync depends on it.
ClaimInv ==
  /\ job \in [JobIds -> Statuses]
  /\ caller \in [Callers -> Writes]
  /\ \A c \in Callers : /\ caller[c].op = "insert" => caller[c].to \in {"pending", "reindexing"}
                        /\ caller[c].op = "update" => caller[c].to \notin Queued
  /\ hand \in SUBSET Claims
  /\ ran \in [JobIds -> 0..2]

\* A job that was never claimed has not run, and neither has one whose claim is
\* still in hand; a claim in hand is not claimable again.
OnceInv ==
  \A j \in JobIds :
    /\ job[j] \in Queued => ran[j] = 0 /\ [job |-> j, as |-> "pending"] \notin hand
    /\ [job |-> j, as |-> "pending"] \in hand => ran[j] = 0
    /\ ran[j] <= 1

Inv == ClaimInv /\ OnceInv

LEMMA NoWriteType == NoWrite \in Writes
  BY CatalogAssumption DEF NoWrite, Writes, Statuses

LEMMA InitInv == Init => Inv
  <1> SUFFICES ASSUME Init PROVE Inv
    OBVIOUS
  <1>1. ClaimInv
    BY NoWriteType DEF Init, ClaimInv, Statuses, NoWrite
  <1>2. OnceInv
    BY DEF Init, OnceInv
  <1> QED
    BY <1>1, <1>2 DEF Inv

\* An insert is only of a status its reader chose.
LEMMA WillInsertInv ==
  ASSUME Inv, NEW c \in Callers, NEW st \in {"pending", "reindexing"}, WillInsert(c, st)
  PROVE  Inv'
  <1>1. caller' \in [Callers -> Writes]
    BY CatalogAssumption DEF Inv, ClaimInv, WillInsert, Writes, Statuses
  <1>2. ClaimInv'
    BY <1>1 DEF Inv, ClaimInv, WillInsert
  <1>3. OnceInv'
    BY DEF Inv, OnceInv, WillInsert
  <1> QED
    BY <1>2, <1>3 DEF Inv

\* A transition never makes a job claimable.
LEMMA TransitionInv ==
  ASSUME Inv, NEW c \in Web, Transition(c)
  PROVE  Inv'
  <1>0. c \in Callers
    BY DEF Callers
  <1>1. PICK to \in Allowed(job[Latest]) :
          caller' = [caller EXCEPT ![c] = [op |-> "update", job |-> Latest, to |-> to]]
    BY DEF Transition
  <1>2. to \in Statuses /\ to \notin Queued
    BY DEF Allowed, Statuses, Terminal, Queued
  <1>3. Latest \in 0..MaxJobs
    BY CatalogAssumption DEF Transition, Latest, Existing, JobIds
  <1>4. caller' \in [Callers -> Writes]
    BY <1>0, <1>1, <1>2, <1>3 DEF Inv, ClaimInv, Writes
  <1>5. ClaimInv'
    BY <1>0, <1>1, <1>2, <1>4 DEF Inv, ClaimInv, Transition
  <1>6. OnceInv'
    BY DEF Inv, OnceInv, Transition
  <1> QED
    BY <1>5, <1>6 DEF Inv

LEMMA WriteInv ==
  ASSUME Inv, NEW c \in Callers, Write(c)
  PROVE  Inv'
  <1>1. \A d \in Callers : caller'[d] = IF d = c THEN NoWrite ELSE caller[d]
    BY DEF Inv, ClaimInv, Write
  <1>2. caller' \in [Callers -> Writes]
    BY <1>1, NoWriteType DEF Inv, ClaimInv, Write
  <1>3. /\ caller[c].op = "insert" => caller[c].to \in {"pending", "reindexing"}
        /\ caller[c].op = "update" => caller[c].to \in Statuses \ Queued
    BY DEF Inv, ClaimInv, Writes
  <1>4. /\ job' \in [JobIds -> Statuses]
        /\ \A j \in JobIds : job'[j] \in Queued => job[j] \in Queued
    <2>1. CASE caller[c].op = "insert"
      <3>1. CASE \E j \in JobIds : NextId(j) /\ job' = [job EXCEPT ![j] = caller[c].to]
        BY <1>3, <2>1, <3>1 DEF Inv, ClaimInv, NextId, Queued, Statuses
      <3>2. CASE UNCHANGED job
        BY <3>2 DEF Inv, ClaimInv
      <3> QED
        BY <2>1, <3>1, <3>2 DEF Write
    <2>2. CASE caller[c].op = "update"
      BY <1>3, <2>2 DEF Inv, ClaimInv, Write
    <2> QED
      BY <2>1, <2>2 DEF Write
  <1>5. ClaimInv'
    BY <1>1, <1>2, <1>4 DEF Inv, ClaimInv, Write, NoWrite
  <1>6. OnceInv'
    BY <1>4 DEF Inv, OnceInv, Write
  <1> QED
    BY <1>5, <1>6 DEF Inv

\* The claim takes what it selected out of the queue.
LEMMA ClaimPendingJobsInv ==
  ASSUME Inv, ClaimPendingJobs
  PROVE  Inv'
  <1>1. PICK J \in SUBSET Claimable :
          /\ hand' = {[job |-> j, as |-> job[j]] : j \in J}
          /\ job' = [j \in JobIds |-> IF j \in J THEN ClaimedAs(job[j]) ELSE job[j]]
    BY DEF ClaimPendingJobs
  <1>2. J \subseteq JobIds /\ \A j \in J : job[j] \in {"pending", "reindexing"}
    BY <1>1 DEF Claimable
  <1>3. hand' \in SUBSET Claims
    BY <1>1, <1>2 DEF Claims
  <1>4. job' \in [JobIds -> Statuses]
    BY <1>1, <1>2 DEF Inv, ClaimInv, ClaimedAs, Statuses
  <1>5. ClaimInv'
    BY <1>3, <1>4 DEF Inv, ClaimInv, ClaimPendingJobs
  <1>6. ASSUME NEW j \in JobIds
        PROVE  /\ job'[j] \in Queued => job[j] \in Queued /\ j \notin J
               /\ [job |-> j, as |-> "pending"] \in hand' => j \in J /\ job[j] = "pending"
    <2>1. job'[j] = IF j \in J THEN ClaimedAs(job[j]) ELSE job[j]
      BY <1>1
    <2>2. j \in J => job'[j] \notin Queued
      BY <1>2, <2>1 DEF ClaimedAs, Queued
    <2>3. ASSUME [job |-> j, as |-> "pending"] \in hand'
          PROVE  j \in J /\ job[j] = "pending"
      <3>1. PICK k \in J : [job |-> j, as |-> "pending"] = [job |-> k, as |-> job[k]]
        BY <1>1, <2>3
      <3>2. [job |-> j, as |-> "pending"].job = [job |-> k, as |-> job[k]].job
            /\ [job |-> j, as |-> "pending"].as = [job |-> k, as |-> job[k]].as
        BY <3>1
      <3> QED
        BY <3>2
    <2> QED
      BY <2>1, <2>2, <2>3
  <1>7. OnceInv'
    BY <1>6 DEF Inv, OnceInv, Queued, ClaimPendingJobs
  <1> QED
    BY <1>5, <1>7 DEF Inv

\* A claim leaves the hand as its execution starts.
LEMMA RunJobInv ==
  ASSUME Inv, NEW s \in Slots, RunJob(s)
  PROVE  Inv'
  <1>1. PICK h \in hand :
          /\ hand' = hand \ {h}
          /\ ran' = [ran EXCEPT ![h.job] = IF h.as = "pending" /\ @ < 2 THEN @ + 1 ELSE @]
    BY DEF RunJob
  <1>2. h.job \in JobIds /\ h = [job |-> h.job, as |-> h.as]
    BY DEF Inv, ClaimInv, Claims
  <1>3. h.as = "pending" => ran[h.job] = 0
    BY <1>2 DEF Inv, OnceInv
  <1>4. /\ \A j \in JobIds : ran'[j] = IF j = h.job /\ h.as = "pending" THEN 1 ELSE ran[j]
        /\ ran' \in [JobIds -> 0..2]
    BY <1>1, <1>2, <1>3 DEF Inv, ClaimInv
  <1>5. ClaimInv'
    BY <1>1, <1>4 DEF Inv, ClaimInv, RunJob
  <1>6. ASSUME NEW j \in JobIds
        PROVE  /\ job'[j] \in Queued => ran'[j] = 0 /\ [job |-> j, as |-> "pending"] \notin hand'
               /\ [job |-> j, as |-> "pending"] \in hand' => ran'[j] = 0
               /\ ran'[j] <= 1
    <2>1. CASE j = h.job /\ h.as = "pending"
      <3>1. h = [job |-> j, as |-> "pending"]
        BY <1>2, <2>1
      <3>2. job[j] \notin Queued
        BY <3>1 DEF Inv, OnceInv
      <3>3. job' = job
        BY DEF RunJob
      <3> QED
        BY <1>1, <1>4, <2>1, <3>1, <3>2, <3>3
    <2>2. CASE ~(j = h.job /\ h.as = "pending")
      BY <1>1, <1>4, <2>2 DEF Inv, OnceInv, RunJob
    <2> QED
      BY <2>1, <2>2
  <1>7. OnceInv'
    BY <1>6 DEF OnceInv
  <1> QED
    BY <1>5, <1>7 DEF Inv

\* An execution may write its job's status, but never makes it claimable.
StatusOnly ==
  /\ job' \in [JobIds -> Statuses]
  /\ \A j \in JobIds : job'[j] \in Queued => job[j] \in Queued
  /\ UNCHANGED <<caller, hand, ran>>

LEMMA StatusOnlyInv == ASSUME Inv, StatusOnly PROVE Inv'
  BY DEF Inv, ClaimInv, OnceInv, StatusOnly

LEMMA EndsQueues ==
  ASSUME Inv, NEW s, NEW st \in Statuses \ Queued, Ends(s, st)
  PROVE  /\ job' \in [JobIds -> Statuses]
         /\ \A j \in JobIds : job'[j] \in Queued => job[j] \in Queued
  BY DEF Inv, ClaimInv, Ends

LEMMA ExecuteInv ==
  ASSUME Inv, NEW s \in Slots, Execute(s)
  PROVE  Inv'
  <1> DEFINE Free == {"failed", "running", "completed", "cancelled"}
  <1>0. Free \subseteq Statuses \ Queued
    BY DEF Statuses, Terminal, Queued
  <1>1. job' = job \/ (\E st \in Free : Ends(s, st))
          \/ job' = [job EXCEPT ![task[s].job] = "running"]
    <2>1. CASE Start(s)
      BY <2>1 DEF Start
    <2>2. CASE ScanSource(s)
      BY <2>2 DEF ScanSource
    <2>3. CASE ScanPages(s)
      BY <2>3 DEF ScanPages
    <2>4. CASE RemoveDeletedFiles(s)
      BY <2>4 DEF RemoveDeletedFiles
    <2>5. CASE Complete(s)
      BY <2>5 DEF Complete
    <2>6. CASE \E f \in Files : CheckShouldContinue(s, f)
      BY <2>6 DEF CheckShouldContinue
    <2>7. CASE \E f \in Files : \/ FastPath(s, f) \/ FileFails(s, f) \/ ProcessFile(s, f)
                                \/ AddDocuments(s, f) \/ MarkIndexed(s, f)
      BY <2>7 DEF FastPath, FileFails, ProcessFile, AddDocuments, MarkIndexed
    <2> QED
      BY <2>1, <2>2, <2>3, <2>4, <2>5, <2>6, <2>7 DEF Execute
  <1>2. UNCHANGED <<caller, hand, ran>>
    BY DEF Execute, Start, ScanSource, ScanPages, RemoveDeletedFiles, Complete,
           CheckShouldContinue, FastPath, FileFails, ProcessFile, AddDocuments, MarkIndexed
  <1>3. /\ job' \in [JobIds -> Statuses]
        /\ \A j \in JobIds : job'[j] \in Queued => job[j] \in Queued
    <2>1. CASE job' = job
      BY <2>1 DEF Inv, ClaimInv
    <2>2. CASE \E st \in Free : Ends(s, st)
      BY <1>0, <2>2, EndsQueues
    <2>3. CASE job' = [job EXCEPT ![task[s].job] = "running"]
      BY <1>0, <2>3 DEF Inv, ClaimInv
    <2> QED
      BY <1>1, <2>1, <2>2, <2>3
  <1> QED
    BY <1>2, <1>3, StatusOnlyInv DEF StatusOnly

\* A worker that stops drops what it had in hand.
LEMMA StoppedInv ==
  ASSUME Inv, Stopped, UNCHANGED <<job, ran>>
  PROVE  Inv'
  <1>1. caller' \in [Callers -> Writes]
    BY NoWriteType DEF Inv, ClaimInv, Stopped
  <1>2. ClaimInv'
    BY <1>1 DEF Inv, ClaimInv, Stopped, NoWrite
  <1>3. OnceInv'
    BY DEF Inv, OnceInv, Stopped
  <1> QED
    BY <1>2, <1>3 DEF Inv

LEMMA StartWorkerInv == ASSUME Inv, StartWorker PROVE Inv'
  <1>1. /\ job' \in [JobIds -> Statuses]
        /\ \A j \in JobIds : job'[j] \in Queued => job[j] \in Queued
    BY DEF Inv, ClaimInv, StartWorker, Statuses, Terminal, Queued
  <1> QED
    BY <1>1, StatusOnlyInv DEF StatusOnly, StartWorker

LEMMA NextInv == Inv /\ [Next]_vars => Inv'
  <1> SUFFICES ASSUME Inv, [Next]_vars PROVE Inv'
    OBVIOUS
  <1>1. ASSUME NEW c \in Callers, TriggerSync(c) PROVE Inv'
    BY <1>1, WillInsertInv DEF TriggerSync
  <1>2. ASSUME NEW c \in Callers, ReindexCatalog(c) PROVE Inv'
    BY <1>2, WillInsertInv DEF ReindexCatalog
  <1>3. ASSUME NEW c \in Callers, Write(c) PROVE Inv'
    BY <1>3, WriteInv
  <1>4. ASSUME NEW c \in Web, Transition(c) PROVE Inv'
    BY <1>4, TransitionInv
  <1>5. CASE HealUnindexed
    BY <1>5, WillInsertInv DEF HealUnindexed, Callers, Loops
  <1>6. ASSUME NEW f \in Files, UpdateFileIndexing(f) \/ ChangeSource(f) PROVE Inv'
    BY <1>6, StatusOnlyInv DEF UpdateFileIndexing, ChangeSource, StatusOnly, Inv, ClaimInv
  <1>7. CASE ClaimPendingJobs
    BY <1>7, ClaimPendingJobsInv
  <1>8. ASSUME NEW s \in Slots, RunJob(s) PROVE Inv'
    BY <1>8, RunJobInv
  <1>9. ASSUME NEW s \in Slots, Execute(s) PROVE Inv'
    BY <1>9, ExecuteInv
  <1>10. CASE Crash \/ Shutdown
    BY <1>10, StoppedInv DEF Crash, Shutdown
  <1>11. CASE Drained
    BY <1>11, StatusOnlyInv DEF Drained, StatusOnly, Inv, ClaimInv
  <1>12. CASE StartWorker
    BY <1>12, StartWorkerInv
  <1>13. CASE UNCHANGED vars
    BY <1>13, StatusOnlyInv DEF vars, StatusOnly, Inv, ClaimInv
  <1> QED
    BY <1>1, <1>2, <1>3, <1>4, <1>5, <1>6, <1>7, <1>8, <1>9, <1>10, <1>11, <1>12, <1>13 DEF Next

\* A sync job is executed at most once (claim_pending_jobs, _poll_loop), for
\* any number of slots, requests, jobs, crashes and restarts.
THEOREM SyncIsRunOnce == Spec => []SyncRunsOnce
  <1>1. Inv => SyncRunsOnce
    BY DEF Inv, OnceInv, SyncRunsOnce
  <1> QED
    BY <1>1, InitInv, NextInv, PTL DEF Spec

-----------------------------------------------------------------------------
(* What executions make of pages and vectors *)

DataInv ==
  /\ task \in [Slots -> Tasks] /\ row \in [Files -> Rows]
  /\ src \in [Files -> Versions] /\ vec \in [Files -> Versions]
  /\ mixed \in BOOLEAN

\* What a handler that has stored its page, or sent its vector, relies on.
HandlerOK(step, got, r, v) ==
  /\ step = "stored" => r.there /\ r.page = got /\ r.page # 0 /\ ~r.indexed
  /\ step = "sent" => r.there /\ v = r.page

RowOK(r, v, s) == r.there /\ r.indexed /\ s # 0 => v = r.page

\* While executions do not overlap.
AloneInv ==
  /\ \A s, t \in Busy : s = t
  /\ \A s \in Slots, f \in Files :
       HandlerOK(task[s].file[f], task[s].got[f], row[f], vec[f])
  /\ \A f \in Files : RowOK(row[f], vec[f], src[f])

\* What an execution did not find at the source is not there any more.
SeenOK(t, f, s) ==
  t.kind \in {"full", "incremental"} /\ t.step \in {"batch", "close"} /\ t.seen[f] = 0
    => s = 0

SeenInv == \A s \in Slots, f \in Files : SeenOK(task[s], f, src[f])

StoreInv == DataInv /\ SeenInv /\ (~mixed => AloneInv)

-----------------------------------------------------------------------------
(* Rows and tasks *)

LEMMA RowParts ==
  ASSUME NEW r \in Rows
  PROVE  /\ r.there \in BOOLEAN /\ r.mod \in Versions /\ r.page \in Versions
         /\ r.thumb \in BOOLEAN /\ r.indexed \in BOOLEAN /\ r.excluded \in BOOLEAN
         /\ r.page = 0 => ~r.thumb /\ ~r.indexed
         /\ r.there => r \in [there : {TRUE}, mod : Versions, page : Versions, thumb : BOOLEAN,
                              indexed : BOOLEAN, excluded : BOOLEAN]
  <1>1. 0 \in Versions
    BY CatalogAssumption DEF Versions
  <1>2. CASE r = NoRow
    BY <1>1, <1>2 DEF NoRow
  <1>3. CASE r # NoRow
    BY <1>3 DEF Rows
  <1> QED
    BY <1>2, <1>3

LEMMA RowMakes ==
  ASSUME NEW r \in Rows, r.there
  PROVE  /\ \A v \in Versions : [r EXCEPT !.mod = v] \in Rows
         /\ \A b \in BOOLEAN : [r EXCEPT !.excluded = b] \in Rows
         /\ [r EXCEPT !.excluded = TRUE, !.indexed = FALSE] \in Rows
         /\ r.page # 0 => [r EXCEPT !.indexed = TRUE] \in Rows
         /\ \A v \in Versions \ {0}, b \in BOOLEAN : Stored(r, v, b) \in Rows
  <1> DEFINE All == [there : {TRUE}, mod : Versions, page : Versions, thumb : BOOLEAN,
                     indexed : BOOLEAN, excluded : BOOLEAN]
  <1>1. r \in All /\ (r.page = 0 => ~r.thumb /\ ~r.indexed)
    BY RowParts
  <1>2. \A x \in All : (x.page = 0 => ~x.thumb /\ ~x.indexed) => x \in Rows
    BY DEF Rows
  <1>3. ASSUME NEW v \in Versions PROVE [r EXCEPT !.mod = v] \in Rows
    <2>1. [r EXCEPT !.mod = v] \in All
      BY <1>1
    <2> QED
      BY <1>1, <1>2, <2>1
  <1>4. ASSUME NEW b \in BOOLEAN PROVE [r EXCEPT !.excluded = b] \in Rows
    <2>1. [r EXCEPT !.excluded = b] \in All
      BY <1>1
    <2> QED
      BY <1>1, <1>2, <2>1
  <1>5. [r EXCEPT !.excluded = TRUE, !.indexed = FALSE] \in Rows
    <2>1. [r EXCEPT !.excluded = TRUE, !.indexed = FALSE] \in All
      BY <1>1
    <2> QED
      BY <1>1, <1>2, <2>1
  <1>6. ASSUME r.page # 0 PROVE [r EXCEPT !.indexed = TRUE] \in Rows
    <2>1. [r EXCEPT !.indexed = TRUE] \in All
      BY <1>1
    <2> QED
      BY <1>1, <1>2, <1>6, <2>1
  <1>7. ASSUME NEW v \in Versions \ {0}, NEW b \in BOOLEAN PROVE Stored(r, v, b) \in Rows
    <2>1. Stored(r, v, b) \in All /\ Stored(r, v, b).page = v
      BY <1>1 DEF Stored
    <2> QED
      BY <1>2, <2>1
  <1> QED
    BY <1>3, <1>4, <1>5, <1>6, <1>7

LEMMA NoRowType == NoRow \in Rows /\ \A v \in Versions : NewRow(v) \in Rows
  <1>1. 0 \in Versions
    BY CatalogAssumption DEF Versions
  <1>2. ASSUME NEW v \in Versions PROVE NewRow(v) \in Rows
    <2> DEFINE r == NewRow(v)
    <2>1. r \in [there : {TRUE}, mod : Versions, page : Versions, thumb : BOOLEAN,
                 indexed : BOOLEAN, excluded : BOOLEAN]
      BY <1>1 DEF NewRow, NoRow
    <2>2. ~r.thumb /\ ~r.indexed
      BY DEF NewRow, NoRow
    <2> HIDE DEF r
    <2>3. r \in Rows
      BY <2>1, <2>2 DEF Rows
    <2> QED
      BY <2>3 DEF r
  <1> QED
    BY <1>2 DEF Rows

LEMMA IdleType ==
  /\ Idle \in Tasks /\ Idle.kind = "none" /\ Idle.step = "idle"
  /\ \A f \in Files : Idle.file[f] = "none"
  BY CatalogAssumption DEF Idle, Tasks, Versions, FileSteps

LEMMA InitStore == Init => StoreInv
  <1> SUFFICES ASSUME Init PROVE StoreInv
    OBVIOUS
  <1>1. DataInv
    <2>1. 0 \in Versions /\ 1 \in Versions
      BY CatalogAssumption DEF Versions
    <2> QED
      BY <2>1, IdleType, NoRowType DEF Init, DataInv
  <1>2. SeenInv
    BY IdleType DEF Init, SeenInv, SeenOK
  <1>3. AloneInv
    BY IdleType DEF Init, AloneInv, HandlerOK, RowOK, Busy, NoRow
  <1> QED
    BY <1>1, <1>2, <1>3 DEF StoreInv

\* A step of one execution, checked file by file.
LEMMA SlotStep ==
  ASSUME StoreInv, NEW s \in Slots, task[s] # Idle,
         NEW t \in Tasks, task' = [task EXCEPT ![s] = t],
         mixed' = mixed, src' = src,
         row' \in [Files -> Rows], vec' \in [Files -> Versions],
         \A f \in Files : SeenOK(t, f, src[f]),
         ~mixed => \A f \in Files : /\ HandlerOK(t.file[f], t.got[f], row'[f], vec'[f])
                                    /\ RowOK(row'[f], vec'[f], src[f])
  PROVE  StoreInv'
  <1>1. /\ task' \in [Slots -> Tasks]
        /\ \A u \in Slots : task'[u] = IF u = s THEN t ELSE task[u]
    BY DEF StoreInv, DataInv
  <1>2. DataInv'
    BY <1>1 DEF StoreInv, DataInv
  <1>3. SeenInv'
    BY <1>1 DEF StoreInv, SeenInv, SeenOK
  <1>4. ASSUME ~mixed PROVE AloneInv'
    <2>1. \A u \in Slots : u # s => task[u] = Idle
      BY <1>4 DEF StoreInv, AloneInv, Busy
    <2>2. \A u \in Slots : u # s => task'[u] = Idle
      BY <1>1, <2>1
    <2>3. \A u, w \in Busy' : u = w
      BY <2>2 DEF Busy
    <2>4. ASSUME NEW u \in Slots, NEW f \in Files
          PROVE  HandlerOK(task'[u].file[f], task'[u].got[f], row'[f], vec'[f])
      <3>1. CASE u = s
        BY <1>1, <1>4, <3>1
      <3>2. CASE u # s
        BY <2>2, <3>2, IdleType DEF HandlerOK
      <3> QED
        BY <3>1, <3>2
    <2>5. \A f \in Files : RowOK(row'[f], vec'[f], src'[f])
      BY <1>4
    <2> QED
      BY <2>3, <2>4, <2>5 DEF AloneInv
  <1> QED
    BY <1>2, <1>3, <1>4 DEF StoreInv

\* An execution that ends leaves the rows it has to.
LEMMA EndStep ==
  ASSUME StoreInv, NEW s \in Slots, task[s] # Idle, NEW st, Ends(s, st),
         mixed' = mixed, src' = src, vec' = vec, row' \in [Files -> Rows],
         \A f \in Files : row'[f] = row[f] \/ ~row'[f].there
  PROVE  StoreInv'
  <1>1. task' = [task EXCEPT ![s] = Idle]
    BY DEF Ends
  <1>2. vec' \in [Files -> Versions]
    BY DEF StoreInv, DataInv
  <1>3. \A f \in Files : SeenOK(Idle, f, src[f])
    BY IdleType DEF SeenOK
  <1>4. ASSUME ~mixed, NEW f \in Files
        PROVE  /\ HandlerOK(Idle.file[f], Idle.got[f], row'[f], vec'[f])
               /\ RowOK(row'[f], vec'[f], src[f])
    BY <1>4, IdleType DEF StoreInv, AloneInv, HandlerOK, RowOK
  <1> QED
    BY <1>1, <1>2, <1>3, <1>4, IdleType, SlotStep

\* Nothing that pages and vectors are about changes.
LEMMA Apart ==
  ASSUME StoreInv, UNCHANGED <<task, src, row, vec, mixed>> PROVE StoreInv'
  BY DEF StoreInv, DataInv, SeenInv, SeenOK, AloneInv, HandlerOK, RowOK, Busy

-----------------------------------------------------------------------------
(* The steps of an execution *)

LEMMA BusyTask ==
  ASSUME StoreInv, NEW s \in Slots
  PROVE  /\ task[s] \in Tasks
         /\ task[s].step # "idle" => task[s] # Idle
         /\ \A f \in Files : task[s].file[f] # "none" => task[s] # Idle
  BY IdleType DEF StoreInv, DataInv

LEMMA StartStores == ASSUME StoreInv, NEW s \in Slots, Start(s) PROVE StoreInv'
  <1>1. task[s] \in Tasks /\ task[s] # Idle /\ task[s].step = "start"
    BY BusyTask DEF Start
  <1>2. UNCHANGED <<src, row, vec, mixed>>
    BY DEF Start
  <1>3. ASSUME NEW k \in {"sync", "full", "incremental", "reindex"},
               task' = [task EXCEPT ![s] = [task[s] EXCEPT !.step = "scan", !.kind = k]]
        PROVE  StoreInv'
    <2> DEFINE t == [task[s] EXCEPT !.step = "scan", !.kind = k]
    <2>1. /\ t \in Tasks /\ t.step = "scan" /\ t.file = task[s].file /\ t.got = task[s].got
      BY <1>1 DEF Tasks
    <2>2. task' = [task EXCEPT ![s] = t]
      BY <1>3
    <2> HIDE DEF t
    <2>3. \A f \in Files : SeenOK(t, f, src[f])
      BY <2>1 DEF SeenOK
    <2>4. ~mixed => \A f \in Files : /\ HandlerOK(t.file[f], t.got[f], row'[f], vec'[f])
                                     /\ RowOK(row'[f], vec'[f], src[f])
      BY <1>2, <2>1 DEF StoreInv, AloneInv
    <2>5. row' \in [Files -> Rows] /\ vec' \in [Files -> Versions]
      BY <1>2 DEF StoreInv, DataInv
    <2> QED
      BY <1>1, <1>2, <2>1, <2>2, <2>3, <2>4, <2>5, SlotStep
  <1>4. CASE Ends(s, "failed")
    BY <1>1, <1>2, <1>4, EndStep DEF StoreInv, DataInv
  <1>5. CASE /\ task[s].kind = "sync"
             /\ task' = [task EXCEPT ![s].step = "scan",
                   ![s].kind = IF HasPriorSync /\ Legacy THEN "incremental" ELSE "full"]
    <2> DEFINE k == IF HasPriorSync /\ Legacy THEN "incremental" ELSE "full"
    <2>1. task' = [task EXCEPT ![s] = [task[s] EXCEPT !.step = "scan", !.kind = k]]
      BY <1>5 DEF StoreInv, DataInv
    <2>2. k \in {"full", "incremental"}
      OBVIOUS
    <2> HIDE DEF k
    <2> QED
      BY <1>3, <2>1, <2>2
  <1>6. CASE task[s].kind = "reindex" /\ task' = [task EXCEPT ![s].step = "scan"]
    <2>1. task' = [task EXCEPT ![s] = [task[s] EXCEPT !.step = "scan", !.kind = "reindex"]]
      <3>1. [task[s] EXCEPT !.step = "scan", !.kind = "reindex"]
              = [task[s] EXCEPT !.step = "scan"]
        BY <1>1, <1>6 DEF Tasks
      <3> QED
        BY <1>6, <3>1
    <2> QED
      BY <1>3, <2>1
  <1> QED
    BY <1>4, <1>5, <1>6 DEF Start

\* What a batch starts with: nothing stored, nothing sent.
LEMMA BatchTask ==
  ASSUME StoreInv, NEW s \in Slots, NEW F \in SUBSET Files, Batch(s, F)
  PROVE  \E t \in Tasks :
           /\ task' = [task EXCEPT ![s] = t] /\ t.seen = src
           /\ \A f \in Files : t.file[f] \in {"none", "check", "go"} \/ t.file = task[s].file
           /\ t.got = task[s].got
  <1>1. task[s] \in Tasks /\ src \in [Files -> Versions]
    BY BusyTask DEF StoreInv, DataInv
  <1>2. CASE task' = [task EXCEPT ![s].step = "batch", ![s].seen = src]
    <2> DEFINE t == [task[s] EXCEPT !.step = "batch", !.seen = src]
    <2>1. t \in Tasks /\ t.seen = src /\ t.file = task[s].file /\ t.got = task[s].got
      BY <1>1 DEF Tasks
    <2>2. task' = [task EXCEPT ![s] = t]
      BY <1>2 DEF StoreInv, DataInv
    <2> QED
      BY <2>1, <2>2
  <1>3. ASSUME NEW first \in F,
               task' = [task EXCEPT ![s].step = "batch", ![s].seen = src,
                          ![s].file = [f \in Files |-> IF f = first THEN "check"
                                                       ELSE IF f \in F THEN "go" ELSE "none"]]
        PROVE  \E t \in Tasks :
                 /\ task' = [task EXCEPT ![s] = t] /\ t.seen = src
                 /\ \A f \in Files : t.file[f] \in {"none", "check", "go"} \/ t.file = task[s].file
                 /\ t.got = task[s].got
    <2> DEFINE file == [f \in Files |-> IF f = first THEN "check"
                                        ELSE IF f \in F THEN "go" ELSE "none"]
               t == [task[s] EXCEPT !.step = "batch", !.seen = src, !.file = file]
    <2>1. file \in [Files -> FileSteps] /\ \A f \in Files : file[f] \in {"none", "check", "go"}
      BY DEF FileSteps
    <2>2. task' = [task EXCEPT ![s] = t]
      BY <1>3 DEF StoreInv, DataInv
    <2> HIDE DEF file
    <2>3. t \in Tasks /\ t.seen = src /\ t.file = file /\ t.got = task[s].got
      BY <1>1, <2>1 DEF Tasks
    <2> HIDE DEF t
    <2> QED
      BY <2>1, <2>2, <2>3
  <1> QED
    BY <1>2, <1>3 DEF Batch

LEMMA ScanSourceStores == ASSUME StoreInv, NEW s \in Slots, ScanSource(s) PROVE StoreInv'
  <1>1. task[s] \in Tasks /\ task[s] # Idle
    BY BusyTask DEF ScanSource
  <1>2. UNCHANGED <<src, vec, mixed>>
    BY DEF ScanSource
  <1>3. CASE Ends(s, "failed") /\ UNCHANGED row
    BY <1>1, <1>2, <1>3, EndStep DEF StoreInv, DataInv
  <1>4. ASSUME NEW F \in SUBSET Files, Batch(s, F),
               row' = row \/ row' = [f \in Files |-> Registered(f)]
        PROVE  StoreInv'
    <2>1. PICK t \in Tasks :
            /\ task' = [task EXCEPT ![s] = t] /\ t.seen = src
            /\ \A f \in Files : t.file[f] \in {"none", "check", "go"} \/ t.file = task[s].file
            /\ t.got = task[s].got
      BY <1>4, BatchTask
    <2>2. \A f \in Files : SeenOK(t, f, src[f])
      BY <2>1 DEF SeenOK
    <2>3. \A f \in Files :
            /\ row'[f] \in Rows
            /\ row[f].there => /\ row'[f].there /\ row'[f].page = row[f].page
                               /\ row'[f].indexed = row[f].indexed
            /\ ~row[f].there => ~row'[f].there \/ ~row'[f].indexed
      <3> SUFFICES ASSUME NEW f \in Files
                   PROVE  /\ row'[f] \in Rows
                          /\ row[f].there => /\ row'[f].there /\ row'[f].page = row[f].page
                                             /\ row'[f].indexed = row[f].indexed
                          /\ ~row[f].there => ~row'[f].there \/ ~row'[f].indexed
        OBVIOUS
      <3>1. row[f] \in Rows /\ src[f] \in Versions
        BY DEF StoreInv, DataInv
      <3>2. CASE row'[f] = row[f]
        BY <3>1, <3>2
      <3>3. CASE row[f].there /\ row'[f] = [row[f] EXCEPT !.mod = src[f]]
        <4>1. row'[f] \in Rows
          BY <3>1, <3>3, RowMakes
        <4>2. /\ row'[f].there /\ row'[f].page = row[f].page
              /\ row'[f].indexed = row[f].indexed
          BY <3>1, <3>3, RowParts
        <4> QED
          BY <3>3, <4>1, <4>2
      <3>4. CASE ~row[f].there /\ row'[f] = NewRow(src[f])
        BY <3>1, <3>4, NoRowType DEF NewRow, NoRow
      <3> QED
        BY <1>4, <3>2, <3>3, <3>4 DEF Registered
    <2>4. row' \in [Files -> Rows] /\ vec' \in [Files -> Versions]
      BY <1>2, <1>4, <2>3 DEF StoreInv, DataInv
    <2>5. ASSUME ~mixed, NEW f \in Files
          PROVE  /\ HandlerOK(t.file[f], t.got[f], row'[f], vec'[f])
                 /\ RowOK(row'[f], vec'[f], src[f])
      <3>1. /\ HandlerOK(task[s].file[f], task[s].got[f], row[f], vec[f])
            /\ RowOK(row[f], vec[f], src[f])
        BY <2>5 DEF StoreInv, AloneInv
      <3> QED
        BY <1>2, <2>1, <2>3, <3>1 DEF HandlerOK, RowOK
    <2> QED
      BY <1>1, <1>2, <2>1, <2>2, <2>4, <2>5, SlotStep
  <1>5. {f \in Files : src[f] # 0} \in SUBSET Files
          /\ {f \in Files : src[f] \notin {0, 1}} \in SUBSET Files
    OBVIOUS
  <1> QED
    BY <1>3, <1>4, <1>5 DEF ScanSource

LEMMA ScanPagesStores == ASSUME StoreInv, NEW s \in Slots, ScanPages(s) PROVE StoreInv'
  <1> DEFINE file == [f \in Files |-> IF Unindexed(f) THEN "stored" ELSE "none"]
             got == [f \in Files |-> IF Unindexed(f) THEN row[f].page ELSE 0]
             t == [task[s] EXCEPT !.step = "batch", !.file = file, !.got = got]
  <1>1. task[s] \in Tasks /\ task[s] # Idle /\ task[s].kind = "reindex"
    BY BusyTask DEF ScanPages
  <1>2. UNCHANGED <<src, row, vec, mixed>>
    BY DEF ScanPages
  <1>3. task' = [task EXCEPT ![s] = t]
    BY DEF ScanPages, StoreInv, DataInv
  <1>4. file \in [Files -> FileSteps]
    BY DEF FileSteps
  <1>5. got \in [Files -> Versions]
    <2>1. 0 \in Versions
      BY CatalogAssumption DEF Versions
    <2>2. \A f \in Files : row[f].page \in Versions
      BY RowParts DEF StoreInv, DataInv
    <2> QED
      BY <2>1, <2>2
  <1>6. \A f \in Files : HandlerOK(file[f], got[f], row[f], vec[f])
    BY DEF HandlerOK, Unindexed
  <1> HIDE DEF file, got
  <1>7. t \in Tasks /\ t.kind = "reindex" /\ t.file = file /\ t.got = got
    BY <1>1, <1>4, <1>5 DEF Tasks
  <1> HIDE DEF t
  <1>8. \A f \in Files : SeenOK(t, f, src[f])
    BY <1>7 DEF SeenOK
  <1>9. ~mixed => \A f \in Files : RowOK(row[f], vec[f], src[f])
    BY DEF StoreInv, AloneInv
  <1> QED
    BY <1>1, <1>2, <1>3, <1>6, <1>7, <1>8, <1>9, SlotStep DEF StoreInv, DataInv

\* The handler of f gets to step with got in memory.
Moved(s, f, step, got) ==
  task' = [task EXCEPT ![s] = [task[s] EXCEPT !.file = [task[s].file EXCEPT ![f] = step],
                                              !.got = [task[s].got EXCEPT ![f] = got]]]

\* One handler moves on, and touches its own file only.
LEMMA HandlerStep ==
  ASSUME StoreInv, NEW s \in Slots, NEW f \in Files, task[s].file[f] # "none",
         NEW step \in FileSteps, NEW got \in Versions,
         Moved(s, f, step, got),
         mixed' = mixed, src' = src,
         NEW r \in Rows, row' = [row EXCEPT ![f] = r],
         NEW v \in Versions, vec' = [vec EXCEPT ![f] = v],
         ~mixed => HandlerOK(step, got, r, v) /\ RowOK(r, v, src[f])
  PROVE  StoreInv'
  <1> DEFINE file == [task[s].file EXCEPT ![f] = step]
             gots == [task[s].got EXCEPT ![f] = got]
             t == [task[s] EXCEPT !.file = file, !.got = gots]
  <1>1. task[s] \in Tasks /\ task[s] # Idle
    BY BusyTask
  <1>2. /\ file \in [Files -> FileSteps] /\ gots \in [Files -> Versions]
        /\ \A g \in Files : file[g] = IF g = f THEN step ELSE task[s].file[g]
        /\ \A g \in Files : gots[g] = IF g = f THEN got ELSE task[s].got[g]
    BY <1>1 DEF Tasks
  <1>3. task' = [task EXCEPT ![s] = t]
    BY DEF Moved
  <1> HIDE DEF file, gots
  <1>4. /\ t \in Tasks /\ t.file = file /\ t.got = gots
        /\ t.seen = task[s].seen /\ t.kind = task[s].kind /\ t.step = task[s].step
    BY <1>1, <1>2 DEF Tasks
  <1> HIDE DEF t
  <1>5. /\ row' \in [Files -> Rows] /\ vec' \in [Files -> Versions]
        /\ \A g \in Files : row'[g] = IF g = f THEN r ELSE row[g]
        /\ \A g \in Files : vec'[g] = IF g = f THEN v ELSE vec[g]
    BY DEF StoreInv, DataInv
  <1>6. \A g \in Files : SeenOK(t, g, src[g])
    BY <1>4 DEF StoreInv, SeenInv, SeenOK
  <1>7. ASSUME ~mixed, NEW g \in Files
        PROVE  /\ HandlerOK(t.file[g], t.got[g], row'[g], vec'[g])
               /\ RowOK(row'[g], vec'[g], src[g])
    <2>1. /\ HandlerOK(task[s].file[g], task[s].got[g], row[g], vec[g])
          /\ RowOK(row[g], vec[g], src[g])
      BY <1>7 DEF StoreInv, AloneInv
    <2>2. CASE g = f
      BY <1>2, <1>4, <1>5, <1>7, <2>2
    <2>3. CASE g # f
      BY <1>2, <1>4, <1>5, <2>1, <2>3
    <2> QED
      BY <2>2, <2>3
  <1> QED
    BY <1>1, <1>3, <1>4, <1>5, <1>6, <1>7, SlotStep

\* The form the actions have.
LEMMA HandlerTask ==
  ASSUME StoreInv, NEW s \in Slots, NEW f \in Files, NEW step \in FileSteps,
         Handler(s, f, step)
  PROVE  task[s].got[f] \in Versions /\ Moved(s, f, step, task[s].got[f])
  <1>1. task[s] \in Tasks
    BY BusyTask
  <1>2. task[s].got \in [Files -> Versions]
    BY <1>1 DEF Tasks
  <1>3. [task[s].got EXCEPT ![f] = task[s].got[f]] = task[s].got
    BY <1>2
  <1>4. [task[s] EXCEPT !.file = [task[s].file EXCEPT ![f] = step], !.got = task[s].got]
          = [task[s] EXCEPT !.file[f] = step]
    BY <1>1 DEF Tasks
  <1> QED
    BY <1>2, <1>3, <1>4 DEF Handler, StoreInv, DataInv, Moved

LEMMA HandlerGot ==
  ASSUME StoreInv, NEW s \in Slots, NEW f \in Files, NEW step, NEW got,
         task' = [task EXCEPT ![s].file[f] = step, ![s].got[f] = got]
  PROVE  Moved(s, f, step, got)
  <1>1. task[s] \in Tasks
    BY BusyTask
  <1> QED
    BY <1>1 DEF StoreInv, DataInv, Tasks, Moved

\* An execution that goes on without touching rows or vectors, or ends.
LEMMA CheckStores ==
  ASSUME StoreInv, NEW s \in Slots, NEW f \in Files,
         CheckShouldContinue(s, f) \/ FastPath(s, f)
  PROVE  StoreInv'
  <1>1. task[s].file[f] # "none" /\ task[s] # Idle
    BY BusyTask DEF CheckShouldContinue, FastPath
  <1>2. UNCHANGED <<src, row, vec, mixed>>
    BY DEF CheckShouldContinue, FastPath
  <1>3. CASE Ends(s, "cancelled")
    BY <1>1, <1>2, <1>3, EndStep DEF StoreInv, DataInv
  <1>4. ASSUME NEW step \in {"go", "done"}, Handler(s, f, step) PROVE StoreInv'
    <2>1. row[f] \in Rows /\ vec[f] \in Versions
      BY DEF StoreInv, DataInv
    <2>2. row' = [row EXCEPT ![f] = row[f]] /\ vec' = [vec EXCEPT ![f] = vec[f]]
      BY <1>2 DEF StoreInv, DataInv
    <2>3. ~mixed => /\ HandlerOK(step, task[s].got[f], row[f], vec[f])
                    /\ RowOK(row[f], vec[f], src[f])
      BY DEF HandlerOK, StoreInv, AloneInv
    <2>4. step \in FileSteps
      BY DEF FileSteps
    <2>5. task[s].got[f] \in Versions /\ Moved(s, f, step, task[s].got[f])
      BY <1>4, <2>4, HandlerTask
    <2>6. src' = src /\ mixed' = mixed
      BY <1>2
    <2> QED
      BY <1>1, <2>1, <2>2, <2>3, <2>4, <2>5, <2>6, HandlerStep
  <1> QED
    BY <1>3, <1>4 DEF CheckShouldContinue, FastPath, Handler

\* What is left of the row when a file is read again.
LEMMA UpsertedRow ==
  ASSUME StoreInv, NEW s \in Slots, NEW f \in Files
  PROVE  /\ Upserted(s, f) \in Rows /\ Upserted(s, f).there
         /\ row[f].there => /\ Upserted(s, f).page = row[f].page
                            /\ Upserted(s, f).indexed = row[f].indexed
         /\ ~row[f].there => ~Upserted(s, f).indexed
  <1>1. row[f] \in Rows /\ task[s].seen[f] \in Versions
    BY BusyTask DEF StoreInv, DataInv, Tasks
  <1>2. CASE row[f].there
    <2>1. [row[f] EXCEPT !.mod = task[s].seen[f]] \in Rows
      BY <1>1, <1>2, RowMakes
    <2>2. /\ [row[f] EXCEPT !.mod = task[s].seen[f]].there
          /\ [row[f] EXCEPT !.mod = task[s].seen[f]].page = row[f].page
          /\ [row[f] EXCEPT !.mod = task[s].seen[f]].indexed = row[f].indexed
      BY <1>1, <1>2, RowParts
    <2> QED
      BY <1>2, <2>1, <2>2 DEF Upserted
  <1>3. CASE ~row[f].there
    BY <1>1, <1>3, NoRowType DEF Upserted, NewRow, NoRow
  <1> QED
    BY <1>2, <1>3

LEMMA FileFailsStores ==
  ASSUME StoreInv, NEW s \in Slots, NEW f \in Files, FileFails(s, f) PROVE StoreInv'
  <1>1. task[s].file[f] # "none" /\ row[f] \in Rows /\ vec[f] \in Versions
    BY DEF FileFails, StoreInv, DataInv
  <1>2. PICK r \in {row[f], Upserted(s, f)} : row' = [row EXCEPT ![f] = r]
    BY DEF FileFails, StoreInv, DataInv
  <1>3. r \in Rows
    BY <1>1, UpsertedRow
  <1>4. vec' = [vec EXCEPT ![f] = vec[f]] /\ src' = src /\ mixed' = mixed
    BY DEF FileFails, StoreInv, DataInv
  <1>5. ASSUME ~mixed
        PROVE  HandlerOK("failed", task[s].got[f], r, vec[f]) /\ RowOK(r, vec[f], src[f])
    <2>1. RowOK(row[f], vec[f], src[f])
      BY <1>5 DEF StoreInv, AloneInv
    <2> QED
      BY <2>1, UpsertedRow DEF HandlerOK, RowOK
  <1>6. "failed" \in FileSteps
    BY DEF FileSteps
  <1>7. task[s].got[f] \in Versions /\ Moved(s, f, "failed", task[s].got[f])
    BY <1>6, HandlerTask DEF FileFails
  <1> QED
    BY <1>1, <1>2, <1>3, <1>4, <1>5, <1>6, <1>7, HandlerStep

LEMMA ProcessFileStores ==
  ASSUME StoreInv, NEW s \in Slots, NEW f \in Files, ProcessFile(s, f) PROVE StoreInv'
  <1> DEFINE u == Upserted(s, f)
  <1>1. task[s].file[f] # "none" /\ row[f] \in Rows /\ vec[f] \in Versions
          /\ src[f] \in Versions \ {0}
    BY DEF ProcessFile, StoreInv, DataInv
  <1>2. vec' = [vec EXCEPT ![f] = vec[f]] /\ src' = src /\ mixed' = mixed
    BY DEF ProcessFile, StoreInv, DataInv
  <1>3. u \in Rows /\ u.there
    BY UpsertedRow
  <1>4. CASE Handler(s, f, "done") /\ row' = [row EXCEPT ![f] = u]
    <2>1. ASSUME ~mixed
          PROVE  HandlerOK("done", task[s].got[f], u, vec[f]) /\ RowOK(u, vec[f], src[f])
      <3>1. RowOK(row[f], vec[f], src[f])
        BY <2>1 DEF StoreInv, AloneInv
      <3> QED
        BY <3>1, UpsertedRow DEF HandlerOK, RowOK
    <2>2. "done" \in FileSteps
      BY DEF FileSteps
    <2> HIDE DEF u
    <2> QED
      BY <1>1, <1>2, <1>3, <1>4, <2>1, <2>2, HandlerTask, HandlerStep
  <1>5. ASSUME NEW thumb \in BOOLEAN,
               task' = [task EXCEPT ![s].file[f] = "stored", ![s].got[f] = src[f]],
               row' = [row EXCEPT ![f] = Stored(u, src[f], thumb)]
        PROVE  StoreInv'
    <2> DEFINE r == Stored(u, src[f], thumb)
    <2>1. r \in Rows
      BY <1>1, <1>3, RowMakes
    <2>2. r.there /\ r.page = src[f] /\ ~r.indexed
      BY <1>3, RowParts DEF Stored
    <2>3. "stored" \in FileSteps
      BY DEF FileSteps
    <2>4. HandlerOK("stored", src[f], r, vec[f]) /\ RowOK(r, vec[f], src[f])
      BY <1>1, <2>2 DEF HandlerOK, RowOK
    <2>5. row' = [row EXCEPT ![f] = r]
      BY <1>5
    <2> HIDE DEF r, u
    <2> QED
      BY <1>1, <1>2, <1>5, <2>1, <2>3, <2>4, <2>5, HandlerGot, HandlerStep
  <1> QED
    BY <1>4, <1>5 DEF ProcessFile

LEMMA AddDocumentsStores ==
  ASSUME StoreInv, NEW s \in Slots, NEW f \in Files, AddDocuments(s, f) PROVE StoreInv'
  <1>1. /\ task[s].file[f] = "stored" /\ row[f] \in Rows /\ vec[f] \in Versions
        /\ task[s].got[f] \in Versions
    BY BusyTask DEF AddDocuments, StoreInv, DataInv, Tasks
  <1>2. row' = [row EXCEPT ![f] = row[f]] /\ src' = src /\ mixed' = mixed
    BY DEF AddDocuments, StoreInv, DataInv
  <1>3. 0 \in Versions /\ "sent" \in FileSteps /\ "done" \in FileSteps
    BY CatalogAssumption DEF Versions, FileSteps
  <1>4. ~mixed => row[f].there /\ row[f].page = task[s].got[f] /\ ~row[f].indexed
    BY <1>1 DEF StoreInv, AloneInv, HandlerOK
  <1>5. CASE /\ task' = [task EXCEPT ![s].file[f] = "sent", ![s].got[f] = 0]
             /\ vec' = [vec EXCEPT ![f] = task[s].got[f]]
    <2>1. ~mixed => /\ HandlerOK("sent", 0, row[f], task[s].got[f])
                    /\ RowOK(row[f], task[s].got[f], src[f])
      BY <1>4 DEF HandlerOK, RowOK
    <2> QED
      BY <1>1, <1>2, <1>3, <1>5, <2>1, HandlerGot, HandlerStep
  <1>6. CASE /\ task' = [task EXCEPT ![s].file[f] = "done", ![s].got[f] = 0]
             /\ UNCHANGED vec
    <2>1. vec' = [vec EXCEPT ![f] = vec[f]]
      BY <1>6 DEF StoreInv, DataInv
    <2>2. ~mixed => HandlerOK("done", 0, row[f], vec[f]) /\ RowOK(row[f], vec[f], src[f])
      BY <1>4 DEF HandlerOK, RowOK
    <2> QED
      BY <1>1, <1>2, <1>3, <1>6, <2>1, <2>2, HandlerGot, HandlerStep
  <1> QED
    BY <1>5, <1>6 DEF AddDocuments

LEMMA MarkIndexedStores ==
  ASSUME StoreInv, NEW s \in Slots, NEW f \in Files, MarkIndexed(s, f) PROVE StoreInv'
  <1> DEFINE r == IF row[f].there /\ row[f].page # 0
                  THEN [row[f] EXCEPT !.indexed = TRUE] ELSE row[f]
  <1>1. task[s].file[f] = "sent" /\ row[f] \in Rows /\ vec[f] \in Versions
    BY DEF MarkIndexed, StoreInv, DataInv
  <1>2. /\ row' = [row EXCEPT ![f] = r] /\ vec' = [vec EXCEPT ![f] = vec[f]]
        /\ src' = src /\ mixed' = mixed
    BY DEF MarkIndexed, StoreInv, DataInv
  <1>3. r \in Rows
    BY <1>1, RowMakes
  <1>4. r.page = row[f].page
    BY <1>1, RowParts
  <1>5. ~mixed => vec[f] = row[f].page
    BY <1>1 DEF StoreInv, AloneInv, HandlerOK
  <1>6. ~mixed => HandlerOK("done", task[s].got[f], r, vec[f]) /\ RowOK(r, vec[f], src[f])
    BY <1>4, <1>5 DEF HandlerOK, RowOK
  <1>7. "done" \in FileSteps
    BY DEF FileSteps
  <1>8. task[s].got[f] \in Versions /\ Moved(s, f, "done", task[s].got[f])
    BY <1>7, HandlerTask DEF MarkIndexed
  <1> HIDE DEF r
  <1> QED
    BY <1>1, <1>2, <1>3, <1>6, <1>7, <1>8, HandlerStep

\* Vectors go first: in between the rows say indexed, but of files whose source
\* is gone.
LEMMA RemoveDeletedFilesStores ==
  ASSUME StoreInv, NEW s \in Slots, RemoveDeletedFiles(s) PROVE StoreInv'
  <1>1. task[s] \in Tasks /\ task[s] # Idle /\ task[s].step = "batch"
    BY BusyTask DEF RemoveDeletedFiles
  <1>2. UNCHANGED <<src, row, mixed>>
    BY DEF RemoveDeletedFiles
  <1>3. CASE Ends(s, "cancelled") /\ UNCHANGED vec
    BY <1>1, <1>2, <1>3, EndStep DEF StoreInv, DataInv
  <1>4. CASE /\ task' = [task EXCEPT ![s].step = "close"]
             /\ vec' \in {vec, [f \in Files |-> IF f \in Gone(s) THEN 0 ELSE vec[f]]}
    <2> DEFINE t == [task[s] EXCEPT !.step = "close"]
    <2>1. task' = [task EXCEPT ![s] = t]
      BY <1>4
    <2>2. /\ t \in Tasks /\ t.file = task[s].file /\ t.got = task[s].got
          /\ t.kind = task[s].kind /\ t.seen = task[s].seen
      BY <1>1 DEF Tasks
    <2> HIDE DEF t
    <2>3. \A f \in Files : SeenOK(t, f, src[f])
      BY <1>1, <2>2 DEF StoreInv, SeenInv, SeenOK
    <2>4. 0 \in Versions
      BY CatalogAssumption DEF Versions
    <2>5. vec' \in [Files -> Versions] /\ row' \in [Files -> Rows]
      BY <1>2, <1>4, <2>4 DEF StoreInv, DataInv
    <2>6. \A f \in Files : vec'[f] = vec[f] \/ (vec'[f] = 0 /\ src[f] = 0)
      <3>1. \A f \in Gone(s) : src[f] = 0
        BY <1>1 DEF Gone, StoreInv, SeenInv, SeenOK
      <3> QED
        BY <1>4, <3>1 DEF StoreInv, DataInv
    <2>7. ASSUME ~mixed, NEW f \in Files
          PROVE  /\ HandlerOK(t.file[f], t.got[f], row'[f], vec'[f])
                 /\ RowOK(row'[f], vec'[f], src[f])
      <3>1. t.file[f] \in {"none", "done", "failed"}
        BY <2>2 DEF RemoveDeletedFiles
      <3>2. RowOK(row[f], vec[f], src[f])
        BY <2>7 DEF StoreInv, AloneInv
      <3> QED
        BY <1>2, <2>6, <3>1, <3>2 DEF HandlerOK, RowOK
    <2> QED
      BY <1>1, <1>2, <2>1, <2>2, <2>3, <2>5, <2>7, SlotStep
  <1> QED
    BY <1>3, <1>4 DEF RemoveDeletedFiles

LEMMA CompleteStores == ASSUME StoreInv, NEW s \in Slots, Complete(s) PROVE StoreInv'
  <1>1. task[s] # Idle
    BY BusyTask DEF Complete
  <1>2. /\ row' \in [Files -> Rows]
        /\ \A f \in Files : row'[f] = row[f] \/ ~row'[f].there
    BY NoRowType DEF Complete, StoreInv, DataInv, NoRow
  <1> QED
    BY <1>1, <1>2, EndStep DEF Complete

LEMMA ExecuteStores == ASSUME StoreInv, NEW s \in Slots, Execute(s) PROVE StoreInv'
  BY StartStores, ScanSourceStores, ScanPagesStores, RemoveDeletedFilesStores, CompleteStores,
     CheckStores, FileFailsStores, ProcessFileStores, AddDocumentsStores, MarkIndexedStores
     DEF Execute

-----------------------------------------------------------------------------
(* Everything else *)

LEMMA RunJobStores == ASSUME StoreInv, Inv, NEW s \in Slots, RunJob(s) PROVE StoreInv'
  <1>1. PICK h \in hand :
          task' = [task EXCEPT ![s] =
                     [Idle EXCEPT !.job = h.job, !.step = "start",
                        !.kind = IF h.as = "reindexing" THEN "reindex" ELSE "sync"]]
    BY DEF RunJob
  <1> DEFINE k == IF h.as = "reindexing" THEN "reindex" ELSE "sync"
             t == [Idle EXCEPT !.job = h.job, !.step = "start", !.kind = k]
  <1>2. h.job \in 0..MaxJobs
    BY CatalogAssumption DEF Inv, ClaimInv, Claims, JobIds
  <1>3. k \in {"reindex", "sync"}
    OBVIOUS
  <1>4. task' = [task EXCEPT ![s] = t]
    BY <1>1
  <1> HIDE DEF k
  <1>5. t \in Tasks /\ t.step = "start" /\ t.file = Idle.file
    BY <1>2, <1>3, IdleType DEF Tasks
  <1> HIDE DEF t
  <1>6. /\ task' \in [Slots -> Tasks]
        /\ \A u \in Slots : task'[u] = IF u = s THEN t ELSE task[u]
    BY <1>4, <1>5 DEF StoreInv, DataInv
  <1>7. UNCHANGED <<src, row, vec>> /\ mixed' = (mixed \/ Busy # {})
    BY DEF RunJob
  <1>8. DataInv'
    BY <1>6, <1>7 DEF StoreInv, DataInv
  <1>9. SeenInv'
    BY <1>5, <1>6, <1>7 DEF StoreInv, SeenInv, SeenOK
  <1>10. ASSUME ~mixed' PROVE AloneInv'
    <2>1. ~mixed /\ Busy = {}
      BY <1>7, <1>10
    <2>2. \A u \in Slots : task[u] = Idle
      BY <2>1 DEF Busy
    <2>3. \A u \in Slots : u # s => task'[u] = Idle
      BY <1>6, <2>2
    <2>4. \A u, w \in Busy' : u = w
      BY <2>3 DEF Busy
    <2>5. \A u \in Slots, f \in Files : task'[u].file[f] = "none"
      BY <1>5, <1>6, <2>3, IdleType
    <2>6. \A f \in Files : RowOK(row'[f], vec'[f], src'[f])
      BY <1>7, <2>1 DEF StoreInv, AloneInv
    <2>7. \A u \in Slots, f \in Files :
            HandlerOK(task'[u].file[f], task'[u].got[f], row'[f], vec'[f])
      BY <2>5 DEF HandlerOK
    <2> QED
      BY <2>4, <2>6, <2>7 DEF AloneInv
  <1> QED
    BY <1>8, <1>9, <1>10 DEF StoreInv

LEMMA UpdateFileIndexingStores ==
  ASSUME StoreInv, NEW f \in Files, UpdateFileIndexing(f) PROVE StoreInv'
  <1>1. row[f] \in Rows /\ row[f].there
    BY DEF UpdateFileIndexing, StoreInv, DataInv
  <1>2. 0 \in Versions
    BY CatalogAssumption DEF Versions
  <1>3. UNCHANGED <<task, src>> /\ mixed' = (mixed \/ Busy # {})
    BY DEF UpdateFileIndexing
  <1>4. PICK r \in Rows, v \in Versions :
          /\ row' = [row EXCEPT ![f] = r] /\ vec' = [vec EXCEPT ![f] = v]
          /\ ~r.indexed \/ (v = vec[f] /\ r.indexed = row[f].indexed /\ r.page = row[f].page)
    <2>1. /\ [row[f] EXCEPT !.excluded = FALSE] \in Rows
          /\ [row[f] EXCEPT !.excluded = TRUE] \in Rows
          /\ [row[f] EXCEPT !.excluded = TRUE, !.indexed = FALSE] \in Rows
      BY <1>1, RowMakes
    <2>2. ~[row[f] EXCEPT !.excluded = TRUE, !.indexed = FALSE].indexed
      BY <1>1, RowParts
    <2>3. \A b \in BOOLEAN :
            /\ [row[f] EXCEPT !.excluded = b].indexed = row[f].indexed
            /\ [row[f] EXCEPT !.excluded = b].page = row[f].page
      BY <1>1, RowParts
    <2>4. vec = [vec EXCEPT ![f] = vec[f]] /\ vec[f] \in Versions
      BY DEF StoreInv, DataInv
    <2>5. CASE row' = [row EXCEPT ![f].excluded = FALSE] /\ UNCHANGED vec
      <3>1. row' = [row EXCEPT ![f] = [row[f] EXCEPT !.excluded = FALSE]]
        BY <2>5
      <3> QED
        BY <2>1, <2>3, <2>4, <2>5, <3>1
    <2>6. CASE row' = [row EXCEPT ![f].excluded = TRUE] /\ UNCHANGED vec
      <3>1. row' = [row EXCEPT ![f] = [row[f] EXCEPT !.excluded = TRUE]]
        BY <2>6
      <3> QED
        BY <2>1, <2>3, <2>4, <2>6, <3>1
    <2>7. CASE /\ row' = [row EXCEPT ![f].excluded = TRUE, ![f].indexed = FALSE]
               /\ vec' = [vec EXCEPT ![f] = 0]
      <3>1. row' = [row EXCEPT ![f] = [row[f] EXCEPT !.excluded = TRUE, !.indexed = FALSE]]
        BY <2>7 DEF StoreInv, DataInv
      <3> QED
        BY <1>2, <2>1, <2>2, <2>7, <3>1
    <2> QED
      BY <2>5, <2>6, <2>7 DEF UpdateFileIndexing
  <1>5. /\ row' \in [Files -> Rows] /\ vec' \in [Files -> Versions]
        /\ \A g \in Files : row'[g] = IF g = f THEN r ELSE row[g]
        /\ \A g \in Files : vec'[g] = IF g = f THEN v ELSE vec[g]
    BY <1>4 DEF StoreInv, DataInv
  <1>6. DataInv' /\ SeenInv'
    BY <1>3, <1>5 DEF StoreInv, DataInv, SeenInv, SeenOK
  <1>7. ASSUME ~mixed' PROVE AloneInv'
    <2>1. ~mixed /\ \A u \in Slots : task[u] = Idle
      BY <1>3, <1>7 DEF Busy
    <2>2. \A g \in Files : RowOK(row[g], vec[g], src[g])
      BY <2>1 DEF StoreInv, AloneInv
    <2>3. \A g \in Files : RowOK(row'[g], vec'[g], src'[g])
      BY <1>1, <1>3, <1>4, <1>5, <2>2 DEF RowOK
    <2>4. \A u \in Slots : task'[u] = Idle
      BY <1>3, <2>1
    <2>5. \A u \in Slots, g \in Files :
            HandlerOK(task'[u].file[g], task'[u].got[g], row'[g], vec'[g])
      BY <2>4, IdleType DEF HandlerOK
    <2> QED
      BY <2>3, <2>4, <2>5 DEF AloneInv, Busy
  <1> QED
    BY <1>6, <1>7 DEF StoreInv

\* A file that is gone at the source does not come back.
LEMMA ChangeSourceStores ==
  ASSUME StoreInv, NEW f \in Files, ChangeSource(f) PROVE StoreInv'
  <1>1. /\ src' \in [Files -> Versions]
        /\ \A g \in Files : src[g] = 0 => src'[g] = 0
    BY CatalogAssumption DEF ChangeSource, StoreInv, DataInv, Versions
  <1>2. UNCHANGED <<task, row, vec, mixed>>
    BY DEF ChangeSource
  <1> QED
    BY <1>1, <1>2 DEF StoreInv, DataInv, SeenInv, SeenOK, AloneInv, RowOK, HandlerOK, Busy

LEMMA CrashStores == ASSUME StoreInv, Crash PROVE StoreInv'
  <1>1. task' = [s \in Slots |-> Idle] /\ UNCHANGED <<src, row, vec, mixed>>
    BY DEF Crash
  <1>2. DataInv' /\ SeenInv'
    BY <1>1, IdleType DEF StoreInv, DataInv, SeenInv, SeenOK
  <1>3. ASSUME ~mixed' PROVE AloneInv'
    <2>1. \A f \in Files : RowOK(row'[f], vec'[f], src'[f])
      BY <1>1, <1>3 DEF StoreInv, AloneInv
    <2>2. \A u \in Slots, g \in Files :
            HandlerOK(task'[u].file[g], task'[u].got[g], row'[g], vec'[g])
      BY <1>1, IdleType DEF HandlerOK
    <2> QED
      BY <1>1, <2>1, <2>2 DEF AloneInv, Busy
  <1> QED
    BY <1>2, <1>3 DEF StoreInv

LEMMA NextStore == Inv /\ StoreInv /\ [Next]_vars => StoreInv'
  <1> SUFFICES ASSUME Inv, StoreInv, [Next]_vars PROVE StoreInv'
    OBVIOUS
  <1>1. ASSUME NEW c \in Callers, TriggerSync(c) \/ ReindexCatalog(c) \/ Write(c)
        PROVE  StoreInv'
    BY <1>1, Apart DEF TriggerSync, ReindexCatalog, Write, WillInsert
  <1>2. ASSUME NEW c \in Web, Transition(c) PROVE StoreInv'
    BY <1>2, Apart DEF Transition
  <1>3. CASE HealUnindexed \/ ClaimPendingJobs \/ Shutdown \/ Drained \/ StartWorker
               \/ UNCHANGED vars
    BY <1>3, Apart DEF HealUnindexed, WillInsert, ClaimPendingJobs, Shutdown, Drained,
                      StartWorker, vars
  <1>4. ASSUME NEW f \in Files, UpdateFileIndexing(f) \/ ChangeSource(f) PROVE StoreInv'
    BY <1>4, UpdateFileIndexingStores, ChangeSourceStores
  <1>5. ASSUME NEW s \in Slots, RunJob(s) \/ Execute(s) PROVE StoreInv'
    BY <1>5, RunJobStores, ExecuteStores
  <1>6. CASE Crash
    BY <1>6, CrashStores
  <1> QED
    BY <1>1, <1>2, <1>3, <1>4, <1>5, <1>6 DEF Next

\* A page row that says it is indexed has its content in the vector store, for
\* any number of files, jobs, crashes and changes at the source, as long as
\* neither two executions nor an execution and an exclusion overlapped.
THEOREM IndexedPagesAreStored == Spec => []IndexedIsStored
  <1>1. StoreInv => IndexedIsStored
    BY DEF StoreInv, AloneInv, RowOK, IndexedIsStored
  <1> QED
    BY <1>1, InitInv, NextInv, InitStore, NextStore, PTL DEF Spec

-----------------------------------------------------------------------------
(* Every state is well typed *)

WorkerInv == worker \in {"up", "draining", "down"} /\ upsets \in 0..MaxUpsets

LEMMA NextWorker == WorkerInv /\ [Next]_vars => WorkerInv'
  <1> SUFFICES ASSUME WorkerInv, [Next]_vars PROVE WorkerInv'
    OBVIOUS
  <1>1. /\ MaxUpsets \in Nat
        /\ upsets < MaxUpsets => upsets + 1 \in 0..MaxUpsets
    BY CatalogAssumption DEF WorkerInv
  <1>2. ASSUME NEW c \in Callers, TriggerSync(c) \/ ReindexCatalog(c) \/ Write(c)
        PROVE  WorkerInv'
    BY <1>2 DEF TriggerSync, ReindexCatalog, WillInsert, Write, WorkerInv
  <1>3. ASSUME NEW c \in Web, Transition(c) PROVE WorkerInv'
    BY <1>3 DEF Transition, WorkerInv
  <1>4. CASE HealUnindexed \/ ClaimPendingJobs \/ UNCHANGED vars
    BY <1>4 DEF HealUnindexed, WillInsert, ClaimPendingJobs, vars, WorkerInv
  <1>5. ASSUME NEW f \in Files, UpdateFileIndexing(f) \/ ChangeSource(f)
        PROVE  WorkerInv'
    BY <1>1, <1>5 DEF UpdateFileIndexing, ChangeSource, WorkerInv
  <1>6. ASSUME NEW s \in Slots, RunJob(s) \/ Execute(s) PROVE WorkerInv'
    <2>1. UNCHANGED <<worker, upsets>>
      BY <1>6 DEF RunJob, Execute, Start, ScanSource, ScanPages, RemoveDeletedFiles,
                  Complete, CheckShouldContinue, FastPath, FileFails, ProcessFile,
                  AddDocuments, MarkIndexed
    <2> QED
      BY <2>1 DEF WorkerInv
  <1>7. CASE Crash \/ Shutdown \/ Drained \/ StartWorker
    BY <1>1, <1>7 DEF Crash, Shutdown, Drained, StartWorker, WorkerInv
  <1> QED
    BY <1>2, <1>3, <1>4, <1>5, <1>6, <1>7 DEF Next

\* Every state of the jobs table, the worker, the executions and the stores is
\* well typed, for any number of files, slots, requests and jobs.
THEOREM TypeCorrect == Spec => []TypeOK
  <1>1. Init => WorkerInv
    BY CatalogAssumption DEF Init, WorkerInv
  <1>2. Inv /\ StoreInv /\ WorkerInv => TypeOK
    BY DEF Inv, ClaimInv, StoreInv, DataInv, WorkerInv, TypeOK
  <1> QED
    BY <1>1, <1>2, InitInv, NextInv, InitStore, NextStore, NextWorker, PTL DEF Spec
=============================================================================
