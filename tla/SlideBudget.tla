----------------------------- MODULE SlideBudget ----------------------------
(***************************************************************************)
(* The memory budget of one catalog sync: a weighted semaphore with two    *)
(* queues (_WeightedSemaphore), and the files of the batch that take,      *)
(* resize and give back units of it (_handle_file and _process_file of     *)
(* CatalogSyncPipeline, fanned out by InMemoryFileTaskProcessor).          *)
(*                                                                         *)
(* Every file of the batch is a task; a step of the model is what a task   *)
(* does between two awaits.  `held` is a local variable twice: _handle_file *)
(* has the one its finally clause releases (outer), _process_file the one  *)
(* it resizes and returns (inner, while that function runs).  A file that  *)
(* fails after its hold was resized gives back another number of units     *)
(* than it holds.                                                          *)
(***************************************************************************)
EXTENDS Naturals, Sequences, FiniteSetsExt

CONSTANTS
  Files,         \* the files of one batch
  Capacity,      \* RENDER_SLIDE_BUDGET
  Floor,         \* _BUDGET_FLOOR
  MaxPageCount,  \* MAX_PAGE_COUNT
  PageCounts,    \* how many pages extraction may find in a file
  PrevCounts     \* the page counts a previous sync may have recorded

ASSUME BudgetAssumption ==
  /\ IsFiniteSet(Files) /\ Capacity \in Nat \ {0} /\ Floor \in Nat
  /\ MaxPageCount \in Nat /\ PageCounts \subseteq Nat /\ PrevCounts \subseteq Nat

VARIABLES
  available,  \* _available
  upgraders,  \* _upgrade_waiters, served first
  waiters,    \* _waiters
  pc,         \* where each file's task stands
  outer,      \* held of _handle_file
  inner,      \* held of _process_file
  pages,      \* how many pages extraction finds in the file
  prev,       \* catalog_files.page_count when the sync starts
  lost,       \* history: units that failed files held and will not give back
  extra       \* history: units that failed files will give back and did not hold

vars == <<available, upgraders, waiters, pc, outer, inner, pages, prev, lost, extra>>

Steps == {"new", "waiting", "holding", "extracting", "upgrading", "sized",
          "ending", "done"}

Entries == [file : Files, weight : 1..Capacity]

TypeOK ==
  /\ available \in 0..Capacity
  /\ upgraders \in Seq(Entries) /\ waiters \in Seq(Entries)
  /\ pc \in [Files -> Steps]
  /\ outer \in [Files -> 0..Capacity] /\ inner \in [Files -> 0..Capacity]
  /\ pages \in [Files -> PageCounts] /\ prev \in [Files -> PrevCounts]
  /\ lost \in Nat /\ extra \in Nat

\* max(1, min(int(weight), capacity)): an oversized deck runs alone.
Effective(weight) ==
  IF weight > Capacity THEN Capacity ELSE IF weight < 1 THEN 1 ELSE weight

Init ==
  /\ available = Capacity /\ upgraders = <<>> /\ waiters = <<>>
  /\ pc = [f \in Files |-> "new"]
  /\ outer = [f \in Files |-> 0] /\ inner = [f \in Files |-> 0]
  /\ pages \in [Files -> PageCounts]
  /\ prev \in [Files -> PrevCounts]
  /\ lost = 0 /\ extra = 0

-----------------------------------------------------------------------------
(* The queues *)

\* The weight of the first k entries of a queue.
Weight(q, k) ==
  LET sum[i \in 0..k] == IF i = 0 THEN 0 ELSE sum[i - 1] + q[i].weight
  IN  sum[k]

\* How many entries a queue's head loop grants out of av units.
Served(q, av) == Max({k \in 0..Len(q) : Weight(q, k) <= av})

FilesOf(q, k) == {q[i].file : i \in 1..k}

\* What a pass over the queues leaves: ku upgrades and kw first acquisitions
\* granted, out of av units.
Grant(av, up, wa, ku, kw, p, out, in) ==
  LET U == FilesOf(up, ku)
      W == FilesOf(wa, kw)
      weightOf(f) == IF f \in U
                     THEN up[CHOOSE i \in 1..ku : up[i].file = f].weight
                     ELSE wa[CHOOSE i \in 1..kw : wa[i].file = f].weight
  IN  /\ available' = av - Weight(up, ku) - Weight(wa, kw)
      /\ upgraders' = SubSeq(up, ku + 1, Len(up))
      /\ waiters' = SubSeq(wa, kw + 1, Len(wa))
      /\ pc' = [f \in Files |-> IF f \in U THEN "sized"
                                ELSE IF f \in W THEN "holding" ELSE p[f]]
      /\ inner' = [f \in Files |-> IF f \in U \cup W THEN weightOf(f) ELSE in[f]]
      /\ outer' = [f \in Files |-> IF f \in W THEN weightOf(f) ELSE out[f]]

\* Mutants: the second loop runs although an upgrade still waits; nobody is
\* woken.
WakeWaiters_BothQueues(av, up, wa, p, out, in) ==
  LET ku == Served(up, av)
      kw == Served(wa, av - Weight(up, ku))
  IN  Grant(av, up, wa, ku, kw, p, out, in)
WakeWaiters_Nobody(av, up, wa, p, out, in) ==
  Grant(av, up, wa, 0, 0, p, out, in)

\* Upgrades in order while they fit; the other queue only if none is left.
WakeWaiters(av, up, wa, p, out, in) ==
  LET ku == Served(up, av)
      kw == IF ku = Len(up) THEN Served(wa, av - Weight(up, ku)) ELSE 0
  IN  Grant(av, up, wa, ku, kw, p, out, in)

\* release: never above the capacity, then wake.
Release(weight, up, p, out, in) ==
  LET av == available + weight IN
  WakeWaiters(IF av > Capacity THEN Capacity ELSE av, up, waiters, p, out, in)

-----------------------------------------------------------------------------
(* The task of one file *)

\* acquire(_BUDGET_FLOOR), at once or in the queue.
Acquire(f) ==
  /\ pc[f] = "new"
  /\ LET w == Effective(Floor) IN
     IF upgraders = <<>> /\ waiters = <<>> /\ available >= w
     THEN /\ available' = available - w
          /\ pc' = [pc EXCEPT ![f] = "holding"]
          /\ outer' = [outer EXCEPT ![f] = w]
          /\ inner' = [inner EXCEPT ![f] = w]
          /\ UNCHANGED waiters
     ELSE /\ waiters' = Append(waiters, [file |-> f, weight |-> w])
          /\ pc' = [pc EXCEPT ![f] = "waiting"]
          /\ UNCHANGED <<available, outer, inner>>
  /\ UNCHANGED <<upgraders, pages, prev, lost, extra>>

\* The file ends on the hold it acquired: unchanged at the source, over the
\* size limit, or its record could not be written.
EndEarly(f) ==
  /\ pc[f] = "holding"
  /\ pc' = [pc EXCEPT ![f] = "ending"]
  /\ UNCHANGED <<available, upgraders, waiters, outer, inner, pages, prev, lost, extra>>

\* adjust_down to the recorded page count, then extract_pages is called.
BeginExtract(f) ==
  /\ pc[f] = "holding"
  /\ LET w == Effective(prev[f])
         p == [pc EXCEPT ![f] = "extracting"]
     IN  IF prev[f] > 0 /\ w < inner[f]
         THEN Release(inner[f] - w, upgraders, p, outer, [inner EXCEPT ![f] = w])
         ELSE /\ pc' = p
              /\ UNCHANGED <<available, upgraders, waiters, outer, inner>>
  /\ UNCHANGED <<pages, prev, lost, extra>>

\* Leaving _process_file by an exception skips the assignment to the caller's
\* held: its finally clause will release what was acquired at the start.
Raise(f) ==
  /\ pc' = [pc EXCEPT ![f] = "ending"]
  /\ inner' = [inner EXCEPT ![f] = outer[f]]
  /\ lost' = IF inner[f] > outer[f] THEN lost + (inner[f] - outer[f]) ELSE lost
  /\ extra' = IF inner[f] < outer[f] THEN extra + (outer[f] - inner[f]) ELSE extra
  /\ UNCHANGED <<available, upgraders, waiters, outer, pages, prev>>

\* extract_pages fails for good, or returns no page.
ExtractFails(f) == pc[f] = "extracting" /\ Raise(f)

\* Mutant: the units already held are kept while the rest is waited for.
Upgrade_KeepsHold(f) ==
  /\ pc[f] = "extracting" /\ pages[f] > 0
  /\ LET w == Effective(pages[f]) IN
     IF w <= inner[f]
     THEN Release(inner[f] - w, upgraders, [pc EXCEPT ![f] = "sized"], outer,
                  [inner EXCEPT ![f] = w])
     ELSE Release(0, Append(upgraders, [file |-> f, weight |-> w - inner[f]]),
                  [pc EXCEPT ![f] = "upgrading"], outer, inner)
  /\ UNCHANGED <<pages, prev, lost, extra>>

\* upgrade to the real page count: the excess is given back, or the task
\* enters the high-priority queue and then gives back all it holds.
Upgrade(f) ==
  /\ pc[f] = "extracting" /\ pages[f] > 0
  /\ LET w == Effective(pages[f]) IN
     IF w <= inner[f]
     THEN IF w < inner[f]
          THEN Release(inner[f] - w, upgraders, [pc EXCEPT ![f] = "sized"],
                       outer, [inner EXCEPT ![f] = w])
          ELSE /\ pc' = [pc EXCEPT ![f] = "sized"]
               /\ UNCHANGED <<available, upgraders, waiters, outer, inner>>
     ELSE Release(inner[f], Append(upgraders, [file |-> f, weight |-> w]),
                  [pc EXCEPT ![f] = "upgrading"], outer,
                  [inner EXCEPT ![f] = 0])
  /\ UNCHANGED <<pages, prev, lost, extra>>

\* The second gate skips a deck over the page limit; anything else of the
\* processing may fail too.
SizedFails(f) == pc[f] = "sized" /\ Raise(f)

\* Mutant: the caller drops what _process_file returns.
Finish_Unassigned(f) ==
  /\ pc[f] = "sized" /\ pages[f] <= MaxPageCount
  /\ pc' = [pc EXCEPT ![f] = "ending"]
  /\ inner' = [inner EXCEPT ![f] = outer[f]]
  /\ UNCHANGED <<available, upgraders, waiters, outer, pages, prev, lost, extra>>

\* held = await self._process_file(...)
Finish(f) ==
  /\ pc[f] = "sized" /\ pages[f] <= MaxPageCount
  /\ outer' = [outer EXCEPT ![f] = inner[f]]
  /\ pc' = [pc EXCEPT ![f] = "ending"]
  /\ UNCHANGED <<available, upgraders, waiters, inner, pages, prev, lost, extra>>

\* finally: self._render_budget.release(held)
End(f) ==
  /\ pc[f] = "ending"
  /\ Release(outer[f], upgraders, [pc EXCEPT ![f] = "done"],
             [outer EXCEPT ![f] = 0], [inner EXCEPT ![f] = 0])
  /\ UNCHANGED <<pages, prev, lost, extra>>

\* SyncCancelled out of a file that had not started: every task of the batch
\* is cancelled and the pipeline, with its budget, is dropped.
Cancel ==
  /\ \E f \in Files : pc[f] = "new"
  /\ pc' = [f \in Files |-> "done"]
  /\ available' = Capacity /\ upgraders' = <<>> /\ waiters' = <<>>
  /\ outer' = [f \in Files |-> 0] /\ inner' = [f \in Files |-> 0]
  /\ lost' = 0 /\ extra' = 0
  /\ UNCHANGED <<pages, prev>>

Step(f) ==
  \/ Acquire(f) \/ EndEarly(f) \/ BeginExtract(f) \/ ExtractFails(f)
  \/ Upgrade(f) \/ SizedFails(f) \/ Finish(f) \/ End(f)

Next == Cancel \/ \E f \in Files : Step(f)

\* The event loop runs some task that can go on.  (The check that may hold a
\* file back while the job is paused gives up after an hour.)
Spec == Init /\ [][Next]_vars /\ WF_vars(\E f \in Files : Step(f))

-----------------------------------------------------------------------------
(* Properties *)

\* Acquire, adjust_down, upgrade and release neither lose a unit nor make one
\* up: what is free and what the files will give back is the capacity, except
\* for what files that failed on a resized hold (_handle_file) lost or made up.
UnitsConserved ==
  LET units == available + MapThenSumSet(LAMBDA f : inner[f], Files) IN
  /\ units + lost >= Capacity
  /\ units <= Capacity + extra

\* release and the cancellation handlers wake whoever fits: no task sleeps in
\* front of units it could have.
NoLostWakeup ==
  /\ upgraders # <<>> => Head(upgraders).weight > available
  /\ upgraders = <<>> /\ waiters # <<>> => Head(waiters).weight > available

\* No priority inversion: a file gets its first units only when no file with
\* pages in memory is left waiting for more.
UpgradersFirst ==
  [][\A f \in Files : (pc[f] \in {"new", "waiting"} /\ pc'[f] = "holding")
                      => upgraders' = <<>>]_vars

\* A file that has not ended may need more units than failures have left.
Need(f) == Max({Effective(Floor), Effective(pages[f])})
Short   == \E f \in Files : pc[f] # "done" /\ Need(f) + lost > Capacity

\* "Deadlock-free" (upgrade, _process_file), as far as it holds: every file of
\* a batch ends, so the sync does, unless files that failed on a resized hold
\* have lost so many units that one of the others asks for more than are left.
EveryFileEnds == \A f \in Files : <>(pc[f] = "done" \/ Short)
=============================================================================
