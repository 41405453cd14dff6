------------------------------ MODULE ScimPush ------------------------------
(***************************************************************************)
(* The outbound push of users and groups to one SCIM endpoint.  A change   *)
(* made in the console starts a task nobody waits for, most of the time    *)
(* before the change is committed; a nightly task pushes everything.  A    *)
(* push reads the row, sends it, and notes in outbound_scim_sync_state     *)
(* what the endpoint calls the entity, or that the push failed.            *)
(*                                                                         *)
(* A task is a stack of pushes, the one at work first: a nightly sync      *)
(* pushes entities one by one, and the push of a group first pushes the    *)
(* members the endpoint does not know.                                     *)
(***************************************************************************)
EXTENDS Naturals, Sequences, FiniteSets

CONSTANTS
  Users, Group,           \* the entities: users and one group
  UserNames, GroupNames,  \* e-mail addresses; display names
  Tasks, Night,           \* the tasks changes start; the nightly one
  Everything,             \* what push_all pushes
  MaxRetries,             \* MAX_RETRIES
  First,                  \* the console's rows with the endpoint's resources, at first
  MaxEdits, MaxFaults     \* bounds: changes in the console, faults

Entities == Users \cup {Group}
AllTasks == Tasks \cup {Night}
Names    == UserNames \cup GroupNames
NamesOf(e) == IF e = Group THEN GroupNames ELSE UserNames

\* A row of users or user_groups; a deleted one is only marked.
Row  == [life : {"new", "live", "gone"}, name : Names, active : BOOLEAN, members : SUBSET Users]
NoTx == [life |-> "none"]
\* What the endpoint holds of one, and what it is sent.
Resource == [name : Names, active : BOOLEAN, members : SUBSET Nat]

ASSUME ScimAssumption ==
  /\ Group \notin Users /\ Everything \notin Entities
  /\ UserNames \cap GroupNames = {} /\ Night \notin Tasks
  /\ MaxRetries \in Nat \ {0} /\ MaxEdits \in Nat /\ MaxFaults \in Nat
  /\ \A f \in First :
       /\ f.row \in [Entities -> Row] /\ \A e \in Entities : f.row[e].name \in NamesOf(e)
       /\ f.row[Group].members \subseteq {u \in Users : f.row[u].life = "live"}
       /\ \A d, e \in Users : d # e => f.row[d].name # f.row[e].name
       /\ f.res \in Seq(Resource) /\ \A r \in DOMAIN f.res : f.res[r].members \subseteq DOMAIN f.res

VARIABLES
  row,     \* the committed rows
  tx,      \* the row a request has written and not committed, or NoTx
  link,    \* outbound_scim_sync_state.remote_id, 0 for NULL
  err,     \* outbound_scim_sync_state.last_error IS NOT NULL
  res,     \* the endpoint's resources, by number
  stack,   \* the pushes of each task
  wire,    \* requests whose sender no longer waits for them
  fresh,   \* history: the entity's row was last read alone, and has not
           \* changed or been lost since
  roster,  \* history: the same of the group's members
  unheard, \* history: the entities a failure of which could not be noted
  held,    \* history: the names an entity has had
  edits, faults

console == <<row, tx, held, edits>>
sync    == <<link, err>>
hist    == <<fresh, roster, unheard>>
vars    == <<console, sync, res, stack, wire, hist, faults>>

-----------------------------------------------------------------------------
(* Rows and requests *)

Live(e) == row[e].life = "live"
\* The members join users on deleted_at IS NULL.
Members == {u \in row[Group].members : Live(u)}
Linked  == {u \in Members : link[u] # 0}

\* A member is named by its id at the endpoint, and left out if it has none.
MemberIds == {link[u] : u \in Linked}

\* _build_scim_user_payload, _build_scim_group_payload
Body(e) == [name |-> row[e].name, active |-> row[e].active,
            members |-> IF e = Group THEN MemberIds ELSE {}]
NoBody  == [name |-> CHOOSE n \in Names : TRUE, active |-> FALSE, members |-> {}]

\* The endpoint refuses a name that another resource has.
Taken(id, body) == \E r \in DOMAIN res : r # id /\ res[r].name = body.name
Put(id, body)   == IF id = 0 THEN Append(res, body) ELSE [res EXCEPT ![id] = body]

\* A push at its first attempt; push_all and the members of a group.
Push(e)    == [of |-> e, at |-> "read", try |-> 1, row |-> NoBody, id |-> 0, todo |-> {}]
Batch(E)   == IF E = {} THEN <<>> ELSE <<[Push(Everything) EXCEPT !.at = "each", !.todo = E]>>
Request(f) == [of |-> f.of, row |-> f.row, id |-> f.id]

Runs(t, at) == stack[t] # <<>> /\ Head(stack[t]).at = at
Becomes(t, f) == stack' = [stack EXCEPT ![t] = <<f>> \o Tail(@)]
Returns(t)    == stack' = [stack EXCEPT ![t] = Tail(@)]

\* The pushes of e that have read it, of tasks other than t.
AtWork(e, t) ==
  {s \in AllTasks \ {t} :
     \E i \in DOMAIN stack[s] : stack[s][i].of = e /\ stack[s][i].at # "read"}
Alone(e, t) == /\ tx[e] = NoTx /\ AtWork(e, t) = {}
               /\ \A q \in wire : q.of # e

\* Everything that a row, a task or a request of e could still do has been done.
Idle(e) == /\ \A t \in AllTasks : \A i \in DOMAIN stack[t] : stack[t][i].of # e
           /\ \A q \in wire : q.of # e

\* What is known of e no longer tells what the endpoint holds.
Spoil(E) == /\ fresh' = [e \in Entities |-> fresh[e] /\ e \notin E]
            /\ roster' = (roster /\ Group \notin E)

-----------------------------------------------------------------------------
(* The console *)

\* Names are unique among rows that are not deleted.
Free(e, n) == \A d \in Entities \ {e} : Live(d) \/ tx[d] # NoTx =>
                n # row[d].name /\ (tx[d] # NoTx => n # tx[d].name)

\* The rows a request may leave e with.  A login may leave it as it is.
Changed(e) ==
  LET r == row[e] IN
  IF r.life = "new" THEN {[r EXCEPT !.life = "live", !.name = n] : n \in {n \in NamesOf(e) : Free(e, n)}}
  ELSE IF r.life = "gone" THEN {}
  ELSE {[r EXCEPT !.name = n] : n \in {n \in NamesOf(e) : Free(e, n)}}
       \cup (IF e = Group
             THEN {[r EXCEPT !.members = M] : M \in SUBSET {u \in Users : Live(u)}}
             ELSE {[r EXCEPT !.active = ~@]})
Deleted(e) == [row[e] EXCEPT !.life = "gone"]

\* The row is e's from now on.
Write(e, new) ==
  /\ row' = [row EXCEPT ![e] = new]
  /\ held' = [held EXCEPT ![e] = @ \cup {new.name}]
  /\ fresh' = [fresh EXCEPT ![e] = FALSE]
  /\ roster' = (roster /\ e # Group /\ new.life # "gone")

\* push_user, push_group
Starts(t, e) == stack[t] = <<>> /\ stack' = [stack EXCEPT ![t] = <<Push(e)>>]

\* The SCIM routes, the group routes and the console login start the push, and
\* the request commits afterwards.
Begin(t, e) ==
  /\ tx[e] = NoTx /\ edits < MaxEdits
  /\ \E new \in Changed(e) : tx' = [tx EXCEPT ![e] = new]
  /\ Starts(t, e) /\ edits' = edits + 1
  /\ UNCHANGED <<row, held, sync, res, wire, hist, faults>>

\* The session commits when the handler has returned, or rolls back.
Commit(e) ==
  /\ tx[e] # NoTx /\ tx' = [tx EXCEPT ![e] = NoTx]
  /\ Write(e, tx[e])
  /\ UNCHANGED <<edits, sync, res, stack, wire, unheard, faults>>

Rollback(e) ==
  /\ tx[e] # NoTx /\ tx' = [tx EXCEPT ![e] = NoTx]
  /\ UNCHANGED <<row, held, edits, sync, res, stack, wire, hist, faults>>

\* Administrators' changes and the broker's login commit first.
CommitAndPush(t, u) ==
  /\ tx[u] = NoTx /\ edits < MaxEdits
  /\ \E new \in Changed(u) \cup (IF Live(u) THEN {Deleted(u)} ELSE {}) : Write(u, new)
  /\ Starts(t, u) /\ edits' = edits + 1
  /\ UNCHANGED <<tx, sync, res, wire, unheard, faults>>

\* Deletions, and status changes made in bulk, push nothing.
Silently(e) ==
  /\ tx[e] = NoTx /\ edits < MaxEdits /\ Live(e)
  /\ \E new \in {Deleted(e)} \cup (IF e = Group THEN {} ELSE {[row[e] EXCEPT !.active = ~@]}) :
       Write(e, new)
  /\ edits' = edits + 1
  /\ UNCHANGED <<tx, sync, res, stack, wire, unheard, faults>>

\* Mutant: by night only what the endpoint has not got yet is pushed.
Pushable_Missing == {e \in Entities : Live(e) /\ link[e] = 0}

\* push_all: active users and groups, by night or when an administrator asks.
Pushable == {u \in Users : Live(u) /\ row[u].active} \cup {g \in {Group} : Live(g)}
PushAll(t) ==
  /\ stack[t] = <<>>
  /\ stack' = [stack EXCEPT ![t] = Batch(Pushable)]
  /\ \/ t = Night /\ UNCHANGED edits
     \/ t # Night /\ edits < MaxEdits /\ edits' = edits + 1
  /\ UNCHANGED <<row, tx, held, sync, res, wire, hist, faults>>

-----------------------------------------------------------------------------
(* A push *)

\* The next attempt, which reads again, or the end of them.
Again(f) == IF f.try < MaxRetries
            THEN [Push(f.of) EXCEPT !.try = f.try + 1]
            ELSE [Push(f.of) EXCEPT !.at = "failed"]

\* Mutant: a resource that was found is taken for one that was pushed.
AfterRecord_Done(f) == <<>>

\* The push is over, or goes on (`continue`) with the id that was found.
AfterRecord(f) == IF f.at = "ok" THEN <<>> ELSE <<Again(f)>>

\* An attempt begins: the entity and its sync state are read.  Members the
\* endpoint does not know are pushed before the group is.  The push goes on
\* top of what the task has still to do.
Reads(t, f, rest) ==
  LET e == f.of
      todo == IF e = Group THEN Members \ Linked ELSE {}
  IN \/ /\ ~Live(e) /\ stack' = [stack EXCEPT ![t] = rest]
        /\ UNCHANGED hist
     \/ /\ Live(e)
        /\ stack' = [stack EXCEPT ![t] =
             <<[f EXCEPT !.at = IF todo = {} THEN "sent" ELSE "each",
                         !.row = Body(e), !.id = link[e], !.todo = todo]>> \o rest]
        /\ fresh' = [fresh EXCEPT ![e] = Alone(e, t)]
        /\ roster' = IF e = Group THEN Alone(e, t) /\ todo = {} ELSE roster
        /\ UNCHANGED unheard

\* The next of several to push, users before groups.
After(f, e) == IF f.of = Everything /\ f.todo = {e} THEN <<>> ELSE <<[f EXCEPT !.todo = @ \ {e}]>>
Read(t) ==
  /\ \/ Runs(t, "read") /\ Reads(t, Head(stack[t]), Tail(stack[t]))
     \/ /\ Runs(t, "each")
        /\ LET f == Head(stack[t]) IN
           \E e \in f.todo : /\ e = Group => f.todo = {Group}
                             /\ Reads(t, Push(e), After(f, e) \o Tail(stack[t]))
  /\ UNCHANGED <<console, sync, res, wire, faults>>

\* Mutant: the payload is built from the members as they were first read.
Refetched_Not(f) == f.row
\* The members are fetched again, the group is not; a deleted one has none.
Refetched(f) == [f.row EXCEPT !.members = IF Live(Group) THEN MemberIds ELSE {}]

Refetch(t) ==
  /\ Runs(t, "each")
  /\ LET f == Head(stack[t]) IN
     /\ f.todo = {}
     /\ Becomes(t, [f EXCEPT !.at = "sent", !.row = Refetched(f)])
  /\ roster' = fresh[Group]
  /\ UNCHANGED <<console, sync, res, wire, fresh, unheard, faults>>

\* The endpoint answers: 200 or 201 with an id, or 409.
Answer(t) ==
  /\ Runs(t, "sent")
  /\ LET f == Head(stack[t]) IN
     \/ /\ ~Taken(f.id, f.row)
        /\ res' = Put(f.id, f.row)
        /\ Becomes(t, [Push(f.of) EXCEPT !.at = "ok", !.id = IF f.id = 0 THEN Len(res) + 1 ELSE f.id])
     \/ /\ Taken(f.id, f.row)
        /\ Becomes(t, IF f.id = 0 THEN [f EXCEPT !.at = "conflict"] ELSE Again(f))
        /\ UNCHANGED res
  /\ UNCHANGED <<console, sync, wire, hist, faults>>

\* The resource is looked up by the name that was sent.
Matches(f) == {r \in DOMAIN res : res[r].name = f.row.name}
Lookup(t) ==
  /\ Runs(t, "conflict")
  /\ LET f == Head(stack[t]) IN
     \/ \E r \in Matches(f) : Becomes(t, [f EXCEPT !.at = "found", !.id = r, !.row = NoBody])
     \/ Matches(f) = {} /\ Becomes(t, Again(f))
  /\ UNCHANGED <<console, sync, res, wire, hist, faults>>

\* upsert_sync_state
Upsert(e, id) ==
  /\ link' = [link EXCEPT ![e] = id]
  /\ err' = [err EXCEPT ![e] = FALSE]
  /\ roster' = (roster /\ (e # Group => link[e] = id))
UpsertError(e) == err' = [err EXCEPT ![e] = TRUE]

Record(t) ==
  /\ Runs(t, "ok") \/ Runs(t, "found")
  /\ LET f == Head(stack[t]) IN
     /\ Upsert(f.of, f.id)
     /\ stack' = [stack EXCEPT ![t] = AfterRecord(f) \o Tail(@)]
  /\ UNCHANGED <<console, res, wire, fresh, unheard, faults>>

GiveUp(t) ==
  /\ Runs(t, "failed")
  /\ UpsertError(Head(stack[t]).of) /\ Returns(t)
  /\ UNCHANGED <<console, link, res, wire, hist, faults>>

Step(t) == Read(t) \/ Refetch(t) \/ Answer(t) \/ Lookup(t) \/ Record(t) \/ GiveUp(t)

-----------------------------------------------------------------------------
(* What goes wrong *)

Fault == faults < MaxFaults /\ faults' = faults + 1

\* An error status, no connection, or a lookup that fails.
Refused(t) ==
  /\ Fault /\ (Runs(t, "sent") \/ Runs(t, "conflict"))
  /\ Becomes(t, Again(Head(stack[t])))
  /\ UNCHANGED <<console, sync, res, wire, hist>>

\* No answer in 30 seconds: the request may be carried out yet.
TimesOut(t) ==
  /\ Fault /\ Runs(t, "sent")
  /\ LET f == Head(stack[t]) IN
     /\ Becomes(t, Again(f)) /\ wire' = wire \cup {Request(f)}
     /\ Spoil({f.of})
  /\ UNCHANGED <<console, sync, res, unheard>>

\* An exception that is not the client's: no further attempt.
Breaks(t) ==
  /\ Fault
  /\ \/ \E at \in {"read", "ok", "found"} : Runs(t, at)
     \/ Runs(t, "each") /\ Head(stack[t]).todo = {}
  /\ Becomes(t, [Push(Head(stack[t]).of) EXCEPT !.at = "failed"])
  /\ UNCHANGED <<console, sync, res, wire, hist>>

\* The failure itself cannot be written down.
Unrecorded(t) ==
  /\ Fault /\ Runs(t, "failed") /\ Returns(t)
  /\ LET e == Head(stack[t]).of IN
     Spoil({e}) /\ unheard' = unheard \cup {e}
  /\ UNCHANGED <<console, sync, res, wire>>

\* A process dies with its tasks; what it has sent is on its way.
Crash(T) ==
  /\ Fault /\ \A t \in T : stack[t] # <<>>
  /\ stack' = [t \in AllTasks |-> IF t \in T THEN <<>> ELSE stack[t]]
  /\ LET dead == UNION {{stack[t][i] : i \in DOMAIN stack[t]} : t \in T} IN
     /\ wire' = wire \cup {Request(f) : f \in {f \in dead : f.at = "sent"}}
     /\ Spoil({f.of : f \in dead})
  /\ UNCHANGED <<console, sync, res, unheard>>

\* A request nobody waits for is carried out, or refused, or lost.
Straggles(q) ==
  /\ wire' = wire \ {q}
  /\ \/ ~Taken(q.id, q.row) /\ res' = Put(q.id, q.row)
     \/ UNCHANGED res
  /\ UNCHANGED <<console, sync, stack, hist, faults>>

-----------------------------------------------------------------------------

TypeOK ==
  /\ row \in [Entities -> Row] /\ tx \in [Entities -> Row \cup {NoTx}]
  /\ link \in [Entities -> 0..Len(res)] /\ err \in [Entities -> BOOLEAN]
  /\ \A r \in DOMAIN res : res[r].members \subseteq DOMAIN res
  /\ \A t \in AllTasks : Len(stack[t]) <= 3
  /\ fresh \in [Entities -> BOOLEAN] /\ roster \in BOOLEAN
  /\ unheard \subseteq Entities /\ held \in [Entities -> SUBSET Names]
  /\ edits \in 0..MaxEdits /\ faults \in 0..MaxFaults

\* The endpoint has just been configured.  Somebody may have an account there.
Init ==
  /\ \E f \in First : row = f.row /\ res = f.res
  /\ tx = [e \in Entities |-> NoTx] /\ wire = {}
  /\ link = [e \in Entities |-> 0] /\ err = [e \in Entities |-> FALSE]
  /\ stack = [t \in AllTasks |-> <<>>]
  /\ fresh = [e \in Entities |-> FALSE] /\ roster = FALSE /\ unheard = {}
  /\ held = [e \in Entities |-> IF Live(e) THEN {row[e].name} ELSE {}]
  /\ edits = 0 /\ faults = 0

Requests == \/ \E t \in Tasks, e \in Entities : Begin(t, e)
            \/ \E t \in Tasks, u \in Users : CommitAndPush(t, u)
            \/ \E e \in Entities : Silently(e)
Ends(e)  == Commit(e) \/ Rollback(e)
Faults   == \/ \E t \in AllTasks : Refused(t) \/ TimesOut(t) \/ Breaks(t) \/ Unrecorded(t)
            \/ \E T \in SUBSET AllTasks \ {{}} : Crash(T)

Next == \/ Requests \/ Faults
        \/ \E e \in Entities : Ends(e)
        \/ \E t \in AllTasks : PushAll(t) \/ Step(t)
        \/ \E q \in wire : Straggles(q)

\* Every process runs its tasks, requests end, a packet is not under way for
\* ever, and the night comes again.
Fairness == /\ \A t \in AllTasks : WF_vars(Step(t))
            /\ WF_vars(PushAll(Night))
            /\ WF_vars(\E e \in Entities : Ends(e))
            /\ WF_vars(\E q \in wire : Straggles(q))

Spec == Init /\ [][Next]_vars /\ Fairness

-----------------------------------------------------------------------------
(* Properties *)

\* A name of e was another's: the endpoint's resource of that name may be
\* taken for either's.
Reused(e) == \E d \in Entities \ {e} : held[d] \cap held[e] # {}

\* What the endpoint knows e by has e's name and state.
Current(e) == /\ link[e] # 0
              /\ res[link[e]].name = row[e].name /\ res[link[e]].active = row[e].active

\* A push that read its entity alone and ended without an error has left the
\* endpoint with what the console has: whether the resource was created, found
\* after a 409, or created by a request that had timed out.
\* outbound_scim_push_service.py 311-432.
PushedIsCurrent ==
  \A e \in Entities : Live(e) /\ Idle(e) /\ fresh[e] /\ ~err[e] /\ ~Reused(e) => Current(e)

\* After such a push of a group the endpoint's group has the members that the
\* endpoint knows, no others, and what keeps another out was written down.
\* outbound_scim_push_service.py 447-478, 619-652.
RosterIsWhole ==
  Live(Group) /\ Idle(Group) /\ roster /\ ~err[Group] =>
    /\ res[link[Group]].members = MemberIds
    /\ \A u \in Members \ Linked : err[u] \/ u \in unheard

\* Once changes and faults have ended, the endpoint holds every active user and
\* the group as they are, or the sync state says that it does not.
\* outbound_scim_push_service.py 169-252.
Told(e) ==
  Live(e) /\ row[e].active /\ ~Reused(e) =>
    err[e] \/ (Current(e) /\ (e = Group => res[link[e]].members = MemberIds))
DivergenceIsTold == <>[](\A e \in Entities : Told(e))
=============================================================================
