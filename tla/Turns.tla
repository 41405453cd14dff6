-------------------------------- MODULE Turns --------------------------------
(***************************************************************************)
(* The turns of one conversation.  A message is relayed by the console, or *)
(* comes from a chat client; the orchestrator runs one turn at a time and  *)
(* folds what arrives meanwhile into it (steering); a turn may stop to ask *)
(* for tool calls to be approved, and a later message answers.             *)
(*                                                                         *)
(* Messages are numbered as they are sent, and a turn has the number of    *)
(* the message that started it.  Calls are numbered as the model makes     *)
(* them; the calls of one model step are gated and answered together.      *)
(***************************************************************************)
EXTENDS Naturals, FiniteSets

CONSTANTS
  Users,     \* the speakers of a channel
  Console,   \* the one user of a console conversation
  Nobody,    \* the owner of no card
  ClickOnly, \* calls marked _requires_click: they save something
  Depth,     \* MAX_STEERING_QUEUE_DEPTH
  MaxAgain,  \* MAX_STEERING_REINVOCATIONS
  MaxMsgs, MaxRelayed, MaxCalls  \* bounds: messages, in a console, calls

ASSUME TurnsAssumption ==
  /\ Console \in Users /\ Nobody \notin Users /\ ClickOnly \subseteq Nat
  /\ Depth \in Nat /\ MaxAgain \in Nat /\ MaxMsgs \in Nat /\ MaxRelayed \in Nat /\ MaxCalls \in Nat

Msgs  == 1..MaxMsgs
Calls == 1..MaxCalls

\* What a message says to a pending card: words, words that agree, or a click
\* that approves the calls it names (an old client names none: all of them).
Says == [kind : {"talk", "yes"}, names : {{}}]
          \cup [kind : {"click"}, names : SUBSET Calls]
Message == [from : Users, says : Says]
NoMsg   == [from |-> Console, says |-> [kind |-> "talk", names |-> {}]]

\* A pending interrupt: the turn that raised it and its speaker, the calls of
\* the model's step and those of them that were put to the speaker.
Card   == [by : Msgs, owner : Users, step : SUBSET Calls, asked : SUBSET Calls]
NoCard == [by |-> 0, owner |-> Nobody, step |-> {}, asked |-> {}]

\* Where a message stands at the orchestrator.  A wedged turn has left
\* execute() and is registered still.
Working == {"setup", "ready", "tools", "model", "thinking", "completed",
            "emitting", "ending"}
Stages  == Working \cup {"unsent", "wire", "queued", "wedged", "done"}

\* What the console hears of its turn last, and where the handler of the
\* message stands there.
Outs  == {"none", "ack", "error", "told", "asked", "completed", "failed", "canceled"}
Hands == {"none", "steer", "turn", "told", "over", "cancelled", "done"}

VARIABLES
  relayed,  \* TRUE: a console conversation; FALSE: a channel
  msg,      \* the messages under way
  stage,    \* executor: where each message stands
  active,   \* _active_streams
  accepted, \* how many messages active.message_queue has taken
  again, nudged,  \* steering_reinvocations, delegation_reinvocations
  seen,     \* current_state: the card a turn read before it began
  run,      \* the calls a turn has to make
  card,     \* the interrupt in the conversation's checkpoint
  used,     \* calls the model has made
  ran,      \* history: how often a call was executed, counted to 2
  asker,    \* history: the speaker a call was put to
  regated,  \* history: the turn resumed a card under other rules
  out,      \* what the stream of a turn's message has ended with
  hand,     \* console: the handler of each message
  cancel,   \* console: handle_cancel_task for a turn
  entry,    \* console: active_tasks
  prompt,   \* console: _pending_interactions
  late, overlap  \* history: a message relayed as steering began a turn; a
                 \* turn was relayed while a cancelled one was not over

exec  == <<stage, active, accepted, again, nudged, seen, run>>
graph == <<card, used, ran, asker, regated>>
relay == <<hand, cancel, entry, prompt, overlap>>
\* What the orchestrator's handlers leave to others.
elsewhere == <<relayed, relay>>
vars  == <<relayed, msg, exec, graph, out, late, relay>>

TypeOK ==
  /\ relayed \in BOOLEAN /\ msg \in [Msgs -> Message]
  /\ stage \in [Msgs -> Stages] /\ active \in 0..MaxMsgs
  /\ accepted \in 0..Depth /\ again \in 0..MaxAgain /\ nudged \in BOOLEAN
  /\ seen \in [Msgs -> Card \cup {NoCard}] /\ run \in [Msgs -> SUBSET Calls]
  /\ card \in Card \cup {NoCard} /\ used \subseteq Calls
  /\ ran \in [Calls -> 0..2] /\ asker \in [Calls -> Users \cup {Nobody}]
  /\ out \in [Msgs -> Outs] /\ hand \in [Msgs -> Hands]
  /\ cancel \in [Msgs -> {"no", "asked", "sent"}]
  /\ entry \in 0..MaxMsgs /\ prompt \in 0..MaxMsgs
  /\ regated \in BOOLEAN /\ late \in BOOLEAN /\ overlap \in BOOLEAN

Init ==
  /\ relayed \in BOOLEAN
  /\ msg = [m \in Msgs |-> NoMsg] /\ stage = [m \in Msgs |-> "unsent"]
  /\ active = 0 /\ accepted = 0 /\ again = 0 /\ nudged = FALSE
  /\ seen = [m \in Msgs |-> NoCard] /\ run = [m \in Msgs |-> {}]
  /\ card = NoCard /\ used = {} /\ ran = [c \in Calls |-> 0]
  /\ asker = [c \in Calls |-> Nobody] /\ regated = FALSE
  /\ out = [m \in Msgs |-> "none"] /\ hand = [m \in Msgs |-> "none"]
  /\ cancel = [m \in Msgs |-> "no"] /\ entry = 0 /\ prompt = 0
  /\ late = FALSE /\ overlap = FALSE

-----------------------------------------------------------------------------
(* The console *)

\* A click answers a card that was shown.
CanSay(s) == s.kind = "click" =>
  /\ \E c \in Calls : asker[c] # Nobody
  /\ \A c \in s.names : asker[c] # Nobody

\* The number the next message gets.
NextMsg(m) == stage[m] = "unsent" /\ \A k \in Msgs : k < m => stage[k] # "unsent"

\* A cancelled turn that is not over, at the console or at the orchestrator.
Straggles(m) ==
  \/ cancel[m] # "no" \/ hand[m] = "cancelled"
  \/ hand[m] = "done" /\ stage[m] \in (Working \cup {"wire"}) \ {"ending"}

\* Mutant: the prompt outlives the message that answers it.
Answered_Kept == prompt

\* _pending_interactions once a new turn is relayed.
Answered == 0

\* handle_send_message, from its look at active_tasks to create_task; a client
\* of a channel sends its message to the orchestrator itself.  Speakers are
\* interchangeable: the first to speak is Console, and has nothing to agree to.
Send(m) ==
  /\ NextMsg(m)
  /\ relayed => m <= MaxRelayed
  /\ \E u \in Users, s \in Says :
       /\ CanSay(s)
       /\ relayed \/ m = 1 => u = Console
       /\ m = 1 => s.kind = "talk"
       /\ msg' = [msg EXCEPT ![m] = [from |-> u, says |-> s]]
  /\ stage' = [stage EXCEPT ![m] = "wire"]
  /\ IF ~relayed THEN UNCHANGED relay
     ELSE IF entry # 0 /\ hand[entry] # "over"
     THEN hand' = [hand EXCEPT ![m] = "steer"] /\ UNCHANGED <<cancel, entry, prompt, overlap>>
     ELSE /\ hand' = [hand EXCEPT ![m] = "turn"]
          /\ entry' = m /\ prompt' = Answered
          /\ overlap' = (overlap \/ \E k \in Msgs : Straggles(k))
          /\ UNCHANGED cancel
  /\ UNCHANGED <<relayed, active, accepted, again, nudged, seen, run, graph, out, late>>

\* _process_a2a_response on the event that ends the turn: a prompt is kept,
\* another ending clears it.  An acknowledgement ends nothing, and an error is
\* no event.
RelayEvent(m) ==
  /\ hand[m] = "turn" /\ out[m] # "none"
  /\ hand' = [hand EXCEPT ![m] = "told"]
  /\ prompt' = CASE out[m] = "asked" -> m
                 [] out[m] \in {"told", "completed", "failed", "canceled"} -> 0
                 [] OTHER -> prompt
  /\ UNCHANGED <<relayed, msg, exec, graph, out, late, cancel, entry, overlap>>

\* The stream closes; the task of _send_message_to_agent is done.
StreamEnds(m) ==
  /\ hand[m] = "told"
  /\ hand' = [hand EXCEPT ![m] = "over"]
  /\ UNCHANGED <<relayed, msg, exec, graph, out, late, cancel, entry, prompt, overlap>>

\* active_tasks after the teardown of turn m.
EntryAfter(m) == IF entry = m THEN 0 ELSE entry

\* The finally clause of handle_send_message.
TearDown(m) ==
  /\ hand[m] \in {"over", "cancelled"}
  /\ hand' = [hand EXCEPT ![m] = "done"]
  /\ entry' = EntryAfter(m)
  /\ prompt' = IF entry \in {m, 0} /\ hand[m] = "cancelled" THEN 0 ELSE prompt
  /\ UNCHANGED <<relayed, msg, exec, graph, out, late, cancel, overlap>>

\* handle_cancel_task pops the turn ...
CancelTask(m) ==
  /\ entry = m
  /\ entry' = 0
  /\ cancel' = [cancel EXCEPT ![m] = "asked"]
  /\ UNCHANGED <<relayed, msg, exec, graph, out, late, hand, prompt, overlap>>

\* ... and, once the orchestrator has been asked, cancels its own task.
CancelLocal(m) ==
  /\ cancel[m] = "sent"
  /\ cancel' = [cancel EXCEPT ![m] = "no"]
  /\ hand' = [hand EXCEPT ![m] = IF @ \in {"turn", "told"} THEN "cancelled" ELSE @]
  /\ UNCHANGED <<relayed, msg, exec, graph, out, late, entry, prompt, overlap>>

-----------------------------------------------------------------------------
(* The orchestrator: execute() *)

\* Mutant: a turn begins although one is registered.
Free_Always == TRUE

\* try_register finds no active stream.
Free == active = 0

\* message_queue.qsize() is below its limit.  Nothing takes a message out of
\* that queue; those the turn reads wait in another.
Room == accepted < Depth

\* The console listens to the turns it relays.
Tell(m, o) == IF hand[m] = "turn" THEN [out EXCEPT ![m] = o] ELSE out

\* What was kept for a message is let go.
Forget(M) == [m \in Msgs |-> IF m \in M THEN NoMsg ELSE msg[m]]

\* The message arrives: it starts a turn, or is put in the running one's queue
\* and acknowledged, or is refused.
Receive(m) ==
  /\ stage[m] = "wire"
  /\ \/ /\ Free
        /\ stage' = [stage EXCEPT ![m] = "setup"]
        /\ active' = m
        /\ late' = (late \/ hand[m] = "steer")
        /\ UNCHANGED <<msg, accepted, out>>
     \/ /\ ~Free /\ Room
        /\ stage' = [stage EXCEPT ![m] = "queued"]
        /\ accepted' = accepted + 1
        /\ msg' = Forget({m}) /\ out' = Tell(m, "ack")
        /\ UNCHANGED <<active, late>>
     \/ /\ ~Free /\ ~Room
        /\ stage' = [stage EXCEPT ![m] = "done"]
        /\ msg' = Forget({m}) /\ out' = Tell(m, "error")
        /\ UNCHANGED <<active, accepted, late>>
  /\ UNCHANGED <<again, nudged, seen, run, graph>> /\ UNCHANGED elsewhere

\* An exit ahead of the try: the budget is locked, no model is configured, the
\* user is unknown, the registry fails.  Nothing releases the conversation.
SetupFails(m) ==
  /\ stage[m] = "setup"
  /\ stage' = [stage EXCEPT ![m] = "wedged"]
  /\ \E o \in {"failed", "error"} : out' = Tell(m, o)
  /\ UNCHANGED <<msg, active, accepted, again, nudged, seen, run, graph, late>>
  /\ UNCHANGED elsewhere

\* _refuse_foreign_interrupt
Foreign(m) == card # NoCard /\ card.owner # msg[m].from

\* Mutant: a click is never checked against the card.
Stale_Never(m) == FALSE

\* _refuse_stale_decision: a click with nothing pending, or on another card.
Stale(m) ==
  /\ msg[m].says.kind = "click"
  /\ \/ card = NoCard
     \/ msg[m].says.names # {} /\ msg[m].says.names \cap card.asked = {}

\* aget_state and the two refusals; the graph is left untouched by those.
ReadState(m) ==
  /\ stage[m] = "setup"
  /\ IF Foreign(m) \/ Stale(m)
     THEN /\ stage' = [stage EXCEPT ![m] = "ending"]
          /\ out' = Tell(m, "told")
          /\ UNCHANGED seen
     ELSE /\ stage' = [stage EXCEPT ![m] = "ready"]
          /\ seen' = [seen EXCEPT ![m] = card]
          /\ UNCHANGED out
  /\ UNCHANGED <<msg, active, accepted, again, nudged, run, graph, late>>
  /\ UNCHANGED elsewhere

\* Mutant: a call the client did not mention is approved.
Approved_Unmentioned(s, A) == IF s.kind = "talk" THEN {} ELSE A

\* _decisions_for_interrupt and decisions_from_resume: which of the calls it is
\* asked for the message approves.  Words that agree approve all of them, or
\* none when one needs a click; a click rejects those it does not name.
Approved(s, A) ==
  CASE s.kind = "talk" -> {}
    [] s.kind = "yes"  -> IF A \cap ClickOnly = {} THEN A ELSE {}
    [] OTHER           -> IF s.names = {} THEN A ELSE A \cap s.names

\* Decisions are paired with calls by position.
Rank(c, A)      == Cardinality({d \in A : d < c})
Paired(A, B, X) == {b \in B : \E a \in X : Rank(a, A) = Rank(b, B)}

\* The resumed step is gated again, by the rules as they are now: with nothing
\* left to ask it runs as it is.  Words are read for what is asked now; clicks
\* were decisions for the card, and are taken for as many calls.
ToRun(m, now) ==
  LET old == seen[m].asked
      s   == msg[m].says
  IN  (seen[m].step \ now)
        \cup (IF now = old \/ s.kind # "click" THEN Approved(s, now)
              ELSE Paired(old, now, Approved(s, old)))

\* A number of decisions that does not fit fails the turn.
Mismatch(m, now) ==
  /\ msg[m].says.kind = "click" /\ now # {}
  /\ Cardinality(now) # Cardinality(seen[m].asked)

\* The graph is started afresh ...
Start(m) ==
  /\ stage[m] = "ready" /\ seen[m] = NoCard
  /\ stage' = [stage EXCEPT ![m] = "model"]
  /\ UNCHANGED <<msg, active, accepted, again, nudged, seen, run, graph, out, late>>
  /\ UNCHANGED elsewhere

\* ... or resumed with the answer.
Resume(m) ==
  /\ stage[m] = "ready" /\ seen[m] # NoCard
  /\ \E now \in SUBSET seen[m].step :
       IF Mismatch(m, now)
       THEN /\ stage' = [stage EXCEPT ![m] = "ending"]
            /\ out' = Tell(m, "error")
            /\ UNCHANGED <<run, card, regated>>
       ELSE /\ stage' = [stage EXCEPT ![m] = "tools"]
            /\ run' = [run EXCEPT ![m] = ToRun(m, now)]
            /\ card' = NoCard
            /\ regated' = (now # seen[m].asked)
            /\ UNCHANGED out
  /\ seen' = [seen EXCEPT ![m] = NoCard]
  /\ UNCHANGED <<msg, active, accepted, again, nudged, used, ran, asker, late>>
  /\ UNCHANGED elsewhere

\* The tools node, call by call.
RunCall(m) ==
  /\ stage[m] = "tools"
  /\ \E c \in run[m] :
       /\ run' = [run EXCEPT ![m] = @ \ {c}]
       /\ ran' = [ran EXCEPT ![c] = IF @ < 2 THEN @ + 1 ELSE @]
  /\ UNCHANGED <<msg, stage, active, accepted, again, nudged, seen, card, used, asker, regated, out, late>>
  /\ UNCHANGED elsewhere

ToolsDone(m) ==
  /\ stage[m] = "tools" /\ run[m] = {}
  /\ stage' = [stage EXCEPT ![m] = "model"]
  /\ UNCHANGED <<msg, active, accepted, again, nudged, seen, run, graph, out, late>>
  /\ UNCHANGED elsewhere

\* Whoever drains the steering queue reads all of it.
Drained == [k \in Msgs |-> IF stage[k] = "queued" THEN "done" ELSE stage[k]]

\* abefore_model
BeforeModel(m) ==
  /\ stage[m] = "model"
  /\ stage' = [Drained EXCEPT ![m] = "thinking"]
  /\ UNCHANGED <<msg, active, accepted, again, nudged, seen, run, graph, out, late>>
  /\ UNCHANGED elsewhere

\* The model makes calls, and aafter_model lets them run or stops for those
\* that need approval by the rules of the moment.
MakesCalls(m) ==
  /\ stage[m] = "thinking"
  /\ \E n \in Calls : LET S == (1..n) \ used IN
       /\ S # {} /\ used' = used \cup S
       /\ \/ /\ run' = [run EXCEPT ![m] = S]
             /\ stage' = [stage EXCEPT ![m] = "tools"]
             /\ UNCHANGED <<card, asker, out>>
          \/ \E gated \in SUBSET S \ {{}} :
             /\ card' = [by |-> m, owner |-> msg[m].from, step |-> S, asked |-> gated]
             /\ asker' = [c \in Calls |-> IF c \in gated THEN msg[m].from ELSE asker[c]]
             /\ stage' = [stage EXCEPT ![m] = "ending"]
             /\ out' = Tell(m, "asked")
             /\ UNCHANGED run
  /\ UNCHANGED <<msg, active, accepted, again, nudged, seen, ran, regated, late>>
  /\ UNCHANGED elsewhere

\* The model has its answer.
Completes(m) ==
  /\ stage[m] = "thinking"
  /\ stage' = [stage EXCEPT ![m] = "completed"]
  /\ UNCHANGED <<msg, active, accepted, again, nudged, seen, run, graph, out, late>>
  /\ UNCHANGED elsewhere

\* Anything inside the try may raise.
Fails(m) ==
  /\ stage[m] \in Working \ {"ending"}
  /\ stage' = [stage EXCEPT ![m] = "ending"]
  /\ out' = Tell(m, "error")
  /\ UNCHANGED <<msg, active, accepted, again, nudged, seen, run, graph, late>>
  /\ UNCHANGED elsewhere

\* Mutant: the re-entries are not counted.
MayNudge_Always == TRUE

\* delegation_reinvocations < MAX_DELEGATION_REINVOCATIONS
MayNudge == ~nudged

\* The answer is held back: messages that came after the last look are read in
\* another round, a delegation that did not happen is asked for again, or the
\* answer goes out.
CheckSteering(m) ==
  /\ stage[m] = "completed"
  /\ LET waiting == again < MaxAgain /\ \E k \in Msgs : stage[k] = "queued" IN
     \/ /\ waiting
        /\ stage' = [Drained EXCEPT ![m] = "model"]
        /\ again' = again + 1 /\ UNCHANGED nudged
     \/ /\ ~waiting /\ MayNudge
        /\ stage' = [stage EXCEPT ![m] = "model"]
        /\ nudged' = TRUE /\ UNCHANGED again
     \/ /\ ~waiting
        /\ stage' = [stage EXCEPT ![m] = "emitting"]
        /\ UNCHANGED <<again, nudged>>
  /\ UNCHANGED <<msg, active, accepted, seen, run, graph, out, late>>
  /\ UNCHANGED elsewhere

\* The deferred terminal event.
Emit(m) ==
  /\ stage[m] = "emitting"
  /\ stage' = [stage EXCEPT ![m] = "ending"]
  /\ out' = Tell(m, "completed")
  /\ UNCHANGED <<msg, active, accepted, again, nudged, seen, run, graph, late>>
  /\ UNCHANGED elsewhere

\* Mutant: the queue is left behind.
Forgotten_Kept == stage

\* remove_steering_queue: what is in it is lost.
Forgotten == [k \in Msgs |-> IF stage[k] = "queued" THEN "done" ELSE stage[k]]

\* The finally clause; the turn's own variables are gone.
End(m) ==
  /\ stage[m] = "ending"
  /\ stage' = [Forgotten EXCEPT ![m] = "done"]
  /\ active' = 0 /\ accepted' = 0 /\ again' = 0 /\ nudged' = FALSE
  /\ run' = [run EXCEPT ![m] = {}] /\ seen' = [seen EXCEPT ![m] = NoCard]
  /\ msg' = Forget({m}) /\ regated' = FALSE
  /\ UNCHANGED <<card, used, ran, asker, out, late>>
  /\ UNCHANGED elsewhere

\* tasks/cancel reaches the orchestrator, or fails: the turn is cancelled
\* where it stands.  Ahead of the try, and in the finally clause, that skips the
\* release.
CancelTurn(m) ==
  /\ cancel[m] = "asked"
  /\ cancel' = [cancel EXCEPT ![m] = "sent"]
  /\ \/ /\ stage[m] \in Working \ {"ending"}
        /\ out' = Tell(m, "canceled")
        /\ stage' = [stage EXCEPT ![m] = IF @ = "setup" THEN "wedged" ELSE "ending"]
     \/ /\ stage[m] = "setup"
        /\ out' = Tell(m, "canceled")
        /\ stage' = [stage EXCEPT ![m] = "ending"]
     \/ /\ stage[m] = "ending"
        /\ stage' = [stage EXCEPT ![m] = "wedged"] /\ UNCHANGED out
     \/ UNCHANGED <<stage, out>>
  /\ UNCHANGED <<active, accepted, again, nudged, seen, run, graph, late>>
  /\ UNCHANGED <<relayed, msg, hand, entry, prompt, overlap>>

Turn(m) ==
  \/ Receive(m) \/ SetupFails(m) \/ ReadState(m) \/ Start(m) \/ Resume(m) \/ RunCall(m) \/ ToolsDone(m)
  \/ BeforeModel(m) \/ MakesCalls(m) \/ Completes(m) \/ Fails(m)
  \/ CheckSteering(m) \/ Emit(m) \/ End(m)

Relay(m) == RelayEvent(m) \/ StreamEnds(m) \/ TearDown(m) \/ CancelTurn(m) \/ CancelLocal(m)

Next == \E m \in Msgs : Send(m) \/ CancelTask(m) \/ Turn(m) \/ Relay(m)

\* Both event loops run something that can go on.  A model call times out and a
\* turn's steps are limited.  Nobody has to send, answer or cancel anything.
Fairness == WF_vars(\E m \in Msgs : Turn(m)) /\ WF_vars(\E m \in Msgs : Relay(m))

Spec == Init /\ [][Next]_vars /\ Fairness

-----------------------------------------------------------------------------
(* Properties *)

\* A call is executed at most once, however messages, clicks and turns meet.
\* executor.py 741, 376; conditional_hitl.py 982.
RunsOnce == \A c \in Calls : ran[c] <= 1

\* A call somebody was asked about is run only for that speaker's message, and
\* only if the message agrees to it: words that agree, unless the call saves
\* something, a click for everything, or a click that names it.  Excepted is a card whose rules changed before it
\* was answered: its step is gated again and decisions are paired by position.
\* executor.py 290-298, 310-318; hitl_resume.py 449; conditional_hitl.py 982.
Agrees(s, c) ==
  \/ s.kind = "yes" /\ c \notin ClickOnly
  \/ s.kind = "click" /\ (s.names = {} \/ c \in s.names)
OnlyApprovedRuns ==
  \A m \in Msgs : \A c \in run[m] : asker[c] # Nobody /\ ~regated =>
    msg[m].from = asker[c] /\ Agrees(msg[m].says, c)

\* A pending card is answered only by its owner, and by a click only if the
\* click is for everything or names one of the calls it asks for: neither
\* another speaker nor the buttons of an older card take it away.
\* executor.py 309-374.
AskIsAnswered ==
  [][card # NoCard /\ card' # card =>
       \E m \in Msgs :
         /\ stage[m] = "ready"
         /\ msg[m].from = card.owner
         /\ msg[m].says.kind = "click" =>
              msg[m].says.names = {} \/ msg[m].says.names \cap card.asked # {}]_vars

\* The prompt a browser gets back when it reconnects is the one the
\* conversation waits for, unless the relay had sent a message as steering
\* into a turn that was over, or beside a cancelled turn that was not.
\* app.py 957-980, 1271, 1394, 2571, 2600-2615.
PromptIsReal == ~late /\ ~overlap => (prompt # 0 => card.by = prompt)

\* The conversation is registered by a turn that left without releasing it.
Wedged == \E m \in Msgs : active = m /\ stage[m] = "wedged"

\* Turns come to an end, and the conversation is free again: neither follow-ups
\* nor failed delegations keep one going.  executor.py 1281-1461.
TurnsEnd == active # 0 ~> (active = 0 \/ Wedged)

\* A message taken into a running turn is read, or dropped when that turn
\* ends; it stays only where the conversation was never released.
\* executor.py 741-792, 1355-1380, 1495-1513.
FollowUpsEnd ==
  (\E m \in Msgs : stage[m] = "queued") ~> ((\A m \in Msgs : stage[m] # "queued") \/ Wedged)
=============================================================================
