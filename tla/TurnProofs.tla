----------------------------- MODULE TurnProofs ------------------------------
(***************************************************************************)
(* The approvals of a conversation, for any number of speakers, messages   *)
(* and calls: a call is executed at most once, a call somebody was asked   *)
(* about only with that speaker's agreement, and a pending card is taken   *)
(* away by its answer alone.                                               *)
(*                                                                         *)
(* The invariant has two parts.  TurnInv follows the one turn that runs:   *)
(* only the registered turn holds calls or a card it read, and while it    *)
(* holds calls no card is pending.  CallInv follows the calls: those that  *)
(* are held or pending were made and have not been executed.               *)
(***************************************************************************)
EXTENDS Turns, TLAPS

USE TurnsAssumption DEF Msgs, Calls

LEMMA NoMsgIsMessage == NoMsg \in Message
BY DEF NoMsg, Message, Says

LEMMA TellType ==
  ASSUME TypeOK, NEW m \in Msgs, NEW o \in Outs
  PROVE  Tell(m, o) \in [Msgs -> Outs]
BY DEF Tell, TypeOK

LEMMA ForgetType ==
  ASSUME TypeOK, NEW M
  PROVE  Forget(M) \in [Msgs -> Message]
BY NoMsgIsMessage DEF Forget, TypeOK

\* Draining the queue takes queued messages to their end and no other.
LEMMA DrainedType ==
  ASSUME TypeOK
  PROVE  /\ Drained \in [Msgs -> Stages] /\ Forgotten \in [Msgs -> Stages]
         /\ \A k \in Msgs : Drained[k] = IF stage[k] = "queued" THEN "done" ELSE stage[k]
         /\ \A k \in Msgs : Forgotten[k] = IF stage[k] = "queued" THEN "done" ELSE stage[k]
BY DEF Drained, Forgotten, TypeOK, Stages

LEMMA ToRunIsInStep ==
  ASSUME TypeOK, NEW m \in Msgs, NEW now \in SUBSET seen[m].step,
         seen[m].asked \subseteq seen[m].step
  PROVE  ToRun(m, now) \subseteq seen[m].step
<1>1. Approved(msg[m].says, now) \subseteq now
  BY DEF Approved
<1>2. Paired(seen[m].asked, now, Approved(msg[m].says, seen[m].asked)) \subseteq now
  BY DEF Paired
<1> QED BY <1>1, <1>2 DEF ToRun

-----------------------------------------------------------------------------
(* Types *)

\* What a card asks for is part of its step.
Asked(k) == k.asked \subseteq k.step
CardsOK  == Asked(card) /\ \A m \in Msgs : Asked(seen[m])

LEMMA InitTypes == Init => TypeOK /\ CardsOK
<1> SUFFICES ASSUME Init PROVE TypeOK /\ CardsOK
  OBVIOUS
<1>1. msg \in [Msgs -> Message] /\ stage \in [Msgs -> Stages] /\ out \in [Msgs -> Outs] /\ hand \in [Msgs -> Hands]
  BY NoMsgIsMessage DEF Init, Stages, Outs, Hands
<1>2. relayed \in BOOLEAN /\ nudged \in BOOLEAN /\ regated \in BOOLEAN /\ late \in BOOLEAN /\ overlap \in BOOLEAN
  BY Zenon DEF Init
<1>3. Asked(NoCard)
  BY DEF Asked, NoCard
<1>4. CardsOK
  BY <1>3 DEF Init, CardsOK
<1>5. /\ active \in 0..MaxMsgs /\ accepted \in 0..Depth /\ again \in 0..MaxAgain
      /\ seen \in [Msgs -> Card \cup {NoCard}] /\ run \in [Msgs -> SUBSET Calls]
      /\ card \in Card \cup {NoCard} /\ used \subseteq Calls
      /\ ran \in [Calls -> 0..2] /\ asker \in [Calls -> Users \cup {Nobody}]
      /\ cancel \in [Msgs -> {"no", "asked", "sent"}]
      /\ entry \in 0..MaxMsgs /\ prompt \in 0..MaxMsgs
  BY DEF Init
<1> QED BY <1>1, <1>2, <1>4, <1>5 DEF TypeOK

LEMMA RelayTypes ==
  ASSUME TypeOK, NEW m \in Msgs, Relay(m)
  PROVE  TypeOK'
<1> USE DEF exec, graph
<1>1. CASE RelayEvent(m)
  BY <1>1 DEF RelayEvent, TypeOK, Hands
<1>2. CASE StreamEnds(m)
  BY <1>2 DEF StreamEnds, TypeOK, Hands
<1>3. CASE TearDown(m)
  BY <1>3 DEF TearDown, EntryAfter, TypeOK, Hands
<1>4. CASE CancelTurn(m)
  <2>1. Tell(m, "canceled") \in [Msgs -> Outs]
    BY TellType DEF Outs
  <2> QED BY <1>4, <2>1 DEF CancelTurn, TypeOK, Stages, Working
<1>5. CASE CancelLocal(m)
  BY <1>5 DEF CancelLocal, TypeOK, Hands
<1> QED BY <1>1, <1>2, <1>3, <1>4, <1>5 DEF Relay

LEMMA ConsoleTypes ==
  ASSUME TypeOK, NEW m \in Msgs, Send(m) \/ CancelTask(m)
  PROVE  TypeOK'
<1> USE DEF exec, graph, relay
<1>1. CASE Send(m)
  <2>1. PICK u \in Users, s \in Says : msg' = [msg EXCEPT ![m] = [from |-> u, says |-> s]]
    BY <1>1 DEF Send
  <2>2. msg' \in [Msgs -> Message]
    BY <2>1 DEF TypeOK, Message
  <2>3. stage' \in [Msgs -> Stages]
    BY <1>1 DEF Send, TypeOK, Stages
  <2>4. /\ hand' \in [Msgs -> Hands] /\ entry' \in 0..MaxMsgs /\ prompt' \in 0..MaxMsgs
        /\ cancel' = cancel
    <3>1. /\ hand' = hand \/ hand' = [hand EXCEPT ![m] = "steer"] \/ hand' = [hand EXCEPT ![m] = "turn"]
          /\ entry' = entry \/ entry' = m
          /\ prompt' = prompt \/ prompt' = 0
          /\ cancel' = cancel
      BY <1>1, Zenon DEF Send, Answered
    <3>2. /\ hand \in [Msgs -> Hands] /\ "steer" \in Hands /\ "turn" \in Hands
          /\ entry \in 0..MaxMsgs /\ m \in 0..MaxMsgs
          /\ prompt \in 0..MaxMsgs /\ 0 \in 0..MaxMsgs
      BY TurnsAssumption DEF TypeOK, Hands, Msgs
    <3>3. hand' \in [Msgs -> Hands]
      BY <3>1, <3>2
    <3> QED BY <3>1, <3>2, <3>3
  <2>5. overlap' \in BOOLEAN
    BY <1>1, Zenon DEF Send, TypeOK
  <2> QED BY <1>1, <2>2, <2>3, <2>4, <2>5 DEF Send, TypeOK
<1>2. CASE CancelTask(m)
  BY <1>2 DEF CancelTask, TypeOK
<1> QED BY <1>1, <1>2

\* The steps of a turn that leave its cards and calls alone.
Quiet(m) ==
  \/ Receive(m) \/ SetupFails(m) \/ Start(m) \/ ToolsDone(m) \/ BeforeModel(m)
  \/ Completes(m) \/ Fails(m) \/ CheckSteering(m) \/ Emit(m)

LEMMA QuietTypes ==
  ASSUME TypeOK, NEW m \in Msgs, Quiet(m)
  PROVE  TypeOK' /\ UNCHANGED <<graph, seen, run>>
<1> USE TellType, ForgetType, DrainedType DEF graph, relay, elsewhere, Outs
<1>1. CASE Receive(m)
  <2>1. late' \in BOOLEAN
    BY <1>1, Zenon DEF Receive, TypeOK
  <2>2. stage' \in [Msgs -> Stages] /\ active' \in 0..MaxMsgs /\ accepted' \in 0..Depth
    BY <1>1 DEF Receive, Room, TypeOK, Stages, Working
  <2>3. msg' \in [Msgs -> Message] /\ out' \in [Msgs -> Outs]
    <3>1. Tell(m, "ack") \in [Msgs -> Outs] /\ Tell(m, "error") \in [Msgs -> Outs]
      BY TellType DEF Outs
    <3> QED BY <1>1, <3>1, ForgetType DEF Receive, TypeOK
  <2> QED BY <1>1, <2>1, <2>2, <2>3 DEF Receive, TypeOK
<1>2. CASE SetupFails(m)
  BY <1>2 DEF SetupFails, TypeOK, Stages
<1>3. CASE Start(m)
  BY <1>3 DEF Start, TypeOK, Stages, Working
<1>4. CASE ToolsDone(m)
  BY <1>4 DEF ToolsDone, TypeOK, Stages, Working
<1>5. CASE BeforeModel(m)
  BY <1>5 DEF BeforeModel, TypeOK, Stages, Working
<1>6. CASE Completes(m)
  BY <1>6 DEF Completes, TypeOK, Stages, Working
<1>7. CASE Fails(m)
  BY <1>7 DEF Fails, TypeOK, Stages, Working
<1>8. CASE CheckSteering(m)
  <2>1. nudged' \in BOOLEAN
    BY <1>8, Zenon DEF CheckSteering, TypeOK
  <2>2. stage' \in [Msgs -> Stages] /\ again' \in 0..MaxAgain
    <3>1. [Drained EXCEPT ![m] = "model"] \in [Msgs -> Stages]
      BY DEF Stages, Working
    <3>2. [stage EXCEPT ![m] = "model"] \in [Msgs -> Stages] /\ [stage EXCEPT ![m] = "emitting"] \in [Msgs -> Stages]
      BY DEF TypeOK, Stages, Working
    <3>3. stage' \in [Msgs -> Stages]
      BY <1>8, <3>1, <3>2 DEF CheckSteering
    <3>4. again' = again \/ (again < MaxAgain /\ again' = again + 1)
      BY <1>8 DEF CheckSteering
    <3> QED BY <3>3, <3>4 DEF TypeOK
  <2> QED BY <1>8, <2>1, <2>2 DEF CheckSteering, TypeOK
<1>9. CASE Emit(m)
  BY <1>9 DEF Emit, TypeOK, Stages, Working
<1> QED BY <1>1, <1>2, <1>3, <1>4, <1>5, <1>6, <1>7, <1>8, <1>9 DEF Quiet

LEMMA CallTypes ==
  ASSUME TypeOK, CardsOK, NEW m \in Msgs,
         ReadState(m) \/ Resume(m) \/ RunCall(m) \/ MakesCalls(m) \/ End(m)
  PROVE  TypeOK'
<1> USE DEF graph, relay, elsewhere
<1>1. CASE ReadState(m)
  <2>1. Tell(m, "told") \in [Msgs -> Outs]
    BY TellType DEF Outs
  <2>2. stage' \in [Msgs -> Stages] /\ seen' \in [Msgs -> Card \cup {NoCard}] /\ out' \in [Msgs -> Outs]
    <3>1. /\ stage' = [stage EXCEPT ![m] = "ending"] \/ stage' = [stage EXCEPT ![m] = "ready"]
          /\ seen' = seen \/ seen' = [seen EXCEPT ![m] = card]
          /\ out' = out \/ out' = Tell(m, "told")
      BY <1>1, Zenon DEF ReadState
    <3>2. /\ stage \in [Msgs -> Stages] /\ "ending" \in Stages /\ "ready" \in Stages
          /\ seen \in [Msgs -> Card \cup {NoCard}] /\ card \in Card \cup {NoCard}
          /\ out \in [Msgs -> Outs]
      BY DEF TypeOK, Stages, Working
    <3>3. stage' \in [Msgs -> Stages]
      BY <3>1, <3>2
    <3>4. seen' \in [Msgs -> Card \cup {NoCard}]
      BY <3>1, <3>2
    <3> QED BY <2>1, <3>1, <3>2, <3>3, <3>4
  <2> QED BY <1>1, <2>2 DEF ReadState, TypeOK
<1>2. CASE Resume(m)
  <2>1. PICK now \in SUBSET seen[m].step :
          \/ UNCHANGED <<run, card, regated>> /\ out' = Tell(m, "error")
          \/ /\ run' = [run EXCEPT ![m] = ToRun(m, now)]
             /\ card' = NoCard /\ regated' \in BOOLEAN /\ UNCHANGED out
    BY <1>2 DEF Resume
  <2>2. ToRun(m, now) \in SUBSET Calls
    <3>1. seen[m] \in Card
      BY <1>2 DEF Resume, TypeOK
    <3>2. ToRun(m, now) \subseteq seen[m].step
      BY ToRunIsInStep DEF CardsOK, Asked
    <3> QED BY <3>1, <3>2 DEF Card
  <2>3. run' \in [Msgs -> SUBSET Calls] /\ card' \in Card \cup {NoCard} /\ out' \in [Msgs -> Outs]
        /\ regated' \in BOOLEAN
    <3>1. Tell(m, "error") \in [Msgs -> Outs]
      BY TellType DEF Outs
    <3>0. run \in [Msgs -> SUBSET Calls] /\ card \in Card \cup {NoCard} /\ out \in [Msgs -> Outs]
      BY DEF TypeOK
    <3>4. ASSUME UNCHANGED <<run, card>>, out' = Tell(m, "error")
          PROVE  run' \in [Msgs -> SUBSET Calls] /\ card' \in Card \cup {NoCard} /\ out' \in [Msgs -> Outs]
      BY <3>0, <3>1, <3>4
    <3>5. ASSUME run' = [run EXCEPT ![m] = ToRun(m, now)], card' = NoCard, UNCHANGED out
          PROVE  run' \in [Msgs -> SUBSET Calls] /\ card' \in Card \cup {NoCard} /\ out' \in [Msgs -> Outs]
      BY <2>2, <3>0, <3>5
    <3>2. run' \in [Msgs -> SUBSET Calls] /\ card' \in Card \cup {NoCard} /\ out' \in [Msgs -> Outs]
      BY <2>1, <3>4, <3>5
    <3>3. regated' \in BOOLEAN
      BY <2>1, Zenon DEF TypeOK
    <3> QED BY <3>2, <3>3
  <2>4. stage' \in [Msgs -> Stages] /\ seen' \in [Msgs -> Card \cup {NoCard}]
    BY <1>2 DEF Resume, TypeOK, Stages, Working
  <2> QED BY <1>2, <2>3, <2>4 DEF Resume, TypeOK
<1>3. CASE RunCall(m)
  BY <1>3 DEF RunCall, TypeOK
<1>4. CASE MakesCalls(m)
  <2>1. PICK n \in Calls :
          /\ used' = used \cup ((1..n) \ used)
          /\ \/ /\ run' = [run EXCEPT ![m] = (1..n) \ used]
                /\ UNCHANGED <<card, asker, out>>
             \/ \E gated \in SUBSET ((1..n) \ used) \ {{}} :
                /\ card' = [by |-> m, owner |-> msg[m].from, step |-> (1..n) \ used, asked |-> gated]
                /\ asker' = [c \in Calls |-> IF c \in gated THEN msg[m].from ELSE asker[c]]
                /\ out' = Tell(m, "asked")
                /\ UNCHANGED run
    BY <1>4 DEF MakesCalls
  <2>2. msg[m].from \in Users
    BY DEF TypeOK, Message
  <2>3. run' \in [Msgs -> SUBSET Calls] /\ card' \in Card \cup {NoCard}
        /\ asker' \in [Calls -> Users \cup {Nobody}] /\ out' \in [Msgs -> Outs] /\ used' \subseteq Calls
    <3>1. Tell(m, "asked") \in [Msgs -> Outs]
      BY TellType DEF Outs
    <3>2. 1..n \subseteq Calls /\ (1..n) \ used \in SUBSET Calls
      OBVIOUS
    <3>3. CASE run' = [run EXCEPT ![m] = (1..n) \ used] /\ UNCHANGED <<card, asker, out>>
      BY <2>1, <3>2, <3>3 DEF TypeOK
    <3>4. ASSUME NEW gated \in SUBSET ((1..n) \ used),
                 card' = [by |-> m, owner |-> msg[m].from, step |-> (1..n) \ used, asked |-> gated],
                 asker' = [c \in Calls |-> IF c \in gated THEN msg[m].from ELSE asker[c]],
                 out' = Tell(m, "asked"), UNCHANGED run
          PROVE  /\ run' \in [Msgs -> SUBSET Calls] /\ card' \in Card \cup {NoCard}
                 /\ asker' \in [Calls -> Users \cup {Nobody}] /\ out' \in [Msgs -> Outs]
      <4>1. run \in [Msgs -> SUBSET Calls] /\ asker \in [Calls -> Users \cup {Nobody}]
        BY DEF TypeOK
      <4>2. card' \in Card
        BY <2>2, <3>2, <3>4 DEF Card
      <4>3. asker' \in [Calls -> Users \cup {Nobody}]
        BY <2>2, <3>4, <4>1
      <4> QED BY <3>1, <3>4, <4>1, <4>2, <4>3
    <3>5. used' \subseteq Calls
      BY <2>1, <3>2 DEF TypeOK
    <3> QED BY <2>1, <3>2, <3>3, <3>4, <3>5
  <2>4. stage' \in [Msgs -> Stages]
    BY <1>4 DEF MakesCalls, TypeOK, Stages, Working
  <2> QED BY <1>4, <2>3, <2>4 DEF MakesCalls, TypeOK
<1>5. CASE End(m)
  <2>1. msg' \in [Msgs -> Message] /\ stage' \in [Msgs -> Stages]
    BY <1>5, ForgetType, DrainedType DEF End, Stages
  <2>2. run' \in [Msgs -> SUBSET Calls] /\ seen' \in [Msgs -> Card \cup {NoCard}]
    BY <1>5 DEF End, TypeOK
  <2>3. regated' \in BOOLEAN /\ nudged' \in BOOLEAN
    BY <1>5, Zenon DEF End
  <2>4. active' \in 0..MaxMsgs /\ accepted' \in 0..Depth /\ again' \in 0..MaxAgain
    BY <1>5 DEF End
  <2>5. UNCHANGED <<card, used, ran, asker, out, late, relayed, hand, cancel, entry, prompt, overlap>>
    BY <1>5 DEF End
  <2> QED BY <2>1, <2>2, <2>3, <2>4, <2>5 DEF TypeOK
<1> QED BY <1>1, <1>2, <1>3, <1>4, <1>5

-----------------------------------------------------------------------------
(* The one turn *)

\* A message that may answer the pending card.
Fits(k) ==
  /\ msg[k].from = card.owner
  /\ msg[k].says.kind = "click" =>
       msg[k].says.names = {} \/ msg[k].says.names \cap card.asked # {}

TurnOK(k) ==
  /\ stage[k] \in Working \cup {"wedged"} => active = k
  /\ run[k] # {} => stage[k] \in {"tools", "ending", "wedged"} /\ card = NoCard
  /\ seen[k] # NoCard => stage[k] \in {"ready", "ending", "wedged"}
  /\ stage[k] = "ready" => seen[k] = card /\ (card # NoCard => Fits(k))
  /\ stage[k] \in {"tools", "model", "thinking", "completed", "emitting"} => card = NoCard
TurnInv == \A k \in Msgs : TurnOK(k)

\* A message that is no turn holds nothing, and stays so while another's turn
\* steps.
LEMMA OthersIdle ==
  ASSUME TypeOK, TurnInv, NEW m \in Msgs, NEW k \in Msgs, k # m, active \in {0, m},
         stage'[k] \in {stage[k], "done"}, run'[k] = run[k], seen'[k] = seen[k]
  PROVE  TurnOK(k)'
<1>1. stage[k] \notin Working \cup {"wedged"}
  BY DEF TurnInv, TurnOK
<1>2. run[k] = {} /\ seen[k] = NoCard
  BY <1>1 DEF TurnInv, TurnOK, Working
<1> QED BY <1>1, <1>2 DEF TurnOK, Working

\* A turn that is ended keeps what it holds.
LEMMA EndingKeeps ==
  ASSUME TypeOK, TurnInv, NEW m \in Msgs, stage[m] \in Working,
         stage'[m] \in {"ending", "wedged"}, UNCHANGED <<active, run, seen, card>>
  PROVE  TurnOK(m)'
BY DEF TurnInv, TurnOK, Working

\* A turn that holds nothing moves on.
LEMMA MovingOn ==
  ASSUME TypeOK, TurnInv, NEW m \in Msgs, stage[m] \in Working, run[m] = {}, seen[m] = NoCard,
         card = NoCard, stage'[m] \in Working \ {"ready"}, UNCHANGED <<active, run, seen, card>>
  PROVE  TurnOK(m)'
BY DEF TurnInv, TurnOK, Working

LEMMA QuietTurn ==
  ASSUME TypeOK, TurnInv, NEW m \in Msgs, Quiet(m)
  PROVE  TurnInv'
<1>1. UNCHANGED <<card, seen, run>>
  BY QuietTypes DEF graph
<1>2. CASE Receive(m)
  <2>1. CASE Free
    <3>1. active = 0 /\ active' = m /\ stage[m] = "wire" /\ stage' = [stage EXCEPT ![m] = "setup"]
      BY <1>2, <2>1 DEF Receive, Free
    <3>2. TurnOK(m)'
      BY <1>1, <3>1 DEF TurnInv, TurnOK, TypeOK, Working
    <3>3. ASSUME NEW k \in Msgs, k # m PROVE TurnOK(k)'
      BY <1>1, <3>1, <3>3, OthersIdle DEF TypeOK
    <3> QED BY <3>2, <3>3 DEF TurnInv
  <2>2. CASE ~Free
    <3>1. /\ active' = active /\ stage[m] = "wire" /\ msg' = Forget({m})
          /\ \E s \in {"queued", "done"} : stage' = [stage EXCEPT ![m] = s]
      BY <1>2, <2>2 DEF Receive
    <3>2. TurnOK(m)'
      BY <1>1, <3>1 DEF TurnInv, TurnOK, TypeOK, Working
    <3>3. ASSUME NEW k \in Msgs, k # m PROVE TurnOK(k)'
      <4>1. stage'[k] = stage[k] /\ msg'[k] = msg[k]
        BY <3>1, <3>3 DEF TypeOK, Forget
      <4> QED BY <1>1, <3>1, <4>1 DEF TurnInv, TurnOK, Fits
    <3> QED BY <3>2, <3>3 DEF TurnInv
  <2> QED BY <2>1, <2>2
<1>3. CASE ~Receive(m)
  <2>1. stage[m] \in Working /\ active = m /\ active' = active
    BY <1>3 DEF Quiet, SetupFails, Start, ToolsDone, BeforeModel, Completes, Fails, CheckSteering,
                Emit, TurnInv, TurnOK, Working
  <2>2. ASSUME NEW k \in Msgs, k # m PROVE stage'[k] \in {stage[k], "done"}
    BY <1>3, <2>2, DrainedType
    DEF Quiet, SetupFails, Start, ToolsDone, BeforeModel, Completes, Fails, CheckSteering, Emit, TypeOK
  <2>3. ASSUME NEW k \in Msgs, k # m PROVE TurnOK(k)'
    BY <1>1, <2>1, <2>2, <2>3, OthersIdle
  <2>4. CASE SetupFails(m) \/ Fails(m) \/ Emit(m)
    <3>1. stage'[m] \in {"ending", "wedged"}
      BY <2>4 DEF SetupFails, Fails, Emit, TypeOK
    <3> QED BY <1>1, <2>1, <2>3, <3>1, EndingKeeps DEF TurnInv
  <2>5. CASE Start(m) \/ ToolsDone(m) \/ BeforeModel(m) \/ Completes(m) \/ CheckSteering(m)
    <3>1. run[m] = {} /\ seen[m] = NoCard /\ card = NoCard
      BY <2>5 DEF Start, ToolsDone, BeforeModel, Completes, CheckSteering, TurnInv, TurnOK
    <3>2. stage'[m] \in Working \ {"ready"}
      BY <2>5, DrainedType
      DEF Start, ToolsDone, BeforeModel, Completes, CheckSteering, TypeOK, Working
    <3> QED BY <1>1, <2>1, <2>3, <3>1, <3>2, MovingOn DEF TurnInv
  <2> QED BY <1>3, <2>4, <2>5 DEF Quiet
<1> QED BY <1>2, <1>3

LEMMA CallTurn ==
  ASSUME TypeOK, TurnInv, NEW m \in Msgs,
         ReadState(m) \/ Resume(m) \/ RunCall(m) \/ MakesCalls(m) \/ End(m)
  PROVE  TurnInv'
<1>1. stage[m] \in Working /\ active = m
  BY DEF ReadState, Resume, RunCall, MakesCalls, End, TurnInv, TurnOK, Working
<1>2. ASSUME NEW k \in Msgs, k # m
      PROVE  stage'[k] \in {stage[k], "done"} /\ run'[k] = run[k] /\ seen'[k] = seen[k]
  BY <1>2, DrainedType DEF ReadState, Resume, RunCall, MakesCalls, End, TypeOK, graph
<1>3. ASSUME NEW k \in Msgs, k # m PROVE TurnOK(k)'
  BY <1>1, <1>2, <1>3, OthersIdle
<1>4. TurnOK(m)'
  <2>1. CASE ReadState(m)
    <3>1. stage[m] = "setup" /\ UNCHANGED <<active, run, card, msg>>
      BY <2>1 DEF ReadState, graph
    <3>2. CASE Foreign(m) \/ Stale(m)
      <4>1. stage'[m] = "ending" /\ seen' = seen
        BY <2>1, <3>2 DEF ReadState, TypeOK
      <4> QED BY <1>1, <3>1, <4>1, EndingKeeps
    <3>3. CASE ~(Foreign(m) \/ Stale(m))
      <4>1. stage'[m] = "ready" /\ seen'[m] = card
        BY <2>1, <3>3 DEF ReadState, TypeOK
      <4>2. card # NoCard => Fits(m)
        BY <3>3 DEF Foreign, Stale, Fits
      <4>3. run[m] = {}
        BY <3>1 DEF TurnInv, TurnOK
      <4> QED BY <1>1, <3>1, <4>1, <4>2, <4>3 DEF TurnOK, Fits
    <3> QED BY <3>2, <3>3
  <2>2. CASE Resume(m)
    <3>1. /\ stage[m] = "ready" /\ seen'[m] = NoCard /\ active' = active
          /\ \/ stage'[m] = "ending" /\ UNCHANGED <<run, card>>
             \/ stage'[m] = "tools" /\ card' = NoCard
      BY <2>2 DEF Resume, TypeOK
    <3> QED BY <1>1, <3>1 DEF TurnInv, TurnOK, Working
  <2>3. CASE RunCall(m)
    <3>1. stage[m] = "tools" /\ UNCHANGED <<stage, active, seen, card>>
      BY <2>3 DEF RunCall
    <3> QED BY <1>1, <3>1 DEF TurnInv, TurnOK
  <2>4. CASE MakesCalls(m)
    <3>1. /\ stage[m] = "thinking" /\ UNCHANGED <<active, seen>>
          /\ \/ stage'[m] = "tools" /\ UNCHANGED card
             \/ stage'[m] = "ending" /\ UNCHANGED run
      BY <2>4 DEF MakesCalls, TypeOK
    <3> QED BY <1>1, <3>1 DEF TurnInv, TurnOK
  <2>5. CASE End(m)
    <3>1. stage'[m] = "done" /\ run'[m] = {} /\ seen'[m] = NoCard
      BY <2>5, DrainedType DEF End, TypeOK
    <3> QED BY <3>1 DEF TurnOK, Working
  <2> QED BY <2>1, <2>2, <2>3, <2>4, <2>5
<1> QED BY <1>3, <1>4 DEF TurnInv

\* The console starts no turn and ends one only by cancelling it.
LEMMA ConsoleTurn ==
  ASSUME TypeOK, TurnInv, NEW m \in Msgs, Send(m) \/ CancelTask(m) \/ Relay(m)
  PROVE  TurnInv' /\ UNCHANGED <<graph, seen, run>>
<1>1. UNCHANGED <<active, graph, card, seen, run>>
  BY DEF Send, CancelTask, Relay, RelayEvent, StreamEnds, TearDown, CancelTurn, CancelLocal, exec, graph
<1>2. CASE Send(m)
  <2>1. stage[m] = "unsent" /\ stage' = [stage EXCEPT ![m] = "wire"]
    BY <1>2 DEF Send, NextMsg
  <2>2. ASSUME NEW k \in Msgs, k # m PROVE msg'[k] = msg[k]
    BY <1>2, <2>2 DEF Send, TypeOK
  <2>3. TurnOK(m)'
    BY <1>1, <2>1 DEF TurnInv, TurnOK, TypeOK, Working
  <2>4. ASSUME NEW k \in Msgs, k # m PROVE TurnOK(k)'
    BY <1>1, <2>1, <2>2, <2>4 DEF TurnInv, TurnOK, Fits, TypeOK
  <2> QED BY <1>1, <2>3, <2>4 DEF TurnInv
<1>3. CASE CancelTurn(m)
  <2>1. msg' = msg /\ (stage' = stage \/ (stage[m] \in Working
          /\ \E s \in {"ending", "wedged"} : stage' = [stage EXCEPT ![m] = s]))
    BY <1>3 DEF CancelTurn, Working
  <2>2. CASE stage' = stage
    BY <1>1, <2>1, <2>2 DEF TurnInv, TurnOK, Fits
  <2>3. CASE stage' # stage
    <3>1. stage'[m] \in {"ending", "wedged"} /\ stage[m] \in Working
      BY <2>1, <2>3 DEF TypeOK
    <3>2. TurnOK(m)'
      BY <1>1, <3>1, EndingKeeps
    <3>3. ASSUME NEW k \in Msgs, k # m PROVE TurnOK(k)'
      BY <1>1, <2>1, <2>3, <3>3 DEF TurnInv, TurnOK, Fits, TypeOK
    <3> QED BY <1>1, <3>2, <3>3 DEF TurnInv
  <2> QED BY <2>2, <2>3
<1>4. CASE ~Send(m) /\ ~CancelTurn(m)
  <2>1. stage' = stage /\ msg' = msg
    BY <1>4 DEF CancelTask, Relay, RelayEvent, StreamEnds, TearDown, CancelLocal, exec
  <2> QED BY <1>1, <2>1 DEF TurnInv, TurnOK, Fits
<1> QED BY <1>2, <1>3, <1>4

-----------------------------------------------------------------------------
(* The calls *)

CallOK(c) ==
  ran[c] <= 1 /\ (ran[c] # 0 \/ asker[c] # Nobody => c \in used)
CardOK ==
  /\ card.step \subseteq used
  /\ \A c \in card.step :
       ran[c] = 0 /\ asker[c] = IF c \in card.asked THEN card.owner ELSE Nobody
Permitted(k, c) ==
  ~regated /\ asker[c] # Nobody => msg[k].from = asker[c] /\ Agrees(msg[k].says, c)
RunOK(k) == \A c \in run[k] : c \in used /\ ran[c] = 0 /\ Permitted(k, c)
CallInv  == /\ \A c \in Calls : CallOK(c)
            /\ CardOK
            /\ \A k \in Msgs : RunOK(k)

\* A step that leaves cards and calls alone, and the messages of turns.
LEMMA CallsKept ==
  ASSUME TypeOK, CardsOK, TurnInv, CallInv, UNCHANGED <<graph, seen, run>>,
         \A k \in Msgs : msg'[k] = msg[k] \/ stage[k] \in {"wire", "unsent"}
  PROVE  CardsOK' /\ CallInv'
<1>1. UNCHANGED <<card, used, ran, asker, regated, seen, run>>
  BY DEF graph
<1>2. ASSUME NEW k \in Msgs PROVE RunOK(k)'
  <2>1. CASE run[k] = {}
    BY <1>1, <2>1 DEF RunOK
  <2>2. CASE run[k] # {}
    <3>1. msg'[k] = msg[k]
      BY <2>2 DEF TurnInv, TurnOK
    <3> QED BY <1>1, <3>1 DEF CallInv, RunOK, Permitted
  <2> QED BY <2>1, <2>2
<1>3. CardsOK' /\ CardOK' /\ \A c \in Calls : CallOK(c)'
  BY <1>1 DEF CardsOK, CallInv, CardOK, CallOK, Asked
<1> QED BY <1>2, <1>3 DEF CallInv

\* Nobody but the registered turn holds calls.
LEMMA NobodyElseHolds ==
  ASSUME TurnInv, NEW m \in Msgs, stage[m] \in Working, NEW k \in Msgs, k # m
  PROVE  run[k] = {} /\ seen[k] = NoCard
BY DEF TurnInv, TurnOK, Working

\* What an answer lets run was approved by it.
LEMMA ResumePermits ==
  ASSUME TypeOK, CardsOK, CallInv, NEW m \in Msgs, seen[m] = card, Fits(m),
         NEW c \in ToRun(m, card.asked), asker[c] # Nobody
  PROVE  msg[m].from = asker[c] /\ Agrees(msg[m].says, c)
<1>1. c \in card.step
  BY ToRunIsInStep DEF CardsOK, Asked
<1>2. asker[c] = card.owner /\ c \in card.asked
  BY <1>1 DEF CallInv, CardOK
<1>3. c \in Approved(msg[m].says, card.asked)
  BY <1>2 DEF ToRun
<1>4. msg[m].says.kind \in {"talk", "yes", "click"}
  BY DEF TypeOK, Message, Says
<1>5. Agrees(msg[m].says, c)
  BY <1>3, <1>4 DEF Approved, Agrees
<1> QED BY <1>2, <1>5 DEF Fits

LEMMA CallStep ==
  ASSUME TypeOK, CardsOK, TurnInv, CallInv, NEW m \in Msgs,
         ReadState(m) \/ Resume(m) \/ RunCall(m) \/ MakesCalls(m) \/ End(m)
  PROVE  CardsOK' /\ CallInv'
<1>0. stage[m] \in Working
  BY DEF ReadState, Resume, RunCall, MakesCalls, End, Working
<1>1. ASSUME NEW k \in Msgs, k # m PROVE run[k] = {} /\ seen[k] = NoCard
  BY <1>0, <1>1, NobodyElseHolds
<1>2. Asked(NoCard)
  BY DEF Asked, NoCard
<1>3. CASE ReadState(m)
  <2>1. UNCHANGED <<card, used, ran, asker, regated, run, msg>>
        /\ (seen' = seen \/ seen' = [seen EXCEPT ![m] = card])
    BY <1>3 DEF ReadState, graph
  <2>2. CardsOK'
    BY <2>1 DEF CardsOK, Asked, TypeOK
  <2>3. CallInv'
    BY <2>1 DEF CallInv, CallOK, CardOK, RunOK, Permitted
  <2> QED BY <2>2, <2>3
<1>4. CASE Resume(m)
  <2>1. /\ stage[m] = "ready" /\ seen[m] # NoCard /\ seen' = [seen EXCEPT ![m] = NoCard]
        /\ UNCHANGED <<used, ran, asker, msg>>
    BY <1>4 DEF Resume
  <2>2. seen[m] = card /\ Fits(m)
    BY <2>1 DEF TurnInv, TurnOK
  <2>3. CASE UNCHANGED <<run, card, regated>>
    <3>1. CardsOK'
      BY <1>2, <2>1, <2>3 DEF CardsOK, Asked, TypeOK
    <3>2. CallInv'
      BY <2>1, <2>3 DEF CallInv, CallOK, CardOK, RunOK, Permitted
    <3> QED BY <3>1, <3>2
  <2>4. ASSUME NEW now \in SUBSET seen[m].step,
               run' = [run EXCEPT ![m] = ToRun(m, now)], card' = NoCard,
               regated' = (now # seen[m].asked)
        PROVE  CardsOK' /\ CallInv'
    <3>1. CardsOK'
      BY <1>2, <2>1, <2>4 DEF CardsOK, Asked, TypeOK
    <3>2. CardOK'
      BY <2>4 DEF CardOK, NoCard
    <3>3. RunOK(m)'
      <4> SUFFICES ASSUME NEW c \in ToRun(m, now)
                   PROVE  c \in used' /\ ran'[c] = 0 /\ Permitted(m, c)'
        BY <2>4 DEF RunOK, TypeOK
      <4>1. c \in card.step
        BY <2>2, ToRunIsInStep DEF CardsOK, Asked
      <4>1a. c \in used /\ ran[c] = 0
        BY <4>1 DEF CallInv, CardOK
      <4>2. ~regated' => now = card.asked
        BY <2>2, <2>4
      <4>3. Permitted(m, c)'
        BY <2>1, <2>2, <4>2, ResumePermits DEF Permitted
      <4> QED BY <2>1, <4>1a, <4>3
    <3>4. ASSUME NEW k \in Msgs, k # m PROVE RunOK(k)'
      BY <1>1, <2>4, <3>4 DEF RunOK, TypeOK
    <3>5. \A c \in Calls : CallOK(c)'
      BY <2>1 DEF CallInv, CallOK
    <3> QED BY <3>1, <3>2, <3>3, <3>4, <3>5 DEF CallInv
  <2> QED BY <1>4, <2>3, <2>4 DEF Resume
<1>5. CASE RunCall(m)
  <2>1. PICK c \in run[m] :
          /\ run' = [run EXCEPT ![m] = @ \ {c}]
          /\ ran' = [ran EXCEPT ![c] = IF @ < 2 THEN @ + 1 ELSE @]
    BY <1>5 DEF RunCall
  <2>2. card = NoCard /\ UNCHANGED <<card, used, asker, regated, seen, msg>>
    BY <1>5 DEF RunCall, TurnInv, TurnOK
  <2>3. c \in Calls /\ c \in used /\ ran[c] = 0
    BY <2>1 DEF CallInv, RunOK, TypeOK
  <2>4. ran' = [ran EXCEPT ![c] = 1]
    BY <2>1, <2>3 DEF TypeOK
  <2>5. CardsOK' /\ CardOK'
    BY <2>2 DEF CardsOK, CardOK, NoCard, Asked
  <2>6. \A d \in Calls : CallOK(d)'
    BY <2>2, <2>3, <2>4 DEF CallInv, CallOK, TypeOK
  <2>7. RunOK(m)'
    BY <2>1, <2>2, <2>3, <2>4 DEF CallInv, RunOK, Permitted, TypeOK
  <2>8. ASSUME NEW k \in Msgs, k # m PROVE RunOK(k)'
    BY <1>1, <2>1, <2>8 DEF RunOK, TypeOK
  <2> QED BY <2>5, <2>6, <2>7, <2>8 DEF CallInv
<1>6. CASE MakesCalls(m)
  <2>1. PICK n \in Calls :
          /\ used' = used \cup ((1..n) \ used)
          /\ \/ /\ run' = [run EXCEPT ![m] = (1..n) \ used]
                /\ UNCHANGED <<card, asker>>
             \/ \E gated \in SUBSET ((1..n) \ used) :
                /\ card' = [by |-> m, owner |-> msg[m].from, step |-> (1..n) \ used, asked |-> gated]
                /\ asker' = [c \in Calls |-> IF c \in gated THEN msg[m].from ELSE asker[c]]
                /\ UNCHANGED run
    BY <1>6 DEF MakesCalls
  <2> DEFINE S == (1..n) \ used
  <2>2. card = NoCard /\ run[m] = {} /\ UNCHANGED <<seen, ran, regated, msg>>
    BY <1>6 DEF MakesCalls, TurnInv, TurnOK
  <2>3. \A c \in S : c \in Calls /\ c \in used' /\ ran[c] = 0 /\ asker[c] = Nobody
    BY <2>1 DEF CallInv, CallOK
  <2>4. CASE run' = [run EXCEPT ![m] = S] /\ UNCHANGED <<card, asker>>
    <3>1. CardsOK' /\ CardOK' /\ \A c \in Calls : CallOK(c)'
      BY <2>1, <2>2, <2>4 DEF CardsOK, Asked, CallInv, CardOK, CallOK
    <3>2. RunOK(m)'
      BY <2>2, <2>3, <2>4 DEF RunOK, Permitted, TypeOK
    <3>3. ASSUME NEW k \in Msgs, k # m PROVE RunOK(k)'
      BY <1>1, <2>4, <3>3 DEF RunOK, TypeOK
    <3> QED BY <3>1, <3>2, <3>3 DEF CallInv
  <2>5. ASSUME NEW gated \in SUBSET S,
               card' = [by |-> m, owner |-> msg[m].from, step |-> S, asked |-> gated],
               asker' = [c \in Calls |-> IF c \in gated THEN msg[m].from ELSE asker[c]],
               UNCHANGED run
        PROVE  CardsOK' /\ CallInv'
    <3>1. CardsOK'
      BY <2>2, <2>5 DEF CardsOK, Asked
    <3>2. CardOK'
      BY <2>1, <2>2, <2>3, <2>5 DEF CardOK
    <3>3. \A c \in Calls : CallOK(c)'
      BY <2>1, <2>2, <2>3, <2>5 DEF CallInv, CallOK
    <3>4. \A k \in Msgs : RunOK(k)'
      BY <1>1, <2>2, <2>5 DEF RunOK
    <3> QED BY <3>1, <3>2, <3>3, <3>4 DEF CallInv
  <2> QED BY <2>1, <2>4, <2>5
<1>7. CASE End(m)
  <2>1. /\ run' = [run EXCEPT ![m] = {}] /\ seen' = [seen EXCEPT ![m] = NoCard]
        /\ UNCHANGED <<card, used, ran, asker>>
    BY <1>7 DEF End
  <2>2. CardsOK' /\ CardOK' /\ \A c \in Calls : CallOK(c)'
    BY <1>2, <2>1 DEF CardsOK, Asked, CallInv, CardOK, CallOK, TypeOK
  <2>3. \A k \in Msgs : RunOK(k)'
    BY <1>1, <2>1 DEF RunOK, TypeOK
  <2> QED BY <2>2, <2>3 DEF CallInv
<1> QED BY <1>3, <1>4, <1>5, <1>6, <1>7

-----------------------------------------------------------------------------
(* The theorems *)

Inv == TypeOK /\ CardsOK /\ TurnInv /\ CallInv

LEMMA InvStep == Inv /\ [Next]_vars => Inv'
<1> SUFFICES ASSUME Inv, [Next]_vars PROVE Inv'
  OBVIOUS
<1> USE DEF Inv
<1>1. CASE UNCHANGED vars
  BY <1>1 DEF vars, exec, graph, relay, TypeOK, CardsOK, Asked, TurnInv, TurnOK, Fits,
              CallInv, CallOK, CardOK, RunOK, Permitted
<1>2. ASSUME NEW m \in Msgs, Quiet(m) PROVE Inv'
  <2>1. \A k \in Msgs : msg'[k] = msg[k] \/ stage[k] \in {"wire", "unsent"}
    BY <1>2 DEF Quiet, Receive, SetupFails, Start, ToolsDone, BeforeModel, Completes, Fails,
                CheckSteering, Emit, Forget, TypeOK
  <2> QED BY <1>2, <2>1, QuietTypes, QuietTurn, CallsKept
<1>3. ASSUME NEW m \in Msgs, ReadState(m) \/ Resume(m) \/ RunCall(m) \/ MakesCalls(m) \/ End(m)
      PROVE  Inv'
  BY <1>3, CallTypes, CallTurn, CallStep
<1>4. ASSUME NEW m \in Msgs, Send(m) \/ CancelTask(m) \/ Relay(m) PROVE Inv'
  <2>1. \A k \in Msgs : msg'[k] = msg[k] \/ stage[k] \in {"wire", "unsent"}
    BY <1>4 DEF Send, NextMsg, CancelTask, Relay, RelayEvent, StreamEnds, TearDown, CancelTurn,
                CancelLocal, TypeOK
  <2>2. TypeOK'
    BY <1>4, ConsoleTypes, RelayTypes
  <2> QED BY <1>4, <2>1, <2>2, ConsoleTurn, CallsKept
<1> QED BY <1>1, <1>2, <1>3, <1>4 DEF Next, Turn, Quiet

LEMMA InitInv == Init => Inv
<1> SUFFICES ASSUME Init PROVE Inv
  OBVIOUS
<1>1. TurnInv
  BY DEF Init, TurnInv, TurnOK, Working
<1>2. CallInv
  BY DEF Init, CallInv, CallOK, CardOK, RunOK, NoCard
<1> QED BY <1>1, <1>2, InitTypes DEF Inv

\* The invariant holds in every state, whatever the order of messages, turns,
\* clicks, cancellations and failures.
THEOREM TurnsInvariant == Spec => []Inv
BY InitInv, InvStep, PTL DEF Spec

\* executor.py 741-792, 1278-1513: all states are well formed.
THEOREM TurnTypes == Spec => []TypeOK
BY TurnsInvariant, PTL DEF Inv

\* executor.py 741, 376; conditional_hitl.py 982: however messages and clicks
\* meet the turn that runs, a call is executed at most once.
THEOREM CallsRunOnce == Spec => []RunsOnce
<1>1. Inv => RunsOnce
  BY DEF Inv, CallInv, CallOK, RunsOnce
<1> QED BY <1>1, TurnsInvariant, PTL

\* executor.py 284-318: a call somebody was asked about runs with that
\* speaker's agreement only.
THEOREM RunsAreApproved == Spec => []OnlyApprovedRuns
<1>1. Inv => OnlyApprovedRuns
  BY DEF Inv, CallInv, RunOK, Permitted, OnlyApprovedRuns
<1> QED BY <1>1, TurnsInvariant, PTL

\* executor.py 309-374: only its answer takes a pending card away.
THEOREM AsksAreAnswered == Spec => AskIsAnswered
<1> DEFINE Answer == card # NoCard /\ card' # card =>
             \E m \in Msgs : stage[m] = "ready" /\ Fits(m)
<1>1. Inv /\ [Next]_vars => Answer
  <2> SUFFICES ASSUME Inv, [Next]_vars, card # NoCard, card' # card
               PROVE  \E m \in Msgs : stage[m] = "ready" /\ Fits(m)
    OBVIOUS
  <2>1. PICK m \in Msgs : Send(m) \/ CancelTask(m) \/ Turn(m) \/ Relay(m)
    BY DEF Next, vars, graph
  <2>2. CASE Resume(m)
    BY <2>2 DEF Resume, Inv, TurnInv, TurnOK
  <2>3. CASE MakesCalls(m)
    BY <2>3 DEF MakesCalls, Inv, TurnInv, TurnOK
  <2>4. CASE Quiet(m)
    BY <2>4, QuietTypes DEF Inv, graph
  <2>5. CASE Send(m) \/ CancelTask(m) \/ Relay(m)
    BY <2>5, ConsoleTurn DEF Inv, graph
  <2>6. CASE ReadState(m) \/ RunCall(m) \/ End(m)
    BY <2>6 DEF ReadState, RunCall, End, graph
  <2> QED BY <2>1, <2>2, <2>3, <2>4, <2>5, <2>6 DEF Turn, Quiet
<1>2. Inv /\ [Next]_vars =>
        [card # NoCard /\ card' # card =>
           \E m \in Msgs :
             /\ stage[m] = "ready"
             /\ msg[m].from = card.owner
             /\ msg[m].says.kind = "click" =>
                  msg[m].says.names = {} \/ msg[m].says.names \cap card.asked # {}]_vars
  BY <1>1 DEF Fits
<1> QED BY <1>2, TurnsInvariant, PTL DEF Spec, AskIsAnswered

-----------------------------------------------------------------------------
(* The prompt *)

\* The stages of a message that has not been answered.
Fresh   == (Working \cup {"unsent", "wire"}) \ {"ending"}
\* A turn the console relayed that the orchestrator has before it.
Live(m) == hand[m] \notin {"none", "steer"} /\ stage[m] \in Fresh \ {"unsent"}

OutInv   == /\ \A m \in Msgs : stage[m] \in Fresh => out[m] = "none"
            /\ \A m \in Msgs : hand[m] \in {"told", "over"} => out[m] # "none"
EntryInv == \A m \in Msgs : hand[m] \in {"turn", "told"} /\ cancel[m] = "no" => entry = m
SteerInv == ~late => \A m \in Msgs : hand[m] = "steer" => stage[m] \notin Working
HandInv  == /\ ~relayed => prompt = 0 /\ entry = 0 /\ \A m \in Msgs : hand[m] = "none"
            /\ relayed => \A m \in Msgs : hand[m] = "none" => stage[m] = "unsent"
OneLive  == ~overlap => \A k, m \in Msgs : Live(k) /\ Live(m) => k = m
Asking(m) == prompt = m \/ (hand[m] = "turn" /\ out[m] = "asked")
AskInv   == ~late /\ ~overlap => \A m \in Msgs : Asking(m) =>
              card.by = m /\ \A k \in Msgs : ~Live(k)
RelayInv == OutInv /\ EntryInv /\ SteerInv /\ HandInv /\ OneLive /\ AskInv

LEMMA InitRelay == Init => RelayInv
BY DEF Init, RelayInv, OutInv, EntryInv, SteerInv, HandInv, OneLive, AskInv, Asking, Live, Fresh, Working

\* The console's steps on a turn it has relayed leave the orchestrator alone.
LEMMA HandlerRelay ==
  ASSUME TypeOK, RelayInv, NEW m \in Msgs,
         RelayEvent(m) \/ StreamEnds(m) \/ TearDown(m) \/ CancelTask(m) \/ CancelLocal(m)
  PROVE  RelayInv'
<1> USE DEF RelayInv
<1>1. UNCHANGED <<relayed, stage, out, card, late, overlap>>
  BY DEF RelayEvent, StreamEnds, TearDown, CancelTask, CancelLocal, exec, graph
<1>2. entry = 0 \/ entry \in Msgs
  BY DEF TypeOK
<1>3. /\ hand[m] \notin {"none", "steer"} \/ hand'[m] = hand[m]
      /\ hand[m] \notin {"none", "steer"} => hand'[m] \notin {"none", "steer"}
      /\ \A k \in Msgs : k # m => hand'[k] = hand[k]
  BY DEF RelayEvent, StreamEnds, TearDown, CancelTask, CancelLocal, TypeOK
<1>4. \A k \in Msgs : Live(k)' = Live(k)
  BY <1>1, <1>3 DEF Live
<1>5. OutInv' /\ OneLive' /\ SteerInv'
  <2>1. hand'[m] \in {"told", "over"} => out[m] # "none"
    BY DEF RelayEvent, StreamEnds, TearDown, CancelTask, CancelLocal, OutInv, TypeOK
  <2> QED BY <1>1, <1>3, <1>4, <2>1 DEF OutInv, OneLive, SteerInv
<1>6. EntryInv'
  <2>1. \A k \in Msgs : k # m => hand'[k] = hand[k] /\ cancel'[k] = cancel[k]
    BY <1>3 DEF RelayEvent, StreamEnds, TearDown, CancelTask, CancelLocal, TypeOK
  <2>2. ASSUME NEW k \in Msgs, k # m, hand[k] \in {"turn", "told"}, cancel[k] = "no"
        PROVE  entry' = k
    <3>1. entry = k
      BY <2>2 DEF EntryInv
    <3> QED BY <2>2, <3>1 DEF RelayEvent, StreamEnds, TearDown, EntryAfter, CancelTask, CancelLocal
  <2>3. ASSUME hand'[m] \in {"turn", "told"}, cancel'[m] = "no"
        PROVE  entry' = m
    <3>1. CASE RelayEvent(m)
      BY <2>3, <3>1 DEF RelayEvent, EntryInv
    <3>2. CASE ~RelayEvent(m)
      BY <2>3, <3>2 DEF StreamEnds, TearDown, CancelTask, CancelLocal, TypeOK
    <3> QED BY <3>1, <3>2
  <2> QED BY <2>1, <2>2, <2>3 DEF EntryInv
<1>7. HandInv'
  <2>1. CASE relayed
    BY <1>1, <1>3, <2>1 DEF HandInv
  <2>2. CASE ~relayed
    <3>1. hand[m] = "none" /\ entry # m
      BY <2>2 DEF HandInv
    <3>2. hand' = hand /\ UNCHANGED <<prompt, entry>>
      BY <3>1 DEF RelayEvent, StreamEnds, TearDown, CancelTask, CancelLocal, TypeOK
    <3> QED BY <1>1, <2>2, <3>2 DEF HandInv
  <2> QED BY <2>1, <2>2
<1>8. AskInv'
  <2>1. ASSUME NEW k \in Msgs, Asking(k)' PROVE Asking(k)
    <3>1. prompt' \in {0, prompt} \/ (hand[m] = "turn" /\ out[m] = "asked" /\ prompt' = m)
      BY DEF RelayEvent, StreamEnds, TearDown, CancelTask, CancelLocal
    <3>2. hand'[k] = "turn" => hand[k] = "turn"
      BY DEF RelayEvent, StreamEnds, TearDown, CancelTask, CancelLocal, TypeOK
    <3> QED BY <1>1, <2>1, <3>1, <3>2 DEF Asking
  <2> QED BY <1>1, <1>4, <2>1 DEF AskInv
<1> QED BY <1>5, <1>6, <1>7, <1>8

\* A message is relayed as a turn only when no other is, or else it overlaps.
LEMMA SendRelay ==
  ASSUME TypeOK, RelayInv, NEW m \in Msgs, Send(m)
  PROVE  RelayInv'
<1> USE DEF RelayInv
<1>1. /\ stage[m] = "unsent" /\ stage' = [stage EXCEPT ![m] = "wire"]
      /\ UNCHANGED <<relayed, out, card, late, cancel>>
  BY DEF Send, NextMsg, relay, graph
<1>2. out[m] = "none"
  BY <1>1 DEF OutInv, Fresh
<1>3. CASE ~relayed
  <2>1. UNCHANGED <<hand, entry, prompt, overlap>>
    BY <1>3 DEF Send, relay
  <2>2. \A k \in Msgs : ~Live(k) /\ ~Live(k)'
    BY <1>3, <2>1 DEF HandInv, Live
  <2> QED BY <1>1, <1>2, <1>3, <2>1, <2>2
          DEF OutInv, EntryInv, SteerInv, HandInv, OneLive, AskInv, Asking, Fresh, Working, TypeOK
<1>4. CASE relayed /\ hand' = [hand EXCEPT ![m] = "steer"] /\ UNCHANGED <<entry, prompt, overlap>>
  <2>1. \A k \in Msgs : Live(k)' => Live(k)
    BY <1>1, <1>4 DEF Live, TypeOK
  <2>2. OutInv' /\ EntryInv' /\ SteerInv' /\ HandInv'
    BY <1>1, <1>2, <1>4 DEF OutInv, EntryInv, SteerInv, HandInv, Fresh, Working, TypeOK
  <2>3. OneLive' /\ AskInv'
    BY <1>1, <1>4, <2>1 DEF OneLive, AskInv, Asking, TypeOK
  <2> QED BY <2>2, <2>3
<1>5. CASE /\ relayed /\ (entry = 0 \/ hand[entry] = "over")
           /\ hand' = [hand EXCEPT ![m] = "turn"]
           /\ entry' = m /\ prompt' = 0
           /\ overlap' = (overlap \/ \E k \in Msgs : Straggles(k))
  <2>1. ASSUME NEW k \in Msgs, k # m, Live(k)' PROVE overlap'
    <3>1. Live(k) /\ hand[k] \in Hands
      BY <1>1, <1>5, <2>1 DEF Live, TypeOK
    <3>2. hand[k] \in {"turn", "cancelled", "done"}
      BY <3>1 DEF Live, OutInv, Hands
    <3>3. hand[k] = "turn" => cancel[k] # "no"
      BY <1>5 DEF EntryInv
    <3>4. Straggles(k)
      BY <3>1, <3>2, <3>3 DEF Straggles, Live, Fresh
    <3> QED BY <1>5, <3>4
  <2>2. ASSUME NEW k \in Msgs, k # m, hand[k] \in {"turn", "told"} PROVE cancel[k] # "no"
    BY <1>5, <2>2 DEF EntryInv
  <2>3. OutInv' /\ HandInv' /\ SteerInv'
    BY <1>1, <1>2, <1>5 DEF OutInv, SteerInv, HandInv, Fresh, Working, TypeOK
  <2>4. EntryInv'
    BY <1>1, <1>5, <2>2 DEF EntryInv, TypeOK
  <2>5. OneLive'
    BY <2>1 DEF OneLive
  <2>6. AskInv'
    <3>1. ASSUME NEW k \in Msgs, Asking(k)' PROVE overlap'
      <4>1. k # m /\ hand[k] = "turn"
        BY <1>1, <1>2, <1>5, <3>1 DEF Asking, TypeOK
      <4>2. Straggles(k)
        BY <2>2, <4>1 DEF Straggles
      <4> QED BY <1>5, <4>2
    <3> QED BY <3>1 DEF AskInv
  <2> QED BY <2>3, <2>4, <2>5, <2>6
<1> QED BY <1>3, <1>4, <1>5 DEF Send, Answered

\* What a step of the orchestrator may do to what the console sees.
LEMMA TurnFacts ==
  ASSUME Inv, NEW m \in Msgs, Turn(m) \/ CancelTurn(m)
  PROVE  /\ UNCHANGED <<relayed, hand, entry, prompt, overlap>>
         /\ \A k \in Msgs : stage'[k] \in Fresh =>
              /\ stage[k] \in Fresh /\ out'[k] = out[k]
              /\ stage'[k] = "unsent" <=> stage[k] = "unsent"
         /\ \A k \in Msgs : stage'[k] = "unsent" <=> stage[k] = "unsent"
         /\ \A k \in Msgs : out'[k] = out[k] \/ out'[k] # "none"
         /\ late => late'
         /\ ~late' => \A k \in Msgs : hand[k] = "steer" /\ stage'[k] \in Working => stage[k] \in Working
         /\ \A k \in Msgs : cancel'[k] = "no" => cancel[k] = "no"
         /\ card' = card \/ stage[m] \in {"ready", "thinking"}
         /\ \A k \in Msgs : out'[k] = "asked" => out[k] = "asked" \/
              (k = m /\ stage[m] = "thinking" /\ card'.by = m /\ stage'[m] = "ending" /\ hand[m] = "turn")
<1> USE DrainedType DEF Inv, elsewhere, relay, graph, Fresh, Working, Tell, TypeOK
<1>1. CASE Receive(m)
  <2>1. CASE Free
    BY <1>1, <2>1 DEF Receive
  <2>2. CASE ~Free
    BY <1>1, <2>2 DEF Receive
  <2> QED BY <2>1, <2>2
<1>2. CASE SetupFails(m) \/ Fails(m) \/ Emit(m)
  <2>1. CASE SetupFails(m)
    BY <2>1 DEF SetupFails
  <2>2. CASE Fails(m)
    BY <2>2 DEF Fails
  <2>3. CASE Emit(m)
    BY <2>3 DEF Emit
  <2> QED BY <1>2, <2>1, <2>2, <2>3
<1>3. CASE Start(m) \/ ToolsDone(m) \/ Completes(m) \/ RunCall(m)
  BY <1>3 DEF Start, ToolsDone, Completes, RunCall
<1>4. CASE BeforeModel(m) \/ CheckSteering(m)
  BY <1>4, ZenonT(60) DEF BeforeModel, CheckSteering
<1>5. CASE ReadState(m)
  BY <1>5 DEF ReadState
<1>6. CASE Resume(m)
  BY <1>6 DEF Resume
<1>7. CASE MakesCalls(m)
  <2>1. stage[m] = "thinking" /\ UNCHANGED <<relayed, hand, cancel, entry, prompt, overlap, late>>
    BY <1>7 DEF MakesCalls
  <2>2. \/ stage' = [stage EXCEPT ![m] = "tools"] /\ UNCHANGED <<card, out>>
        \/ /\ card'.by = m /\ stage' = [stage EXCEPT ![m] = "ending"]
           /\ out' = IF hand[m] = "turn" THEN [out EXCEPT ![m] = "asked"] ELSE out
    BY <1>7 DEF MakesCalls
  <2>3. CASE stage' = [stage EXCEPT ![m] = "tools"] /\ UNCHANGED <<card, out>>
    BY <2>1, <2>3
  <2>4. CASE /\ card'.by = m /\ stage' = [stage EXCEPT ![m] = "ending"]
             /\ out' = IF hand[m] = "turn" THEN [out EXCEPT ![m] = "asked"] ELSE out
    BY <2>1, <2>4
  <2> QED BY <2>2, <2>3, <2>4
<1>8. CASE End(m)
  BY <1>8 DEF End
<1>9. CASE CancelTurn(m)
  BY <1>9 DEF CancelTurn
<1> QED BY <1>1, <1>2, <1>3, <1>4, <1>5, <1>6, <1>7, <1>8, <1>9 DEF Turn

LEMMA TurnRelay ==
  ASSUME Inv, RelayInv, NEW m \in Msgs, Turn(m) \/ CancelTurn(m)
  PROVE  RelayInv'
<1> USE TurnFacts DEF RelayInv
<1>1. \A k \in Msgs : Live(k)' => Live(k)
  BY DEF Live
<1>2. OutInv'
  BY DEF OutInv
<1>3. EntryInv'
  BY DEF EntryInv
<1>4. SteerInv'
  BY DEF SteerInv
<1>5. HandInv'
  BY DEF HandInv
<1>6. OneLive'
  BY <1>1 DEF OneLive
<1>7. AskInv'
  <2> SUFFICES ASSUME ~late', ~overlap', NEW k \in Msgs, Asking(k)'
               PROVE  card'.by = k /\ \A j \in Msgs : ~Live(j)'
    BY DEF AskInv
  <2>1. ~late /\ ~overlap /\ relayed
    BY DEF Asking, HandInv
  <2>2. stage[m] \in {"ready", "thinking"} => Live(m)
    BY <2>1 DEF HandInv, SteerInv, Live, Fresh, Working
  <2>3. CASE Asking(k)
    <3>1. card.by = k /\ ~Live(m) /\ \A j \in Msgs : ~Live(j)
      BY <2>1, <2>3 DEF AskInv
    <3>2. card' = card
      BY <2>2, <3>1
    <3> QED BY <1>1, <3>1, <3>2
  <2>4. CASE ~Asking(k)
    <3>1. k = m /\ stage[m] = "thinking" /\ card'.by = m /\ stage'[m] = "ending"
      BY <2>4 DEF Asking
    <3>2. ~Live(m)'
      BY <3>1 DEF Live, Fresh
    <3> QED BY <1>1, <2>1, <2>2, <3>1, <3>2 DEF OneLive
  <2> QED BY <2>3, <2>4
<1> QED BY <1>2, <1>3, <1>4, <1>5, <1>6, <1>7

\* app.py 957-980, 1271, 1394, 2571, 2600-2615: the prompt a browser gets back
\* is the one the conversation waits for.
THEOREM PromptsAreReal == Spec => []PromptIsReal
<1>1. Inv /\ RelayInv /\ [Next]_vars => RelayInv'
  <2> SUFFICES ASSUME Inv, RelayInv, [Next]_vars PROVE RelayInv'
    OBVIOUS
  <2>1. CASE UNCHANGED vars
    BY <2>1 DEF vars, exec, graph, relay, RelayInv, OutInv, EntryInv, SteerInv, HandInv, OneLive,
                AskInv, Asking, Live
  <2>2. CASE Next
    BY <2>2, SendRelay, HandlerRelay, TurnRelay DEF Next, Relay, Inv
  <2> QED BY <2>1, <2>2
<1>2. RelayInv /\ TypeOK => PromptIsReal
  BY DEF RelayInv, AskInv, Asking, PromptIsReal, TypeOK
<1>3. Inv => TypeOK
  BY DEF Inv
<1> QED BY <1>1, <1>2, <1>3, InitRelay, TurnsInvariant, PTL DEF Spec
=============================================================================
