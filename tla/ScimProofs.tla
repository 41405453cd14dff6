----------------------------- MODULE ScimProofs -----------------------------
(***************************************************************************)
(* The outbound push, for any number of users, tasks and attempts: when    *)
(* the pushes of an entity have ended, what was read alone and noted       *)
(* without an error is what the endpoint has, unless a name of it was      *)
(* another's; and the endpoint's group has the members it knows.           *)
(*                                                                         *)
(* The invariant, ScimInv, has seven parts.  Types says what a stack may   *)
(* look like: only its first push is at work, the others wait for the ones *)
(* before them.  Refs, Rows and Named bound the ids and the names in use.  *)
(* Owned says that two entities share a resource only if they shared a     *)
(* name.  Clean follows an entity whose row was read alone, and Whole the  *)
(* members of the group.  A step of the model is first put as an effect on *)
(* the set of pushes of each task; the parts are shown kept by effects.    *)
(***************************************************************************)
EXTENDS ScimPush, SequenceTheorems, TLAPS

-----------------------------------------------------------------------------
(* The stack of a task *)

Stages  == {"read", "each", "sent", "conflict", "found", "ok", "failed"}
Working == {"each", "sent", "conflict", "found", "ok"}

\* Only a group and the nightly list wait for other pushes; the list does nothing else.
Fits(f) == /\ f.at = "each" => f.of \notin Users
           /\ f.of = Group => f.todo \subseteq Users
           /\ f.of = Everything => f.at = "each" /\ f.todo # {}
           /\ f.at \in {"ok", "found"} => f.id # 0
AnyFrame == [of : Entities \cup {Everything}, at : Stages, try : Nat,
             row : Resource, id : Nat, todo : SUBSET Entities]
Frame    == {f \in AnyFrame : Fits(f)}

\* The pushes of a stack, and those below the first.
In(s)   == {s[i] : i \in DOMAIN s}
Shape(s) == \A i \in DOMAIN s :
              /\ i # 1 => s[i].at = "each"
              /\ s[i].of = Everything => i = Len(s)
              /\ \A j \in DOMAIN s : s[i].of = s[j].of => i = j
Stacks  == {s \in Seq(Frame) : Shape(s)}

\* What is on top of f waits for it.
Under(f, r) == /\ \A h \in In(r) : h.at = "each" /\ h.of # f.of
               /\ f.of = Everything => r = <<>>

\* A push and the stack it was put on.
LEMMA TopAndTail ==
  ASSUME NEW s \in Stacks, s # <<>>
  PROVE  /\ Head(s) \in Frame /\ Head(s) \in In(s)
         /\ Tail(s) \in Stacks /\ Under(Head(s), Tail(s))
         /\ In(s) = {Head(s)} \cup In(Tail(s))
<1> DEFINE r == Tail(s)
<1>0. s \in Seq(Frame) /\ Shape(s)
  BY DEF Stacks
<1>1. /\ Len(s) \in Nat \ {0} /\ DOMAIN s = 1..Len(s)
      /\ \A i \in DOMAIN s : s[i] \in Frame
  BY <1>0, EmptySeq, LenProperties
<1>2. /\ Head(s) = s[1] /\ Head(s) \in Frame /\ r \in Seq(Frame) /\ Len(r) = Len(s) - 1
      /\ \A i \in 1..Len(r) : r[i] = s[i + 1]
  BY <1>0, HeadTailProperties
<1>3. DOMAIN r = 1..Len(r)
  BY <1>2, LenProperties
<1> HIDE DEF r
<1>4. Shape(r)
  <2> SUFFICES ASSUME NEW i \in 1..Len(r)
               PROVE  /\ r[i].at = "each" /\ (r[i].of = Everything => i = Len(r))
                      /\ \A j \in 1..Len(r) : r[i].of = r[j].of => i = j
    BY <1>3 DEF Shape
  <2>1. i + 1 \in DOMAIN s /\ i + 1 # 1 /\ r[i] = s[i + 1]
    BY <1>1, <1>2
  <2>2. /\ s[i + 1].at = "each" /\ (s[i + 1].of = Everything => i + 1 = Len(s))
        /\ \A j \in DOMAIN s : s[i + 1].of = s[j].of => i + 1 = j
    BY <2>1, <1>0 DEF Shape
  <2>3. ASSUME NEW j \in 1..Len(r), r[i].of = r[j].of PROVE i = j
    <3>1. j + 1 \in DOMAIN s /\ r[j] = s[j + 1]
      BY <1>1, <1>2
    <3>2. i + 1 = j + 1
      BY <3>1, <2>1, <2>2, <2>3
    <3> QED BY <3>2
  <2>4. r[i].of = Everything => i = Len(r)
    <3>1. Len(s) \in Nat /\ Len(r) = Len(s) - 1
      BY <1>1, <1>2
    <3> QED BY <3>1, <2>1, <2>2
  <2> QED BY <2>1, <2>2, <2>3, <2>4
<1>5. In(s) = {Head(s)} \cup In(r)
  <2>1. ASSUME NEW h \in In(s) PROVE h \in {Head(s)} \cup In(r)
    <3>1. PICK i \in DOMAIN s : h = s[i]
      BY <2>1 DEF In
    <3>2. CASE i = 1
      BY <3>1, <3>2, <1>2
    <3>3. CASE i # 1
      <4>1. i - 1 \in DOMAIN r /\ r[i - 1] = s[i]
        BY <3>3, <1>1, <1>2, <1>3
      <4> QED BY <4>1, <3>1 DEF In
    <3> QED BY <3>2, <3>3
  <2>2. Head(s) \in In(s)
    BY <1>1, <1>2 DEF In
  <2>3. ASSUME NEW h \in In(r) PROVE h \in In(s)
    <3>1. PICK i \in DOMAIN r : h = r[i]
      BY <2>3 DEF In
    <3>2. i + 1 \in DOMAIN s /\ h = s[i + 1]
      BY <3>1, <1>1, <1>2, <1>3
    <3> QED BY <3>2 DEF In
  <2> QED BY <2>1, <2>2, <2>3
<1>6. Under(Head(s), r)
  <2>1. ASSUME NEW h \in In(r) PROVE h.at = "each" /\ h.of # Head(s).of
    <3>1. PICK i \in DOMAIN r : h = r[i]
      BY <2>1 DEF In
    <3>2. i + 1 \in DOMAIN s /\ i + 1 # 1 /\ h = s[i + 1] /\ 1 \in DOMAIN s
      BY <3>1, <1>1, <1>2, <1>3
    <3> QED BY <3>2, <1>0, <1>2 DEF Shape
  <2>2. ASSUME Head(s).of = Everything PROVE r = <<>>
    <3>1. Len(s) = 1
      BY <2>2, <1>0, <1>1, <1>2 DEF Shape
    <3>2. Len(r) = 0
      BY <3>1, <1>2
    <3> QED BY <3>2, <1>2, EmptySeq
  <2> QED BY <2>1, <2>2 DEF Under
<1> QED BY <1>2, <1>4, <1>5, <1>6 DEF Stacks, r

LEMMA OnTop ==
  ASSUME NEW r \in Stacks, NEW f \in Frame, Under(f, r)
  PROVE  /\ <<f>> \o r \in Stacks /\ <<f>> \o r # <<>>
         /\ In(<<f>> \o r) = {f} \cup In(r)
<1> DEFINE s == <<f>> \o r
<1>0. r \in Seq(Frame) /\ Shape(r)
  BY DEF Stacks
<1>1. Len(r) \in Nat /\ DOMAIN r = 1..Len(r) /\ <<f>> \in Seq(Frame) /\ Len(<<f>>) = 1 /\ <<f>>[1] = f
  BY <1>0, LenProperties
<1>2. /\ s \in Seq(Frame) /\ Len(s) = 1 + Len(r)
      /\ \A i \in 1..1 + Len(r) : s[i] = IF i <= 1 THEN <<f>>[i] ELSE r[i - 1]
  BY <1>0, <1>1, ConcatProperties
<1>3. DOMAIN s = 1..1 + Len(r)
  BY <1>2, LenProperties
<1> HIDE DEF s
<1>4. s[1] = f /\ \A i \in DOMAIN s : i # 1 => i - 1 \in DOMAIN r /\ s[i] = r[i - 1]
  BY <1>1, <1>2, <1>3
<1>5. \A i \in DOMAIN r : i + 1 \in DOMAIN s /\ i + 1 # 1 /\ s[i + 1] = r[i]
  BY <1>1, <1>2, <1>3
<1>6. \A i \in DOMAIN r : r[i].at = "each" /\ r[i].of # f.of
  BY DEF Under, In
<1>7. Shape(s)
  <2> SUFFICES ASSUME NEW i \in DOMAIN s
               PROVE  /\ i # 1 => s[i].at = "each"
                      /\ s[i].of = Everything => i = Len(s)
                      /\ \A j \in DOMAIN s : s[i].of = s[j].of => i = j
    BY DEF Shape
  <2>1. CASE i = 1
    <3>1. f.of = Everything => Len(r) = 0
      BY EmptySeq DEF Under
    <3> QED BY <2>1, <3>1, <1>1, <1>2, <1>3, <1>4, <1>6
  <2>2. CASE i # 1
    <3>1. i - 1 \in DOMAIN r /\ s[i] = r[i - 1]
      BY <2>2, <1>4
    <3>2. r[i - 1].of = Everything => i - 1 = Len(r)
      BY <3>1, <1>0 DEF Shape
    <3>3. ASSUME NEW j \in DOMAIN s, s[i].of = s[j].of PROVE i = j
      <4>1. j # 1
        BY <3>1, <3>3, <1>4, <1>6
      <4>2. j - 1 \in DOMAIN r /\ s[j] = r[j - 1]
        BY <4>1, <1>4
      <4>3. i - 1 = j - 1
        BY <3>1, <4>2, <3>3, <1>0 DEF Shape
      <4> QED BY <4>3, <1>1, <1>3
    <3> QED BY <3>1, <3>2, <3>3, <1>1, <1>2, <1>3, <1>6
  <2> QED BY <2>1, <2>2
<1>8. In(s) = {f} \cup In(r)
  <2>1. ASSUME NEW h \in In(s) PROVE h \in {f} \cup In(r)
    <3>1. PICK i \in DOMAIN s : h = s[i]
      BY <2>1 DEF In
    <3> QED BY <3>1, <1>4 DEF In
  <2>2. f \in In(s)
    BY <1>3, <1>1, <1>4 DEF In
  <2>3. ASSUME NEW h \in In(r) PROVE h \in In(s)
    <3>1. PICK i \in DOMAIN r : h = r[i]
      BY <2>3 DEF In
    <3> QED BY <3>1, <1>5 DEF In
  <2> QED BY <2>1, <2>2, <2>3
<1>9. s # <<>>
  BY <1>2, <1>1, EmptySeq
<1> QED BY <1>2, <1>7, <1>8, <1>9 DEF Stacks, s

\* Two pushes of a stack are of different entities, and there are three at most.
LEMMA EmptyStack == <<>> \in Stacks /\ In(<<>>) = {}
BY EmptySeq DEF Stacks, Shape, In

LEMMA OneOfEach ==
  ASSUME NEW s \in Stacks, NEW f \in In(s), NEW h \in In(s), f.of = h.of
  PROVE  f = h
BY DEF Stacks, Shape, In

LEMMA AllFrames ==
  ASSUME NEW s \in Stacks
  PROVE  \A f \in In(s) : f \in Frame
BY ElementOfSeq, LenProperties DEF Stacks, In

LEMMA ThreeAtMost ==
  ASSUME NEW s \in Stacks
  PROVE  Len(s) <= 3
<1> SUFFICES ASSUME ~(Len(s) <= 3) PROVE FALSE
  OBVIOUS
<1>1. Len(s) \in Nat /\ DOMAIN s = 1..Len(s) /\ Shape(s) /\ \A i \in DOMAIN s : s[i] \in Frame
  BY LenProperties, ElementOfSeq DEF Stacks
<1>2. 2 \in DOMAIN s /\ 3 \in DOMAIN s /\ 4 \in DOMAIN s
  BY <1>1
<1>3. \A i \in {2, 3, 4} : s[i].at = "each" /\ s[i].of \in {Group, Everything}
  BY <1>1, <1>2 DEF Shape, Frame, AnyFrame, Fits, Entities
<1>4. s[2].of # s[3].of /\ s[2].of # s[4].of /\ s[3].of # s[4].of
  BY <1>1, <1>2 DEF Shape
<1> QED BY <1>3, <1>4

-----------------------------------------------------------------------------
(* Types, and what a step does to the pushes *)

Sent  == [of : Entities, row : Resource, id : Nat]
Types == /\ row \in [Entities -> Row] /\ tx \in [Entities -> Row \cup {NoTx}]
         /\ link \in [Entities -> Nat] /\ err \in [Entities -> BOOLEAN]
         /\ res \in Seq(Resource) /\ stack \in [AllTasks -> Stacks] /\ wire \subseteq Sent
         /\ fresh \in [Entities -> BOOLEAN] /\ roster \in BOOLEAN
         /\ unheard \subseteq Entities /\ held \in [Entities -> SUBSET Names]
         /\ edits \in 0..MaxEdits /\ faults \in 0..MaxFaults

Frames(t) == In(stack[t])
Top(t)    == Head(stack[t])
Below(t)  == In(Tail(stack[t]))
Busy(t)   == t \in AllTasks /\ stack[t] # <<>>

\* F takes the place of the push at work.
Swap(t, F) == /\ stack' \in [AllTasks -> Stacks]
              /\ \A s \in AllTasks : In(stack'[s]) = IF s = t THEN F \cup Below(t) ELSE Frames(s)
\* Only pushes that have read nothing are added.
Adds == /\ stack' \in [AllTasks -> Stacks]
        /\ \A s \in AllTasks : /\ \A f \in Frames(s) : f \in In(stack'[s])
                               /\ \A f \in In(stack'[s]) :
                                    f \in Frames(s) \/ (f.id = 0 /\ f.row = NoBody /\ (f.at = "read" \/ f.of = Everything))

\* A push that begins again, or has failed.
Fresh(f)     == f.at \in {"read", "failed"} /\ f.id = 0 /\ f.row = NoBody
\* The entity read next, and what waits for it.
Chosen(t, e) == \/ Top(t).at = "read" /\ Top(t).of = e
                \/ Top(t).at = "each" /\ e \in Top(t).todo
Left(t, e)   == IF Top(t).at = "read" \/ (Top(t).of = Everything /\ Top(t).todo = {e})
                THEN {} ELSE {[Top(t) EXCEPT !.todo = @ \ {e}]}
Missing(e)   == IF e = Group THEN Members \ Linked ELSE {}

LEMMA Tops ==
  ASSUME Types, NEW t, Busy(t)
  PROVE  /\ Top(t) \in Frame /\ Top(t) \in Frames(t)
         /\ Frames(t) = {Top(t)} \cup Below(t)
         /\ \A h \in Below(t) : h \in Frame /\ h.at = "each" /\ h.of # Top(t).of
         /\ Top(t).of = Everything => Below(t) = {}
<1>1. stack[t] \in Stacks /\ stack[t] # <<>>
  BY DEF Types, Busy
<1>2. /\ Top(t) \in Frame /\ Top(t) \in Frames(t) /\ Tail(stack[t]) \in Stacks
      /\ Under(Top(t), Tail(stack[t])) /\ Frames(t) = {Top(t)} \cup Below(t)
  BY <1>1, TopAndTail DEF Top, Frames, Below
<1>3. \A h \in Below(t) : h \in Frame
  BY <1>2, AllFrames DEF Below
<1> QED BY <1>2, <1>3, EmptyStack DEF Under, Below

LEMMA Tails ==
  ASSUME Types, NEW t, Busy(t)
  PROVE  Tail(stack[t]) \in Stacks /\ Under(Top(t), Tail(stack[t]))
BY TopAndTail DEF Types, Busy, Top

LEMMA SetStack ==
  ASSUME Types, NEW t \in AllTasks, NEW s \in Stacks, NEW F, In(s) = F \cup Below(t),
         stack' = [stack EXCEPT ![t] = s]
  PROVE  Swap(t, F)
BY DEF Types, Swap, Frames

LEMMA TakesOff ==
  ASSUME Types, NEW t, Busy(t), stack' = [stack EXCEPT ![t] = Tail(@)]
  PROVE  Swap(t, {})
<1>1. Tail(stack[t]) \in Stacks /\ In(Tail(stack[t])) = {} \cup Below(t) /\ t \in AllTasks
  BY Tails DEF Below, Busy
<1>2. stack' = [stack EXCEPT ![t] = Tail(stack[t])]
  OBVIOUS
<1> QED BY <1>1, <1>2, SetStack

LEMMA PutsOn ==
  ASSUME Types, NEW t, Busy(t), NEW f \in Frame, f.of = Top(t).of, Becomes(t, f)
  PROVE  Swap(t, {f})
<1> DEFINE r == Tail(stack[t])
<1>1. r \in Stacks /\ Under(f, r) /\ t \in AllTasks
  BY Tails DEF Under, Busy
<1>2. <<f>> \o r \in Stacks /\ In(<<f>> \o r) = {f} \cup Below(t)
  BY <1>1, OnTop DEF Below
<1>3. stack' = [stack EXCEPT ![t] = <<f>> \o r]
  BY DEF Becomes
<1> QED BY <1>1, <1>2, <1>3, SetStack

LEMMA NoBodyType == Types => NoBody \in Resource
<1> SUFFICES ASSUME Types PROVE NoBody \in Resource
  OBVIOUS
<1>1. row[Group].name \in Names
  BY DEF Types, Row, Entities
<1>2. (CHOOSE n \in Names : TRUE) \in Names
  BY <1>1
<1> QED BY <1>2 DEF NoBody, Resource

LEMMA PushType ==
  ASSUME Types, NEW e \in Entities
  PROVE  /\ Push(e) \in Frame /\ Push(e).of = e /\ Push(e).at = "read" /\ Fresh(Push(e)) /\ Push(e).todo = {}
         /\ \A n \in Nat : LET f == [Push(e) EXCEPT !.try = n] IN f \in Frame /\ f.of = e /\ Fresh(f)
         /\ LET f == [Push(e) EXCEPT !.at = "failed"] IN f \in Frame /\ f.of = e /\ Fresh(f)
BY NoBodyType, ScimAssumption DEF Push, Frame, AnyFrame, Fits, Stages, Fresh

LEMMA AgainType ==
  ASSUME Types, NEW f \in Frame, f.of \in Entities
  PROVE  Again(f) \in Frame /\ Again(f).of = f.of /\ Fresh(Again(f))
<1>1. f.try + 1 \in Nat
  BY DEF Frame, AnyFrame
<1> QED BY <1>1, PushType DEF Again

\* A push at work is an entity's; only the nightly list is not.
LEMMA OfEntity ==
  ASSUME NEW f \in Frame
  PROVE  /\ f.at # "each" => f.of \in Entities
         /\ f.at = "each" => f.of \in {Group, Everything}
         /\ f.of = Group => f.todo \subseteq Users
         /\ f.todo \subseteq Entities /\ f.row \in Resource /\ f.id \in Nat /\ f.at \in Stages
BY DEF Frame, AnyFrame, Fits, Entities

LEMMA BodyType ==
  ASSUME Types, NEW e \in Entities
  PROVE  Body(e) \in Resource /\ Body(e).name = row[e].name /\ Body(e).active = row[e].active
<1>1. MemberIds \subseteq Nat
  BY DEF MemberIds, Linked, Members, Types, Row, Entities
<1>2. row[e] \in Row
  BY DEF Types
<1> QED BY <1>1, <1>2 DEF Body, Resource, Row

\* What the steps of a push do.
rest == <<console, sync, res, wire, faults>>
Passes(t, e) == /\ Busy(t) /\ e \in Entities /\ Chosen(t, e) /\ ~Live(e) /\ Swap(t, Left(t, e))
                /\ UNCHANGED <<rest, hist>>
Loads(t, e, f) ==
  /\ Busy(t) /\ e \in Entities /\ Chosen(t, e) /\ Live(e)
  /\ f \in Frame /\ Swap(t, {f} \cup Left(t, e))
  /\ f.of = e /\ f.row = Body(e) /\ f.id = link[e] /\ f.todo = Missing(e)
  /\ f.at = (IF Missing(e) = {} THEN "sent" ELSE "each")
  /\ fresh' = [fresh EXCEPT ![e] = Alone(e, t)]
  /\ roster' = IF e = Group THEN Alone(e, t) /\ Missing(e) = {} ELSE roster
  /\ UNCHANGED <<rest, unheard>>

LEMMA LeftType ==
  ASSUME Types, NEW t, Busy(t), NEW e \in Entities, Chosen(t, e)
  PROVE  /\ \A g \in Left(t, e) : /\ g \in Frame /\ g.of = Top(t).of /\ g.at = Top(t).at /\ g.row = Top(t).row
                                  /\ g.id = Top(t).id /\ g.at = "each" /\ g.todo = Top(t).todo \ {e}
         /\ \A h \in Left(t, e) \cup Below(t) : h.at = "each" /\ h.of # e
         /\ Top(t).of = Group /\ Top(t).at = "each" => Left(t, e) # {}
<1>1. Top(t) \in Frame /\ Top(t).at \in {"read", "each"}
  BY Tops DEF Chosen
<1>2. \A h \in Below(t) : h \in Frame /\ h.at = "each" /\ h.of # Top(t).of
  BY Tops
<1>3. CASE Top(t).at = "read"
  BY <1>2, <1>3 DEF Left, Chosen
<1>4. CASE Top(t).at = "each"
  <2> DEFINE g == [Top(t) EXCEPT !.todo = @ \ {e}]
  <2>1. e \in Top(t).todo /\ Top(t).of \in {Group, Everything} /\ (Top(t).of = Group => e \in Users)
    BY <1>1, <1>4, OfEntity DEF Chosen
  <2>2. /\ g \in AnyFrame /\ g.of = Top(t).of /\ g.at = Top(t).at
        /\ g.row = Top(t).row /\ g.id = Top(t).id /\ g.todo = Top(t).todo \ {e}
    BY <1>1 DEF Frame, AnyFrame
  <2>3. Top(t).of # Everything \/ Top(t).todo # {e} => g \in Frame
    BY <1>1, <1>4, <2>1, <2>2 DEF Frame, Fits
  <2>4. Top(t).of # e
    BY <2>1, ScimAssumption
  <2>5. Top(t).of = Everything => Below(t) = {}
    BY Tops
  <2>6. \A h \in Below(t) : h.of # e
    <3> SUFFICES ASSUME NEW h \in Below(t) PROVE h.of # e
      OBVIOUS
    <3>1. h.of \in {Group, Everything} /\ Top(t).of = Group /\ e \in Users
      BY <1>2, <2>1, <2>5, OfEntity
    <3> QED BY <3>1, ScimAssumption DEF Entities
  <2>7. Left(t, e) = IF Top(t).of = Everything /\ Top(t).todo = {e} THEN {} ELSE {g}
    BY <1>4 DEF Left
  <2>8. Group # Everything
    BY ScimAssumption DEF Entities
  <2> HIDE DEF g
  <2> QED BY <1>2, <1>4, <2>2, <2>3, <2>4, <2>6, <2>7, <2>8
<1> QED BY <1>1, <1>3, <1>4

\* The stack that a push goes on top of.
LEMMA LeftStack ==
  ASSUME Types, NEW t, Busy(t), NEW e \in Entities, Chosen(t, e),
         NEW r, r = IF Top(t).at = "read" THEN Tail(stack[t]) ELSE After(Top(t), e) \o Tail(stack[t])
  PROVE  r \in Stacks /\ In(r) = Left(t, e) \cup Below(t)
<1> DEFINE q == Tail(stack[t])
<1>1. q \in Stacks /\ Under(Top(t), q)
  BY Tails
<1>2. CASE Left(t, e) = {}
  <2>1. q \in Seq(Frame)
    BY <1>1 DEF Stacks
  <2>2. r = q
    BY <1>2, <2>1, ConcatEmptySeq DEF Left, After
  <2> QED BY <1>1, <1>2, <2>2 DEF Below
<1>3. CASE Left(t, e) # {}
  <2> DEFINE g == [Top(t) EXCEPT !.todo = @ \ {e}]
  <2>1. Left(t, e) = {g} /\ r = <<g>> \o q
    BY <1>3 DEF Left, After
  <2>2. g \in Frame /\ g.of = Top(t).of
    BY <2>1, LeftType
  <2>3. Under(g, q)
    BY <1>1, <2>2 DEF Under
  <2> HIDE DEF g
  <2> QED BY <1>1, <2>1, <2>2, <2>3, OnTop DEF Below
<1> QED BY <1>2, <1>3

LEMMA ReadsEffect ==
  ASSUME Types, NEW t, Busy(t), NEW e \in Entities, Chosen(t, e),
         NEW g \in Frame, g.of = e,
         NEW r, r = IF Top(t).at = "read" THEN Tail(stack[t]) ELSE After(Top(t), e) \o Tail(stack[t]),
         Reads(t, g, r), UNCHANGED rest
  PROVE  Passes(t, e) \/ \E f : Loads(t, e, f)
<1>1. r \in Stacks /\ In(r) = Left(t, e) \cup Below(t) /\ t \in AllTasks
  BY LeftStack DEF Busy
<1>2. CASE ~Live(e)
  <2>1. stack' = [stack EXCEPT ![t] = r] /\ UNCHANGED hist
    BY <1>2 DEF Reads
  <2>2. Swap(t, Left(t, e))
    BY <1>1, <2>1, SetStack
  <2> QED BY <1>2, <2>1, <2>2 DEF Passes
<1>3. CASE Live(e)
  <2> DEFINE f == [g EXCEPT !.at = IF Missing(e) = {} THEN "sent" ELSE "each",
                            !.row = Body(e), !.id = link[e], !.todo = Missing(e)]
  <2>1. /\ stack' = [stack EXCEPT ![t] = <<f>> \o r]
        /\ fresh' = [fresh EXCEPT ![e] = Alone(e, t)]
        /\ roster' = IF e = Group THEN Alone(e, t) /\ Missing(e) = {} ELSE roster
        /\ UNCHANGED unheard
    BY <1>3 DEF Reads, Missing
  <2>2. /\ Missing(e) \subseteq Users /\ (Missing(e) # {} => e = Group) /\ e # Everything
        /\ Missing(e) \subseteq Entities /\ Body(e) \in Resource /\ link[e] \in Nat
    BY BodyType, ScimAssumption DEF Missing, Members, Linked, Types, Row, Entities
  <2>3. f \in AnyFrame /\ f.of = e /\ f.row = Body(e) /\ f.id = link[e] /\ f.todo = Missing(e)
        /\ f.at = (IF Missing(e) = {} THEN "sent" ELSE "each")
    <3>1. (IF Missing(e) = {} THEN "sent" ELSE "each") \in Stages
      BY DEF Stages
    <3> DEFINE a == IF Missing(e) = {} THEN "sent" ELSE "each"
    <3>2. f = [g EXCEPT !.at = a, !.row = Body(e), !.id = link[e], !.todo = Missing(e)]
      OBVIOUS
    <3>3. a \in Stages
      BY <3>1
    <3> HIDE DEF a, f
    <3>4. PICK b, i, T : b = Body(e) /\ i = link[e] /\ T = Missing(e)
      OBVIOUS
    <3>5. b \in Resource /\ i \in Nat /\ T \subseteq Entities
      BY <2>2, <3>4
    <3>6. f = [g EXCEPT !.at = a, !.row = b, !.id = i, !.todo = T]
      BY <3>2, <3>4
    <3>7. f \in AnyFrame /\ f.of = g.of /\ f.at = a /\ f.row = b /\ f.id = i /\ f.todo = T
      BY <3>3, <3>5, <3>6 DEF Frame, AnyFrame
    <3> QED BY <3>4, <3>7 DEF a
  <2> HIDE DEF f
  <2>7. f \in Frame
    BY <2>2, <2>3, ScimAssumption DEF Frame, Fits
  <2> HIDE DEF f
  <2>4. Under(f, r)
    <3>1. \A h \in In(r) : h.at = "each" /\ h.of # f.of
      BY <1>1, <2>3, LeftType
    <3>2. f.of # Everything
      BY <2>3, ScimAssumption
    <3> QED BY <3>1, <3>2 DEF Under
  <2>5. <<f>> \o r \in Stacks /\ In(<<f>> \o r) = {f} \cup Left(t, e) \cup Below(t)
    BY <1>1, <2>7, <2>4, OnTop
  <2>6. Swap(t, {f} \cup Left(t, e))
    BY <1>1, <2>1, <2>5, SetStack
  <2> QED BY <1>3, <2>1, <2>3, <2>7, <2>6 DEF Loads
<1> QED BY <1>2, <1>3

LEMMA ReadEffect ==
  ASSUME Types, NEW t \in AllTasks, Read(t)
  PROVE  \E e \in Entities : Passes(t, e) \/ \E f : Loads(t, e, f)
<1>0. Busy(t) /\ UNCHANGED rest
  BY DEF Read, Runs, Busy, rest
<1>1. Top(t) \in Frame
  BY <1>0, Tops
<1>2. CASE Runs(t, "read") /\ Reads(t, Top(t), Tail(stack[t]))
  <2>1. Top(t).at = "read" /\ Top(t).of \in Entities
    BY <1>1, <1>2, OfEntity DEF Runs, Top
  <2>2. Chosen(t, Top(t).of)
    BY <2>1 DEF Chosen
  <2> QED BY <1>0, <1>1, <1>2, <2>1, <2>2, ReadsEffect
<1>3. ASSUME Runs(t, "each"),
             NEW e \in Top(t).todo,
             Reads(t, Push(e), After(Top(t), e) \o Tail(stack[t]))
      PROVE  \E d \in Entities : Passes(t, d) \/ \E f : Loads(t, d, f)
  <2>1. Top(t).at = "each" /\ e \in Entities
    BY <1>1, <1>3, OfEntity DEF Runs, Top
  <2>2. Chosen(t, e)
    BY <2>1 DEF Chosen
  <2>3. Push(e) \in Frame /\ Push(e).of = e
    BY <2>1, PushType
  <2> QED BY <1>0, <1>3, <2>1, <2>2, <2>3, ReadsEffect
<1> QED BY <1>2, <1>3 DEF Read, Top

faulty == faults' \in 0..MaxFaults
Rebuilds(t, f) ==
  /\ Busy(t) /\ Top(t).at = "each" /\ Top(t).of = Group /\ Top(t).todo = {}
  /\ f \in Frame /\ Swap(t, {f})
  /\ f.of = Group /\ f.at = "sent" /\ f.id = Top(t).id /\ f.row = Refetched(Top(t))
  /\ roster' = fresh[Group] /\ UNCHANGED <<rest, fresh, unheard>>
Puts(t, f) ==
  /\ Busy(t) /\ Top(t).at = "sent"
  /\ res' = Put(Top(t).id, Top(t).row)
  /\ f \in Frame /\ Swap(t, {f})
  /\ f.of = Top(t).of /\ f.at = "ok" /\ f.row = NoBody
  /\ f.id = (IF Top(t).id = 0 THEN Len(res) + 1 ELSE Top(t).id)
  /\ UNCHANGED <<console, sync, wire, hist, faults>>
Turns(t, f) ==
  /\ Busy(t) /\ Top(t).of \in Entities /\ f \in Frame /\ Swap(t, {f}) /\ f.of = Top(t).of
  /\ \/ Fresh(f)
     \/ Top(t).at = "sent" /\ f.at = "conflict" /\ f.row = Top(t).row /\ f.id = Top(t).id
     \/ /\ Top(t).at = "conflict" /\ f.at = "found" /\ f.row = NoBody
        /\ f.id \in DOMAIN res /\ res[f.id].name = Top(t).row.name
  /\ UNCHANGED <<console, sync, res, wire, hist>> /\ faulty
Notes(t) ==
  /\ Busy(t) /\ Top(t).at = "ok" /\ Swap(t, {}) /\ Upsert(Top(t).of, Top(t).id)
  /\ UNCHANGED <<console, res, wire, fresh, unheard, faults>>
Adopts(t, f) ==
  /\ Busy(t) /\ Top(t).at = "found" /\ f \in Frame /\ Swap(t, {f}) /\ f.of = Top(t).of /\ Fresh(f)
  /\ Upsert(Top(t).of, Top(t).id)
  /\ UNCHANGED <<console, res, wire, fresh, unheard, faults>>
GivesUp(t) ==
  /\ Busy(t) /\ Top(t).at = "failed" /\ Swap(t, {}) /\ UpsertError(Top(t).of)
  /\ UNCHANGED <<console, link, res, wire, hist, faults>>
Loses(t) ==
  /\ Busy(t) /\ Top(t).at = "failed" /\ Swap(t, {})
  /\ Spoil({Top(t).of}) /\ unheard' = unheard \cup {Top(t).of}
  /\ UNCHANGED <<console, sync, res, wire>> /\ faulty
Lags(t, f) ==
  /\ Busy(t) /\ Top(t).at = "sent" /\ f \in Frame /\ Swap(t, {f}) /\ f.of = Top(t).of /\ Fresh(f)
  /\ wire' = wire \cup {Request(Top(t))} /\ Spoil({Top(t).of})
  /\ UNCHANGED <<console, sync, res, unheard>> /\ faulty
Dead(T) == UNION {Frames(t) : t \in T}
Dies(T) ==
  /\ T \subseteq AllTasks /\ stack' \in [AllTasks -> Stacks]
  /\ \A s \in AllTasks : In(stack'[s]) = IF s \in T THEN {} ELSE Frames(s)
  /\ wire' = wire \cup {Request(f) : f \in {f \in Dead(T) : f.at = "sent"}}
  /\ Spoil({f.of : f \in Dead(T)})
  /\ UNCHANGED <<console, sync, res, unheard>> /\ faulty

LEMMA RunsTop ==
  ASSUME Types, NEW t \in AllTasks, NEW a, Runs(t, a)
  PROVE  /\ Busy(t) /\ Top(t).at = a /\ Top(t) \in Frame
         /\ a # "each" => Top(t).of \in Entities
<1>1. Busy(t) /\ Top(t).at = a
  BY DEF Runs, Busy, Top
<1>2. Top(t) \in Frame
  BY <1>1, Tops
<1> QED BY <1>1, <1>2, OfEntity

LEMMA FaultType == Types /\ Fault => faulty
BY ScimAssumption DEF Types, Fault, faulty

LEMMA RefetchEffect ==
  ASSUME Types, NEW t \in AllTasks, Refetch(t)
  PROVE  \E f : Rebuilds(t, f)
<1> DEFINE f == [Top(t) EXCEPT !.at = "sent", !.row = Refetched(Top(t))]
<1>1. /\ Runs(t, "each") /\ Top(t).todo = {} /\ Becomes(t, f)
      /\ roster' = fresh[Group] /\ UNCHANGED <<rest, fresh, unheard>>
  BY DEF Refetch, Top, rest, console, sync
<1>2. Busy(t) /\ Top(t).at = "each" /\ Top(t) \in Frame
  BY <1>1, RunsTop
<1>3. Top(t).of = Group
  BY <1>2, <1>1, OfEntity DEF Frame, Fits
<1>4. Refetched(Top(t)) \in Resource
  <2>1. MemberIds \subseteq Nat
    BY DEF MemberIds, Linked, Members, Types, Row, Entities
  <2>2. Top(t).row \in Resource
    BY <1>2, OfEntity
  <2> QED BY <2>1, <2>2 DEF Refetched, Resource
<1>5. /\ f \in AnyFrame /\ f.of = Group /\ f.at = "sent"
      /\ f.id = Top(t).id /\ f.row = Refetched(Top(t)) /\ f.todo = Top(t).todo
  <2>1. PICK b : b = Refetched(Top(t))
    OBVIOUS
  <2>2. f = [Top(t) EXCEPT !.at = "sent", !.row = b] /\ b \in Resource
    BY <2>1, <1>4
  <2> HIDE DEF f
  <2> QED BY <2>1, <2>2, <1>2, <1>3 DEF Frame, AnyFrame, Stages
<1> HIDE DEF f
<1>6. f \in Frame
  BY <1>1, <1>5, ScimAssumption DEF Frame, Fits, Entities
<1>7. Swap(t, {f})
  BY <1>1, <1>2, <1>3, <1>5, <1>6, PutsOn
<1> QED BY <1>1, <1>2, <1>3, <1>5, <1>6, <1>7 DEF Rebuilds

LEMMA TurnsAgain ==
  ASSUME Types, NEW t \in AllTasks, Busy(t), Top(t).of \in Entities, NEW f \in Frame, f.of = Top(t).of, Fresh(f),
         Becomes(t, f), UNCHANGED <<console, sync, res, wire, hist>>, faulty
  PROVE  Turns(t, f)
BY PutsOn DEF Turns

LEMMA AnswerEffect ==
  ASSUME Types, NEW t \in AllTasks, Answer(t)
  PROVE  \E f : Puts(t, f) \/ Turns(t, f)
<1>1. Runs(t, "sent") /\ UNCHANGED <<console, sync, wire, hist, faults>> /\ faulty
  BY DEF Answer, faulty, Types
<1>2. Busy(t) /\ Top(t).at = "sent" /\ Top(t) \in Frame /\ Top(t).of \in Entities
  BY <1>1, RunsTop
<1> DEFINE new == IF Top(t).id = 0 THEN Len(res) + 1 ELSE Top(t).id
           f1 == [Push(Top(t).of) EXCEPT !.at = "ok", !.id = new]
           f2 == [Top(t) EXCEPT !.at = "conflict"]
<1>3. CASE res' = Put(Top(t).id, Top(t).row) /\ Becomes(t, f1)
  <2>1. new \in Nat /\ new # 0
    BY <1>2, LenProperties, OfEntity DEF Types
  <2>2. PICK i : i = new
    OBVIOUS
  <2>3. f1 = [Push(Top(t).of) EXCEPT !.at = "ok", !.id = i]
    BY <2>2
  <2> HIDE DEF new, f1
  <2>4. /\ Push(Top(t).of) \in Frame /\ Push(Top(t).of).of = Top(t).of
        /\ Push(Top(t).of).row = NoBody /\ Push(Top(t).of).todo = {}
    BY <1>2, PushType DEF Fresh
  <2>5. f1 \in AnyFrame /\ f1.of = Top(t).of /\ f1.at = "ok" /\ f1.id = i /\ f1.row = NoBody /\ f1.todo = {}
    BY <2>1, <2>2, <2>3, <2>4 DEF Frame, AnyFrame, Stages
  <2>6. f1 \in Frame
    BY <1>2, <2>1, <2>2, <2>5, ScimAssumption DEF Frame, Fits
  <2>7. Swap(t, {f1})
    BY <1>2, <1>3, <2>5, <2>6, PutsOn
  <2>8. f1.id = (IF Top(t).id = 0 THEN Len(res) + 1 ELSE Top(t).id)
    BY <2>2, <2>5 DEF new
  <2> QED BY <1>1, <1>2, <1>3, <2>5, <2>6, <2>7, <2>8 DEF Puts
<1>4. CASE Top(t).id = 0 /\ Becomes(t, f2) /\ UNCHANGED res
  <2>1. /\ f2 \in AnyFrame /\ f2.of = Top(t).of /\ f2.at = "conflict"
        /\ f2.id = Top(t).id /\ f2.row = Top(t).row /\ f2.todo = Top(t).todo
    BY <1>2 DEF Frame, AnyFrame, Stages
  <2> HIDE DEF f2
  <2>2. f2 \in Frame
    BY <1>2, <2>1, ScimAssumption DEF Frame, Fits
  <2>3. Swap(t, {f2})
    BY <1>2, <1>4, <2>1, <2>2, PutsOn
  <2> QED BY <1>1, <1>2, <1>4, <2>1, <2>2, <2>3 DEF Turns
<1>5. CASE Becomes(t, Again(Top(t))) /\ UNCHANGED res
  <2>1. Again(Top(t)) \in Frame /\ Again(Top(t)).of = Top(t).of /\ Fresh(Again(Top(t)))
    BY <1>2, AgainType
  <2> QED BY <1>1, <1>2, <1>5, <2>1, TurnsAgain
<1>6. \/ res' = Put(Top(t).id, Top(t).row) /\ Becomes(t, f1)
      \/ Becomes(t, IF Top(t).id = 0 THEN f2 ELSE Again(Top(t))) /\ UNCHANGED res
  BY DEF Answer, Top
<1> HIDE DEF f1, f2
<1> QED BY <1>3, <1>4, <1>5, <1>6

LEMMA LookupEffect ==
  ASSUME Types, NEW t \in AllTasks, Lookup(t)
  PROVE  \E f : Turns(t, f)
<1>1. Runs(t, "conflict") /\ UNCHANGED <<console, sync, res, wire, hist, faults>> /\ faulty
  BY DEF Lookup, faulty, Types
<1>2. Busy(t) /\ Top(t).at = "conflict" /\ Top(t) \in Frame /\ Top(t).of \in Entities
  BY <1>1, RunsTop
<1>3. ASSUME NEW r \in Matches(Top(t)), Becomes(t, [Top(t) EXCEPT !.at = "found", !.id = r, !.row = NoBody])
      PROVE  \E f : Turns(t, f)
  <2> DEFINE f == [Top(t) EXCEPT !.at = "found", !.id = r, !.row = NoBody]
  <2>1. r \in DOMAIN res /\ res[r].name = Top(t).row.name /\ r \in Nat /\ r # 0
    BY <1>3, LenProperties DEF Matches, Types
  <2>2. PICK b : b = NoBody
    OBVIOUS
  <2>3. f = [Top(t) EXCEPT !.at = "found", !.id = r, !.row = b] /\ b \in Resource
    BY <2>2, NoBodyType
  <2> HIDE DEF f
  <2>4. f \in AnyFrame /\ f.of = Top(t).of /\ f.at = "found" /\ f.id = r /\ f.row = NoBody /\ f.todo = Top(t).todo
    BY <1>2, <2>1, <2>2, <2>3 DEF Frame, AnyFrame, Stages
  <2>5. f \in Frame
    BY <1>2, <2>1, <2>4, ScimAssumption DEF Frame, Fits
  <2>6. Becomes(t, f)
    BY <1>3 DEF f
  <2>7. Swap(t, {f})
    BY <1>2, <2>4, <2>5, <2>6, PutsOn
  <2> QED BY <1>1, <1>2, <2>1, <2>4, <2>5, <2>7 DEF Turns
<1>4. CASE Becomes(t, Again(Top(t)))
  <2>1. Again(Top(t)) \in Frame /\ Again(Top(t)).of = Top(t).of /\ Fresh(Again(Top(t)))
    BY <1>2, AgainType
  <2> QED BY <1>1, <1>2, <1>4, <2>1, TurnsAgain
<1> QED BY <1>3, <1>4 DEF Lookup, Top

LEMMA RecordEffect ==
  ASSUME Types, NEW t \in AllTasks, Record(t)
  PROVE  Notes(t) \/ \E f : Adopts(t, f)
<1> DEFINE r == Tail(stack[t])
<1>0. PICK a \in {"ok", "found"} : Runs(t, a)
  BY DEF Record
<1>1. Busy(t) /\ Top(t).at = a /\ Top(t) \in Frame /\ Top(t).of \in Entities
  BY <1>0, RunsTop
<1>2. /\ Upsert(Top(t).of, Top(t).id) /\ UNCHANGED <<console, res, wire, fresh, unheard, faults>>
      /\ stack' = [stack EXCEPT ![t] = AfterRecord(Top(t)) \o Tail(@)]
  BY DEF Record, Top
<1>3. r \in Stacks /\ r \in Seq(Frame)
  BY <1>1, Tails DEF Stacks
<1>4. CASE a = "ok"
  <2>1. AfterRecord(Top(t)) \o r = r
    BY <1>1, <1>4, <1>3, ConcatEmptySeq DEF AfterRecord
  <2>2. stack' = [stack EXCEPT ![t] = Tail(@)]
    BY <1>2, <2>1
  <2>3. Swap(t, {})
    BY <1>1, <2>2, TakesOff
  <2> QED BY <1>1, <1>2, <1>4, <2>3 DEF Notes
<1>5. CASE a = "found"
  <2>1. Becomes(t, Again(Top(t)))
    BY <1>1, <1>2, <1>5 DEF Becomes, AfterRecord
  <2>2. Again(Top(t)) \in Frame /\ Again(Top(t)).of = Top(t).of /\ Fresh(Again(Top(t)))
    BY <1>1, AgainType
  <2>3. Swap(t, {Again(Top(t))})
    BY <1>1, <2>1, <2>2, PutsOn
  <2> QED BY <1>1, <1>2, <1>5, <2>2, <2>3 DEF Adopts
<1> QED BY <1>4, <1>5

LEMMA GiveUpEffect ==
  ASSUME Types, NEW t \in AllTasks, GiveUp(t)
  PROVE  GivesUp(t)
<1>1. Busy(t) /\ Top(t).at = "failed"
  BY RunsTop DEF GiveUp
<1>2. stack' = [stack EXCEPT ![t] = Tail(@)]
  BY DEF GiveUp, Returns
<1>3. Swap(t, {})
  BY <1>1, <1>2, TakesOff
<1> QED BY <1>1, <1>3 DEF GiveUp, GivesUp, Top

LEMMA RefusedEffect ==
  ASSUME Types, NEW t \in AllTasks, Refused(t)
  PROVE  \E f : Turns(t, f)
<1>1. PICK a \in {"sent", "conflict"} : Runs(t, a)
  BY DEF Refused
<1>2. faulty /\ Becomes(t, Again(Top(t))) /\ UNCHANGED <<console, sync, res, wire, hist>>
  BY FaultType DEF Refused, Top
<1>3. Busy(t) /\ Top(t) \in Frame /\ Top(t).of \in Entities
  BY <1>1, RunsTop
<1>4. Again(Top(t)) \in Frame /\ Again(Top(t)).of = Top(t).of /\ Fresh(Again(Top(t)))
  BY <1>3, AgainType
<1> QED BY <1>2, <1>3, <1>4, TurnsAgain

LEMMA BreaksEffect ==
  ASSUME Types, NEW t \in AllTasks, Breaks(t)
  PROVE  \E f : Turns(t, f)
<1> DEFINE f == [Push(Top(t).of) EXCEPT !.at = "failed"]
<1>1. PICK a \in {"read", "ok", "found", "each"} : Runs(t, a) /\ (a = "each" => Top(t).todo = {})
  BY DEF Breaks, Top
<1>2. faulty /\ Becomes(t, f) /\ UNCHANGED <<console, sync, res, wire, hist>>
  BY FaultType DEF Breaks, Top
<1>3. Busy(t) /\ Top(t) \in Frame /\ Top(t).at = a
  BY <1>1, RunsTop
<1>4. Top(t).of \in Entities
  BY <1>1, <1>3 DEF Frame, AnyFrame, Fits
<1>5. f \in Frame /\ f.of = Top(t).of /\ Fresh(f)
  BY <1>4, PushType
<1> HIDE DEF f
<1> QED BY <1>2, <1>3, <1>4, <1>5, TurnsAgain

LEMMA TimesOutEffect ==
  ASSUME Types, NEW t \in AllTasks, TimesOut(t)
  PROVE  \E f : Lags(t, f)
<1>1. /\ faulty /\ Becomes(t, Again(Top(t))) /\ UNCHANGED <<console, sync, res, unheard>>
      /\ Runs(t, "sent") /\ wire' = wire \cup {Request(Top(t))} /\ Spoil({Top(t).of})
  BY FaultType DEF TimesOut, Top
<1>2. Busy(t) /\ Top(t) \in Frame /\ Top(t).of \in Entities /\ Top(t).at = "sent"
  BY <1>1, RunsTop
<1>3. Again(Top(t)) \in Frame /\ Again(Top(t)).of = Top(t).of /\ Fresh(Again(Top(t)))
  BY <1>2, AgainType
<1>4. Swap(t, {Again(Top(t))})
  BY <1>1, <1>2, <1>3, PutsOn
<1> QED BY <1>1, <1>2, <1>3, <1>4 DEF Lags

LEMMA UnrecordedEffect ==
  ASSUME Types, NEW t \in AllTasks, Unrecorded(t)
  PROVE  Loses(t)
<1>1. Busy(t) /\ Top(t).at = "failed" /\ faulty
  BY RunsTop, FaultType DEF Unrecorded
<1>2. stack' = [stack EXCEPT ![t] = Tail(@)]
  BY DEF Unrecorded, Returns
<1>3. Swap(t, {})
  BY <1>1, <1>2, TakesOff
<1> QED BY <1>1, <1>3 DEF Unrecorded, Loses, Top

LEMMA CrashEffect ==
  ASSUME Types, NEW T \in SUBSET AllTasks, Crash(T)
  PROVE  Dies(T)
<1>1. UNION {{stack[t][i] : i \in DOMAIN stack[t]} : t \in T} = Dead(T)
  BY DEF Dead, Frames, In
<1>2. /\ stack' = [t \in AllTasks |-> IF t \in T THEN <<>> ELSE stack[t]]
      /\ wire' = wire \cup {Request(f) : f \in {f \in Dead(T) : f.at = "sent"}}
      /\ Spoil({f.of : f \in Dead(T)})
      /\ UNCHANGED <<console, sync, res, unheard>> /\ faulty
  BY <1>1, FaultType DEF Crash
<1>3. /\ stack' \in [AllTasks -> Stacks]
      /\ \A s \in AllTasks : In(stack'[s]) = IF s \in T THEN {} ELSE Frames(s)
  BY <1>2, EmptyStack DEF Types, Frames
<1> QED BY <1>2, <1>3 DEF Dies

-----------------------------------------------------------------------------
(* What the console's steps do *)

Waits ==
  /\ Adds /\ tx' \in [Entities -> Row \cup {NoTx}]
  /\ \A e \in Entities : tx'[e] \in {tx[e], NoTx} \cup Changed(e)
  /\ edits' \in 0..MaxEdits /\ UNCHANGED <<row, held, sync, res, wire, hist, faults>>
Writes(e, new) ==
  /\ e \in Entities /\ new \in Row /\ Adds /\ Write(e, new)
  /\ tx' = [tx EXCEPT ![e] = NoTx]
  /\ \/ new = tx[e] /\ new # NoTx
     \/ e \in Users /\ new \in Changed(e)
     \/ Live(e) /\ (new = Deleted(e) \/ (e # Group /\ new = [row[e] EXCEPT !.active = ~@]))
  /\ edits' \in 0..MaxEdits /\ UNCHANGED <<sync, res, wire, unheard, faults>>

LEMMA SameStack == Types /\ UNCHANGED stack => Adds
BY DEF Types, Adds, Frames

LEMMA StartsWith ==
  ASSUME Types, NEW t \in AllTasks, stack[t] = <<>>,
         NEW f \in Frame, f.id = 0 /\ f.row = NoBody, f.at = "read" \/ f.of = Everything,
         stack' = [stack EXCEPT ![t] = <<f>>]
  PROVE  Adds
<1>1. <<f>> \o <<>> \in Stacks /\ In(<<f>> \o <<>>) = {f} \cup In(<<>>)
  BY EmptyStack, OnTop DEF Under
<1>2. <<f>> \o <<>> = <<f>>
  BY ConcatEmptySeq
<1>3. <<f>> \in Stacks /\ In(<<f>>) = {f} /\ Frames(t) = {}
  BY <1>1, <1>2, EmptyStack DEF Frames
<1> QED BY <1>3 DEF Types, Adds, Frames

LEMMA StartsAdds ==
  ASSUME Types, NEW t \in AllTasks, NEW e \in Entities, Starts(t, e)
  PROVE  Adds
BY PushType, StartsWith DEF Starts, Fresh

LEMMA ChangedType ==
  ASSUME Types, NEW e \in Entities, NEW new \in Changed(e)
  PROVE  /\ new \in Row /\ new.life = "live" /\ row[e].life # "gone"
         /\ new.name = row[e].name \/ new.name \in NamesOf(e)
         /\ new.members = row[e].members \/ \A u \in new.members : Live(u)
         /\ e # Group => new.members = row[e].members
<1> DEFINE r == row[e]
<1>1. r \in Row
  BY DEF Types
<1>2. NamesOf(e) \subseteq Names
  BY DEF NamesOf, Names
<1>3. CASE r.life = "new"
  <2>1. PICK n \in NamesOf(e) : new = [r EXCEPT !.life = "live", !.name = n]
    BY <1>3 DEF Changed
  <2> HIDE DEF r
  <2> QED BY <1>1, <1>2, <1>3, <2>1 DEF Row, r
<1>4. CASE r.life # "new"
  <2>1. r.life = "live"
    BY <1>1, <1>4 DEF Row, Changed
  <2>2. CASE \E n \in NamesOf(e) : new = [r EXCEPT !.name = n]
    <3> HIDE DEF r
    <3> QED BY <1>1, <1>2, <2>1, <2>2 DEF Row, r
  <2>3. CASE e = Group /\ \E M \in SUBSET {u \in Users : Live(u)} : new = [r EXCEPT !.members = M]
    <3>1. PICK M \in SUBSET {u \in Users : Live(u)} : new = [r EXCEPT !.members = M]
      BY <2>3
    <3>2. M \subseteq Users /\ \A u \in M : Live(u)
      OBVIOUS
    <3> HIDE DEF r
    <3>3. new \in Row /\ new.life = r.life /\ new.name = r.name /\ new.members = M
      BY <1>1, <3>1, <3>2 DEF Row
    <3> QED BY <2>1, <2>3, <3>2, <3>3 DEF r
  <2>4. CASE e # Group /\ new = [r EXCEPT !.active = ~@]
    <3> HIDE DEF r
    <3> QED BY <1>1, <2>1, <2>4 DEF Row, r
  <2>5. \/ \E n \in NamesOf(e) : new = [r EXCEPT !.name = n]
        \/ e = Group /\ \E M \in SUBSET {u \in Users : Live(u)} : new = [r EXCEPT !.members = M]
        \/ e # Group /\ new = [r EXCEPT !.active = ~@]
    BY <1>4, <2>1 DEF Changed
  <2> QED BY <2>2, <2>3, <2>4, <2>5
<1> QED BY <1>3, <1>4

LEMMA EditType == Types /\ edits < MaxEdits /\ edits' = edits + 1 => edits' \in 0..MaxEdits
BY ScimAssumption DEF Types

LEMMA BeginEffect ==
  ASSUME Types, NEW t \in AllTasks, NEW e \in Entities, Begin(t, e)
  PROVE  Waits
<1>1. Adds
  BY StartsAdds DEF Begin
<1>2. PICK new \in Changed(e) : tx' = [tx EXCEPT ![e] = new]
  BY DEF Begin
<1>3. new \in Row
  BY <1>2, ChangedType
<1>4. tx' \in [Entities -> Row \cup {NoTx}] /\ \A d \in Entities : tx'[d] \in {tx[d], NoTx} \cup Changed(d)
  BY <1>2, <1>3 DEF Types
<1> QED BY <1>1, <1>4, EditType DEF Begin, Waits

LEMMA RollbackEffect ==
  ASSUME Types, NEW e \in Entities, Rollback(e)
  PROVE  Waits
<1>1. tx' \in [Entities -> Row \cup {NoTx}] /\ \A d \in Entities : tx'[d] \in {tx[d], NoTx} \cup Changed(d)
  BY DEF Rollback, Types
<1>2. Adds /\ edits' \in 0..MaxEdits
  BY SameStack DEF Rollback, Types
<1> QED BY <1>1, <1>2 DEF Rollback, Waits

LEMMA PushAllEffect ==
  ASSUME Types, NEW t \in AllTasks, PushAll(t)
  PROVE  Waits
<1>1. tx' \in [Entities -> Row \cup {NoTx}] /\ \A d \in Entities : tx'[d] \in {tx[d], NoTx} \cup Changed(d)
  BY DEF PushAll, Types
<1>2. edits' \in 0..MaxEdits
  BY EditType DEF PushAll, Types
<1>3. Pushable \subseteq Entities
  BY DEF Pushable, Entities
<1>4. Adds
  <2>1. CASE Pushable = {}
    <3>1. stack' = stack
      BY <2>1 DEF PushAll, Batch, Types
    <3> QED BY <3>1, SameStack
  <2>2. CASE Pushable # {}
    <3> DEFINE f == [Push(Everything) EXCEPT !.at = "each", !.todo = Pushable]
    <3>1. f \in Frame /\ f.id = 0 /\ f.row = NoBody /\ f.of = Everything
      BY <1>3, <2>2, NoBodyType, ScimAssumption DEF Push, Frame, AnyFrame, Fits, Stages, Entities
    <3>2. stack[t] = <<>> /\ stack' = [stack EXCEPT ![t] = <<f>>]
      BY <2>2 DEF PushAll, Batch
    <3> HIDE DEF f
    <3> QED BY <3>1, <3>2, StartsWith
  <2> QED BY <2>1, <2>2
<1> QED BY <1>1, <1>2, <1>4 DEF PushAll, Waits

LEMMA ToggleType ==
  ASSUME Types, NEW e \in Entities
  PROVE  /\ [row[e] EXCEPT !.active = ~@] \in Row /\ Deleted(e) \in Row
         /\ LET r == [row[e] EXCEPT !.active = ~@] IN
            r.life = row[e].life /\ r.name = row[e].name /\ r.members = row[e].members
         /\ Deleted(e).life = "gone" /\ Deleted(e).name = row[e].name /\ Deleted(e).members = row[e].members
<1>1. row[e] \in Row
  BY DEF Types
<1> QED BY <1>1 DEF Row, Deleted

LEMMA CommitEffect ==
  ASSUME Types, NEW e \in Entities, Commit(e)
  PROVE  \E new : Writes(e, new)
<1>1. Adds /\ edits' \in 0..MaxEdits
  BY SameStack DEF Commit, Types
<1>2. tx[e] \in Row /\ tx[e] # NoTx
  BY DEF Commit, Types
<1>3. /\ Write(e, tx[e]) /\ tx' = [tx EXCEPT ![e] = NoTx]
      /\ UNCHANGED <<sync, res, wire, unheard, faults>>
  BY DEF Commit
<1> QED BY <1>1, <1>2, <1>3 DEF Writes

LEMMA CommitAndPushEffect ==
  ASSUME Types, NEW t \in AllTasks, NEW u \in Users, CommitAndPush(t, u)
  PROVE  \E new : Writes(u, new)
<1>1. u \in Entities
  BY DEF Entities
<1>2. PICK new \in Changed(u) \cup (IF Live(u) THEN {Deleted(u)} ELSE {}) : Write(u, new)
  BY DEF CommitAndPush
<1>3. Adds /\ edits' \in 0..MaxEdits /\ UNCHANGED <<sync, res, wire, unheard, faults>>
  BY <1>1, StartsAdds, EditType DEF CommitAndPush
<1>4. new \in Row
  BY <1>1, <1>2, ChangedType, ToggleType
<1>5. tx' = [tx EXCEPT ![u] = NoTx]
  BY DEF CommitAndPush, Types
<1> QED BY <1>1, <1>2, <1>3, <1>4, <1>5 DEF Writes

LEMMA SilentlyEffect ==
  ASSUME Types, NEW e \in Entities, Silently(e)
  PROVE  \E new : Writes(e, new)
<1>1. PICK new \in {Deleted(e)} \cup (IF e = Group THEN {} ELSE {[row[e] EXCEPT !.active = ~@]}) : Write(e, new)
  BY DEF Silently
<1>2. Adds /\ edits' \in 0..MaxEdits /\ UNCHANGED <<sync, res, wire, unheard, faults>> /\ Live(e)
  BY SameStack, EditType DEF Silently
<1>3. new \in Row
  BY <1>1, ToggleType
<1>4. tx' = [tx EXCEPT ![e] = NoTx]
  BY DEF Silently, Types
<1> QED BY <1>1, <1>2, <1>3, <1>4 DEF Writes

\* Every step is one of these.
Effect ==
  \/ Waits
  \/ \E e, new : Writes(e, new)
  \/ \E t, e : Passes(t, e)
  \/ \E t, e, f : Loads(t, e, f)
  \/ \E t, f : Rebuilds(t, f) \/ Puts(t, f) \/ Turns(t, f) \/ Adopts(t, f) \/ Lags(t, f)
  \/ \E t : Notes(t) \/ GivesUp(t) \/ Loses(t)
  \/ \E T : Dies(T)
  \/ \E q \in wire : Straggles(q)
  \/ UNCHANGED vars

LEMMA Effects == Types /\ [Next]_vars => Effect
<1> SUFFICES ASSUME Types, [Next]_vars PROVE Effect
  OBVIOUS
<1>0. Tasks \subseteq AllTasks
  BY DEF AllTasks
<1>1. CASE Requests
  <2>1. (\E t \in Tasks, e \in Entities : Begin(t, e)) => Waits
    BY <1>0, BeginEffect
  <2>2. (\E t \in Tasks, u \in Users : CommitAndPush(t, u)) => \E e, new : Writes(e, new)
    BY <1>0, CommitAndPushEffect
  <2>3. (\E e \in Entities : Silently(e)) => \E e, new : Writes(e, new)
    BY SilentlyEffect
  <2> QED BY <1>1, <2>1, <2>2, <2>3 DEF Requests, Effect
<1>2. CASE Faults
  <2>1. ASSUME NEW t \in AllTasks, Refused(t) \/ TimesOut(t) \/ Breaks(t) \/ Unrecorded(t) PROVE Effect
    BY <2>1, RefusedEffect, TimesOutEffect, BreaksEffect, UnrecordedEffect DEF Effect
  <2>2. ASSUME NEW T \in SUBSET AllTasks \ {{}}, Crash(T) PROVE Effect
    <3>1. Dies(T)
      BY <2>2, CrashEffect
    <3> QED BY <3>1 DEF Effect
  <2> QED BY <1>2, <2>1, <2>2 DEF Faults
<1>3. ASSUME NEW e \in Entities, Ends(e) PROVE Effect
  BY <1>3, CommitEffect, RollbackEffect DEF Ends, Effect
<1>4. ASSUME NEW t \in AllTasks, PushAll(t) \/ Step(t) PROVE Effect
  <2>1. CASE Read(t)
    BY <2>1, ReadEffect DEF Effect
  <2>2. CASE PushAll(t) \/ Refetch(t) \/ Answer(t) \/ Lookup(t) \/ Record(t) \/ GiveUp(t)
    BY <2>2, PushAllEffect, RefetchEffect, AnswerEffect, LookupEffect, RecordEffect, GiveUpEffect DEF Effect
  <2> QED BY <1>4, <2>1, <2>2 DEF Step
<1>5. CASE (\E q \in wire : Straggles(q)) \/ UNCHANGED vars
  BY <1>5 DEF Effect
<1> QED BY <1>1, <1>2, <1>3, <1>4, <1>5 DEF Next

-----------------------------------------------------------------------------
(* Types and references are kept *)

\* What is referred to exists.
Refs ==
  /\ \A e \in Entities : link[e] <= Len(res)
  /\ \A r \in DOMAIN res : res[r].members \subseteq DOMAIN res
  /\ \A t \in AllTasks : \A f \in Frames(t) : f.id <= Len(res) /\ f.row.members \subseteq DOMAIN res
  /\ \A q \in wire : q.id <= Len(res) /\ q.row.members \subseteq DOMAIN res

LEMMA PutFacts ==
  ASSUME Types, NEW id \in Nat, id <= Len(res), NEW b \in Resource, NEW new, new = Put(id, b)
  PROVE  /\ new \in Seq(Resource) /\ DOMAIN res = 1..Len(res) /\ DOMAIN new = 1..Len(new) /\ Len(res) \in Nat
         /\ Len(new) = IF id = 0 THEN Len(res) + 1 ELSE Len(res)
         /\ \A r \in DOMAIN new : new[r] = IF (id = 0 /\ r = Len(res) + 1) \/ r = id THEN b ELSE res[r]
<1>1. res \in Seq(Resource) /\ Len(res) \in Nat /\ DOMAIN res = 1..Len(res)
  BY LenProperties DEF Types
<1>2. CASE id = 0
  <2>1. new = Append(res, b)
    BY <1>2 DEF Put
  <2>2. /\ new \in Seq(Resource) /\ Len(new) = Len(res) + 1
        /\ \A r \in 1..Len(res) : new[r] = res[r]
        /\ new[Len(res) + 1] = b
    BY <1>1, <2>1, AppendProperties
  <2>3. DOMAIN new = 1..Len(new)
    BY <2>2, LenProperties
  <2> QED BY <1>1, <1>2, <2>2, <2>3
<1>3. CASE id # 0
  <2>1. id \in 1..Len(res) /\ new = [res EXCEPT ![id] = b]
    BY <1>1, <1>3 DEF Put
  <2>2. /\ new \in Seq(Resource) /\ Len(new) = Len(res)
        /\ \A r \in 1..Len(res) : new[r] = IF r = id THEN b ELSE res[r]
    BY <1>1, <2>1, ExceptSeq
  <2>3. DOMAIN new = 1..Len(new)
    BY <2>2, LenProperties
  <2> QED BY <1>1, <1>3, <2>2, <2>3
<1> QED BY <1>2, <1>3

\* The pushes after a step: those of before, as they were, and what took a place.
LEMMA SwapFrames ==
  ASSUME Types, NEW t, Busy(t), NEW F, Swap(t, F)
  PROVE  /\ \A s \in AllTasks : \A g \in In(stack'[s]) :
              (s = t /\ g \in F) \/ (g \in Frames(s) /\ (s = t => g \in Below(t)))
         /\ \A s \in AllTasks : \A h \in Frames(s) : h \in In(stack'[s]) \/ (s = t /\ h = Top(t))
         /\ \A g \in F : g \in In(stack'[t])
BY Tops DEF Swap, Busy

LEMMA MemberIdsKnown ==
  ASSUME Types, Refs
  PROVE  MemberIds \subseteq DOMAIN res
<1>1. DOMAIN res = 1..Len(res) /\ Len(res) \in Nat
  BY LenProperties DEF Types
<1>2. \A u \in Linked : u \in Entities /\ link[u] \in Nat /\ link[u] # 0
  BY DEF Linked, Members, Types, Row, Entities
<1> QED BY <1>1, <1>2 DEF MemberIds, Refs

LEMMA BodyKnown ==
  ASSUME Types, Refs, NEW e \in Entities
  PROVE  Body(e).members \subseteq DOMAIN res /\ NoBody.members \subseteq DOMAIN res
BY MemberIdsKnown DEF Body, NoBody

LEMMA WriteTypes ==
  ASSUME Types, NEW e, NEW new, Writes(e, new)
  PROVE  /\ row' \in [Entities -> Row] /\ held' \in [Entities -> SUBSET Names]
         /\ tx' \in [Entities -> Row \cup {NoTx}]
         /\ fresh' \in [Entities -> BOOLEAN] /\ roster' \in BOOLEAN
<1>1. /\ row' = [row EXCEPT ![e] = new] /\ held' = [held EXCEPT ![e] = @ \cup {new.name}]
      /\ fresh' = [fresh EXCEPT ![e] = FALSE] /\ roster' = (roster /\ e # Group /\ new.life # "gone")
      /\ tx' = [tx EXCEPT ![e] = NoTx] /\ new \in Row /\ e \in Entities
  BY DEF Writes, Write
<1>2. new.name \in Names
  BY <1>1 DEF Row
<1>3. /\ row' \in [Entities -> Row] /\ tx' \in [Entities -> Row \cup {NoTx}]
      /\ fresh' \in [Entities -> BOOLEAN] /\ roster' \in BOOLEAN
  BY <1>1 DEF Types
<1>4. held[e] \cup {new.name} \in SUBSET Names
  BY <1>1, <1>2 DEF Types
<1>5. held' \in [Entities -> SUBSET Names]
  BY <1>1, <1>4 DEF Types
<1> QED BY <1>3, <1>5

LEMMA SpoilTypes ==
  ASSUME Types, NEW E, Spoil(E)
  PROVE  fresh' \in [Entities -> BOOLEAN] /\ roster' \in BOOLEAN
BY DEF Types, Spoil

LEMMA RequestType ==
  ASSUME NEW f \in Frame, f.of \in Entities
  PROVE  Request(f) \in Sent
BY DEF Frame, AnyFrame, Request, Sent

LEMMA StragglesFacts ==
  ASSUME Types, Refs, NEW q \in wire, Straggles(q)
  PROVE  /\ q \in Sent /\ q.id <= Len(res) /\ q.row \in Resource /\ q.id \in Nat /\ q.of \in Entities
         /\ wire' = wire \ {q} /\ UNCHANGED <<console, sync, stack, hist, faults>>
         /\ res' = Put(q.id, q.row) \/ res' = res
BY DEF Types, Refs, Straggles, Sent

LEMMA TypesKept ==
  ASSUME Types, Refs, Effect
  PROVE  Types'
<1> USE DEF console, sync, hist, rest, vars
<1>1. CASE Waits
  BY <1>1 DEF Waits, Types, Adds
<1>2. ASSUME NEW e, NEW new, Writes(e, new) PROVE Types'
  BY <1>2, WriteTypes DEF Writes, Types, Adds
<1>3. ASSUME NEW t, NEW e, Passes(t, e) PROVE Types'
  BY <1>3 DEF Passes, Types, Swap
<1>4. ASSUME NEW t, NEW e, NEW f, Loads(t, e, f) PROVE Types'
  <2>1. Alone(e, t) \in BOOLEAN
    BY DEF Alone
  <2>2. fresh' \in [Entities -> BOOLEAN] /\ roster' \in BOOLEAN
    BY <1>4, <2>1 DEF Loads, Types
  <2> QED BY <1>4, <2>2 DEF Loads, Types, Swap
<1>5. ASSUME NEW t, NEW f, Rebuilds(t, f) PROVE Types'
  BY <1>5, ScimAssumption DEF Rebuilds, Types, Swap, Entities
<1>6. ASSUME NEW t, NEW f, Puts(t, f) PROVE Types'
  <2>1. Top(t) \in Frame /\ Top(t) \in Frames(t) /\ t \in AllTasks
    BY <1>6, Tops DEF Puts, Busy
  <2>2. Top(t).id \in Nat /\ Top(t).id <= Len(res) /\ Top(t).row \in Resource
    BY <2>1, OfEntity DEF Refs
  <2>3. res' \in Seq(Resource)
    BY <1>6, <2>2, PutFacts DEF Puts
  <2> QED BY <1>6, <2>3 DEF Puts, Types, Swap
<1>7. ASSUME NEW t, NEW f, Turns(t, f) PROVE Types'
  BY <1>7 DEF Turns, Types, Swap, faulty
<1>8. ASSUME NEW t, Notes(t) \/ \E f : Adopts(t, f) PROVE Types'
  <2>1. Top(t).of \in Entities /\ Top(t).id \in Nat
    <3>1. Busy(t) /\ Top(t).at # "each"
      BY <1>8 DEF Notes, Adopts
    <3> QED BY <3>1, Tops, OfEntity
  <2>2. Upsert(Top(t).of, Top(t).id) /\ stack' \in [AllTasks -> Stacks]
    BY <1>8 DEF Notes, Adopts, Swap
  <2>3. link' \in [Entities -> Nat] /\ err' \in [Entities -> BOOLEAN] /\ roster' \in BOOLEAN
    BY <2>1, <2>2 DEF Upsert, Types
  <2> QED BY <1>8, <2>2, <2>3 DEF Notes, Adopts, Types
<1>9. ASSUME NEW t, GivesUp(t) PROVE Types'
  BY <1>9 DEF GivesUp, Types, Swap, UpsertError
<1>10. ASSUME NEW t, Loses(t) PROVE Types'
  <2>1. Top(t).of \in Entities
    BY <1>10, Tops, OfEntity DEF Loses
  <2> QED BY <1>10, <2>1, SpoilTypes DEF Loses, Types, Swap, faulty
<1>11. ASSUME NEW t, NEW f, Lags(t, f) PROVE Types'
  <2>1. Request(Top(t)) \in Sent
    BY <1>11, Tops, OfEntity, RequestType DEF Lags
  <2> QED BY <1>11, <2>1, SpoilTypes DEF Lags, Types, Swap, faulty
<1>12. ASSUME NEW T, Dies(T) PROVE Types'
  <2>1. \A f \in Dead(T) : f \in Frame
    BY <1>12, AllFrames DEF Dies, Dead, Frames, Types
  <2>2. \A f \in Dead(T) : f.at = "sent" => Request(f) \in Sent
    BY <2>1, OfEntity, RequestType
  <2>3. wire' \subseteq Sent
    BY <1>12, <2>2 DEF Dies, Types
  <2> QED BY <1>12, <2>3, SpoilTypes DEF Dies, Types, faulty
<1>13. ASSUME NEW q \in wire, Straggles(q) PROVE Types'
  <2>1. res' \in Seq(Resource)
    <3>1. q.id \in Nat /\ q.id <= Len(res) /\ q.row \in Resource /\ (res' = Put(q.id, q.row) \/ res' = res)
      BY <1>13, StragglesFacts
    <3>2. CASE res' = Put(q.id, q.row)
      BY <3>1, <3>2, PutFacts
    <3>3. CASE res' = res
      BY <3>3 DEF Types
    <3> QED BY <3>1, <3>2, <3>3
  <2> QED BY <1>13, <2>1, StragglesFacts DEF Types
<1>14. CASE UNCHANGED vars
  BY <1>14 DEF Types
<1> QED BY <1>1, <1>2, <1>3, <1>4, <1>5, <1>6, <1>7, <1>8, <1>9, <1>10, <1>11, <1>12, <1>13, <1>14 DEF Effect

\* Requests and pushes refer to what exists, before and after.
Knows(f)  == f.id <= Len(res) /\ f.row.members \subseteq DOMAIN res

LEMMA RefsOf ==
  ASSUME Types, Refs, Types', Len(res) <= Len(res'),
         \A e \in Entities : link'[e] <= Len(res'),
         \A r \in DOMAIN res' : res'[r].members \subseteq DOMAIN res \/ (r \in DOMAIN res /\ res'[r] = res[r]),
         \A s \in AllTasks : \A g \in In(stack'[s]) :
            \/ g.id <= Len(res') /\ g.row.members \subseteq DOMAIN res
            \/ g \in Frames(s),
         \A q \in wire' : q \in wire \/ Knows(q)
  PROVE  Refs'
<1>1. /\ Len(res) \in Nat /\ DOMAIN res = 1..Len(res)
      /\ Len(res') \in Nat /\ DOMAIN res' = 1..Len(res')
  BY LenProperties DEF Types
<1>2. DOMAIN res \subseteq DOMAIN res'
  BY <1>1
<1>3. \A r \in DOMAIN res' : res'[r].members \subseteq DOMAIN res'
  BY <1>2 DEF Refs
<1>4. ASSUME NEW s \in AllTasks, NEW g \in In(stack'[s])
      PROVE  g.id <= Len(res') /\ g.row.members \subseteq DOMAIN res'
  <2>1. CASE g.id <= Len(res') /\ g.row.members \subseteq DOMAIN res
    BY <2>1, <1>2
  <2>2. CASE g \in Frames(s)
    <3>1. g.id <= Len(res) /\ g.row.members \subseteq DOMAIN res
      BY <2>2 DEF Refs
    <3>2. g.id \in Nat
      BY <2>2, AllFrames, OfEntity DEF Frames, Types
    <3> QED BY <1>1, <1>2, <3>1, <3>2
  <2> QED BY <1>4, <2>1, <2>2
<1>5. ASSUME NEW q \in wire' PROVE q.id <= Len(res') /\ q.row.members \subseteq DOMAIN res'
  <2>1. q.id <= Len(res) /\ q.row.members \subseteq DOMAIN res
    BY <1>5 DEF Refs, Knows
  <2>2. q.id \in Nat
    BY <1>5 DEF Types, Sent
  <2> QED BY <1>1, <1>2, <2>1, <2>2
<1> QED BY <1>3, <1>4, <1>5 DEF Refs, Frames

\* What was known of a push at work, and what a new one is known by.
LEMMA TopKnown ==
  ASSUME Types, Refs, NEW t, Busy(t)
  PROVE  /\ Knows(Top(t)) /\ Top(t).id \in Nat /\ Top(t).row \in Resource
         /\ Top(t).of \in Entities => Request(Top(t)) \in Sent /\ Knows(Request(Top(t)))
<1>1. Top(t) \in Frame /\ Top(t) \in Frames(t) /\ t \in AllTasks
  BY Tops DEF Busy
<1> QED BY <1>1, OfEntity, RequestType DEF Refs, Knows, Request

LEMMA SameKnown ==
  ASSUME Types, Refs
  PROVE  /\ Len(res) \in Nat /\ DOMAIN res = 1..Len(res)
         /\ \A r \in DOMAIN res : res[r].members \subseteq DOMAIN res
         /\ \A e \in Entities : link[e] <= Len(res) /\ link[e] \in Nat
         /\ 0 <= Len(res) /\ NoBody.members \subseteq DOMAIN res
BY LenProperties DEF Types, Refs, NoBody

LEMMA LeftFrames ==
  ASSUME Types, Refs, NEW t, Busy(t), NEW e \in Entities, Chosen(t, e), NEW g \in Left(t, e)
  PROVE  g.id <= Len(res) /\ g.row.members \subseteq DOMAIN res
BY LeftType, TopKnown DEF Knows

\* The steps that leave the resources and what is known of them alone.
LEMMA RefsSame ==
  ASSUME Types, Refs, Types', res' = res, link' = link, wire' = wire,
         \A s \in AllTasks : \A g \in In(stack'[s]) :
            (g.id <= Len(res) /\ g.row.members \subseteq DOMAIN res) \/ g \in Frames(s)
  PROVE  Refs'
<1>1. /\ Len(res) <= Len(res')
      /\ \A e \in Entities : link'[e] <= Len(res')
      /\ \A r \in DOMAIN res' : res'[r].members \subseteq DOMAIN res \/ (r \in DOMAIN res /\ res'[r] = res[r])
      /\ \A q \in wire' : q \in wire \/ Knows(q)
      /\ \A s \in AllTasks : \A g \in In(stack'[s]) :
            (g.id <= Len(res') /\ g.row.members \subseteq DOMAIN res) \/ g \in Frames(s)
  BY SameKnown
<1> QED BY <1>1, RefsOf

LEMMA RefsKept ==
  ASSUME Types, Refs, Effect
  PROVE  Refs'
<1> USE DEF console, sync, hist, rest, vars
<1>0. Types'
  BY TypesKept
<1>1. CASE Waits
  BY <1>1, <1>0, RefsSame, SameKnown DEF Waits, Adds
<1>2. ASSUME NEW e, NEW new, Writes(e, new) PROVE Refs'
  BY <1>2, <1>0, RefsSame, SameKnown DEF Writes, Adds
<1>3. ASSUME NEW t, NEW e, Passes(t, e) PROVE Refs'
  <2>1. /\ Busy(t) /\ e \in Entities /\ Chosen(t, e) /\ Swap(t, Left(t, e))
        /\ res' = res /\ link' = link /\ wire' = wire
    BY <1>3 DEF Passes
  <2>2. \A s \in AllTasks : \A g \in In(stack'[s]) : (s = t /\ g \in Left(t, e)) \/ g \in Frames(s)
    BY <2>1, SwapFrames
  <2> QED BY <1>0, <2>1, <2>2, LeftFrames, RefsSame
<1>4. ASSUME NEW t, NEW e, NEW f, Loads(t, e, f) PROVE Refs'
  <2>1. /\ Busy(t) /\ e \in Entities /\ Chosen(t, e) /\ Swap(t, {f} \cup Left(t, e))
        /\ f.row = Body(e) /\ f.id = link[e] /\ res' = res /\ link' = link /\ wire' = wire
    BY <1>4 DEF Loads
  <2>2. \A s \in AllTasks : \A g \in In(stack'[s]) : (s = t /\ g \in {f} \cup Left(t, e)) \/ g \in Frames(s)
    BY <2>1, SwapFrames
  <2>3. f.id <= Len(res) /\ f.row.members \subseteq DOMAIN res
    BY <2>1, BodyKnown, SameKnown
  <2> QED BY <1>0, <2>1, <2>2, <2>3, LeftFrames, RefsSame
<1>5. ASSUME NEW t, NEW f, Rebuilds(t, f) PROVE Refs'
  <2>1. /\ Busy(t) /\ Swap(t, {f}) /\ f.id = Top(t).id /\ f.row = Refetched(Top(t))
        /\ res' = res /\ link' = link /\ wire' = wire
    BY <1>5 DEF Rebuilds
  <2>2. Knows(Top(t)) /\ Top(t).row \in Resource
    BY <2>1, TopKnown
  <2>3. f.id <= Len(res) /\ f.row.members \subseteq DOMAIN res
    BY <2>1, <2>2, MemberIdsKnown DEF Refetched, Knows, Resource
  <2> QED BY <1>0, <2>1, <2>3, SwapFrames, RefsSame
<1>6. ASSUME NEW t, NEW f, Puts(t, f) PROVE Refs'
  <2>1. /\ Busy(t) /\ Swap(t, {f}) /\ res' = Put(Top(t).id, Top(t).row)
        /\ f.row = NoBody /\ link' = link /\ wire' = wire
        /\ f.id = IF Top(t).id = 0 THEN Len(res) + 1 ELSE Top(t).id
    BY <1>6 DEF Puts
  <2>2. Knows(Top(t)) /\ Top(t).row \in Resource /\ Top(t).id \in Nat
    BY <2>1, TopKnown
  <2>3. /\ Len(res') = IF Top(t).id = 0 THEN Len(res) + 1 ELSE Len(res)
        /\ DOMAIN res' = 1..Len(res')
        /\ \A r \in DOMAIN res' :
             res'[r] = IF (Top(t).id = 0 /\ r = Len(res) + 1) \/ r = Top(t).id THEN Top(t).row ELSE res[r]
    BY <2>1, <2>2, PutFacts DEF Knows
  <2>4. Len(res) <= Len(res') /\ f.id <= Len(res') /\ f.row.members \subseteq DOMAIN res
    BY <2>1, <2>2, <2>3, SameKnown DEF Knows
  <2>5. \A r \in DOMAIN res' : res'[r].members \subseteq DOMAIN res \/ (r \in DOMAIN res /\ res'[r] = res[r])
    BY <2>2, <2>3, SameKnown DEF Knows
  <2>6. \A e \in Entities : link'[e] <= Len(res')
    BY <2>1, <2>3, SameKnown
  <2>7. \A s \in AllTasks : \A g \in In(stack'[s]) :
            (g.id <= Len(res') /\ g.row.members \subseteq DOMAIN res) \/ g \in Frames(s)
    BY <2>1, <2>4, SwapFrames
  <2> QED BY <1>0, <2>1, <2>4, <2>5, <2>6, <2>7, RefsOf
<1>7. ASSUME NEW t, NEW f, Turns(t, f) PROVE Refs'
  <2>1. Busy(t) /\ Swap(t, {f}) /\ res' = res /\ link' = link /\ wire' = wire
    BY <1>7 DEF Turns
  <2>2. f.id <= Len(res) /\ f.row.members \subseteq DOMAIN res
    BY <1>7, <2>1, TopKnown, SameKnown DEF Turns, Fresh, Knows
  <2> QED BY <1>0, <2>1, <2>2, SwapFrames, RefsSame
<1>8. ASSUME NEW t, Notes(t) \/ \E f : Adopts(t, f) PROVE Refs'
  <2>1. Busy(t) /\ Top(t).at # "each" /\ Upsert(Top(t).of, Top(t).id) /\ res' = res /\ wire' = wire
    BY <1>8 DEF Notes, Adopts
  <2>2. Knows(Top(t)) /\ Top(t).id \in Nat /\ Top(t).of \in Entities
    BY <2>1, TopKnown, Tops, OfEntity
  <2>3. \A e \in Entities : link'[e] <= Len(res')
    BY <2>1, <2>2, SameKnown DEF Upsert, Types, Knows
  <2>4. \A s \in AllTasks : \A g \in In(stack'[s]) :
            (g.id <= Len(res') /\ g.row.members \subseteq DOMAIN res) \/ g \in Frames(s)
    <3>1. CASE Notes(t)
      BY <2>1, <3>1, SwapFrames DEF Notes
    <3>2. ASSUME NEW f, Adopts(t, f)
          PROVE  \A s \in AllTasks : \A g \in In(stack'[s]) :
                   (g.id <= Len(res') /\ g.row.members \subseteq DOMAIN res) \/ g \in Frames(s)
      <4>1. Swap(t, {f}) /\ f.id = 0 /\ f.row = NoBody
        BY <3>2 DEF Adopts, Fresh
      <4> QED BY <2>1, <4>1, SwapFrames, SameKnown
    <3> QED BY <1>8, <3>1, <3>2
  <2>5. Len(res) <= Len(res')
    BY <2>1, SameKnown
  <2> QED BY <1>0, <2>1, <2>3, <2>4, <2>5, RefsOf
<1>9. ASSUME NEW t, GivesUp(t) PROVE Refs'
  BY <1>9, <1>0, SwapFrames, RefsSame DEF GivesUp
<1>10. ASSUME NEW t, Loses(t) PROVE Refs'
  BY <1>10, <1>0, SwapFrames, RefsSame DEF Loses
<1>11. ASSUME NEW t, NEW f, Lags(t, f) PROVE Refs'
  <2>1. /\ Busy(t) /\ Swap(t, {f}) /\ Fresh(f) /\ Top(t).at = "sent" /\ res' = res /\ link' = link
        /\ wire' = wire \cup {Request(Top(t))}
    BY <1>11 DEF Lags
  <2>2. Knows(Request(Top(t)))
    BY <2>1, TopKnown, Tops, OfEntity
  <2>3. \A s \in AllTasks : \A g \in In(stack'[s]) :
            (g.id <= Len(res') /\ g.row.members \subseteq DOMAIN res) \/ g \in Frames(s)
    BY <2>1, SwapFrames, SameKnown DEF Fresh
  <2>4. Len(res) <= Len(res') /\ \A e \in Entities : link'[e] <= Len(res')
    BY <2>1, SameKnown
  <2> QED BY <1>0, <2>1, <2>2, <2>3, <2>4, RefsOf
<1>12. ASSUME NEW T, Dies(T) PROVE Refs'
  <2>1. /\ T \subseteq AllTasks /\ res' = res /\ link' = link
        /\ wire' = wire \cup {Request(f) : f \in {f \in Dead(T) : f.at = "sent"}}
        /\ \A s \in AllTasks : \A g \in In(stack'[s]) : g \in Frames(s)
    BY <1>12 DEF Dies
  <2>2. \A f \in Dead(T) : Knows(Request(f))
    BY <2>1 DEF Dead, Refs, Knows, Request
  <2>3. Len(res) <= Len(res') /\ \A e \in Entities : link'[e] <= Len(res')
    BY <2>1, SameKnown
  <2>4. \A q \in wire' : q \in wire \/ Knows(q)
    BY <2>1, <2>2
  <2> QED BY <1>0, <2>1, <2>3, <2>4, RefsOf
<1>13. ASSUME NEW q \in wire, Straggles(q) PROVE Refs'
  <2>1. /\ q.id \in Nat /\ q.id <= Len(res) /\ q.row \in Resource /\ q.row.members \subseteq DOMAIN res
        /\ wire' = wire \ {q} /\ link' = link /\ stack' = stack
        /\ res' = Put(q.id, q.row) \/ res' = res
    BY <1>13, StragglesFacts DEF Refs
  <2>2. /\ Len(res) <= Len(res')
        /\ \A r \in DOMAIN res' : res'[r].members \subseteq DOMAIN res \/ (r \in DOMAIN res /\ res'[r] = res[r])
    <3>1. CASE res' = res
      BY <3>1, SameKnown
    <3>2. CASE res' = Put(q.id, q.row)
      <4>1. /\ Len(res') = IF q.id = 0 THEN Len(res) + 1 ELSE Len(res)
            /\ DOMAIN res' = 1..Len(res')
            /\ \A r \in DOMAIN res' : res'[r] = IF (q.id = 0 /\ r = Len(res) + 1) \/ r = q.id THEN q.row ELSE res[r]
        BY <2>1, <3>2, PutFacts
      <4> QED BY <2>1, <4>1, SameKnown
    <3> QED BY <2>1, <3>1, <3>2
  <2>3. \A e \in Entities : link'[e] <= Len(res')
    BY <1>0, <2>1, <2>2, SameKnown, LenProperties DEF Types
  <2>4. \A s \in AllTasks : \A g \in In(stack'[s]) : g \in Frames(s)
    BY <2>1 DEF Frames
  <2> QED BY <1>0, <2>1, <2>2, <2>3, <2>4, RefsOf
<1>14. CASE UNCHANGED vars
  <2>1. \A s \in AllTasks : \A g \in In(stack'[s]) : g \in Frames(s)
    BY <1>14 DEF Frames
  <2> QED BY <1>14, <1>0, <2>1, RefsSame
<1> QED BY <1>1, <1>2, <1>3, <1>4, <1>5, <1>6, <1>7, <1>8, <1>9, <1>10, <1>11, <1>12, <1>13, <1>14 DEF Effect

-----------------------------------------------------------------------------
(* Names *)

\* A row has a name of its kind, and had it; a deleted one is not written again.
Rows ==
  /\ \A e \in Entities : /\ Live(e) => row[e].name \in held[e]
                         /\ held[e] \subseteq NamesOf(e) /\ row[e].name \in NamesOf(e)
                         /\ tx[e] # NoTx => /\ tx[e].name \in NamesOf(e)
                                            /\ tx[e].life = "live" /\ row[e].life # "gone"
  /\ \A u \in row[Group].members : row[u].life # "new"
  /\ tx[Group] # NoTx => \A u \in tx[Group].members : row[u].life # "new"

\* What is sent of an entity has a name it had.
HasName(e, b) == e \in Entities => b.name \in held[e]
Named ==
  /\ \A t \in AllTasks : \A f \in Frames(t) :
       f.at \in {"each", "sent", "conflict"} => HasName(f.of, f.row)
  /\ \A q \in wire : HasName(q.of, q.row)

LEMMA WriteFacts ==
  ASSUME Types, Rows, NEW e, NEW new, Writes(e, new)
  PROVE  /\ e \in Entities /\ new \in Row /\ new.name \in NamesOf(e) /\ new.life \in {"live", "gone"}
         /\ new.life = "live" => row[e].life # "gone"
         /\ e = Group => \A u \in new.members : row[u].life # "new"
         /\ row' = [row EXCEPT ![e] = new] /\ held' = [held EXCEPT ![e] = @ \cup {new.name}]
         /\ tx' = [tx EXCEPT ![e] = NoTx]
         /\ fresh' = [fresh EXCEPT ![e] = FALSE] /\ roster' = (roster /\ e # Group /\ new.life # "gone")
<1>1. /\ e \in Entities /\ new \in Row
      /\ row' = [row EXCEPT ![e] = new] /\ held' = [held EXCEPT ![e] = @ \cup {new.name}]
      /\ tx' = [tx EXCEPT ![e] = NoTx]
      /\ fresh' = [fresh EXCEPT ![e] = FALSE] /\ roster' = (roster /\ e # Group /\ new.life # "gone")
  BY DEF Writes, Write
<1>2. CASE new = tx[e] /\ new # NoTx
  BY <1>1, <1>2 DEF Rows
<1>3. CASE e \in Users /\ new \in Changed(e)
  BY <1>1, <1>3, ChangedType, ScimAssumption DEF Rows
<1>4. CASE Live(e) /\ (new = Deleted(e) \/ (e # Group /\ new = [row[e] EXCEPT !.active = ~@]))
  BY <1>1, <1>4, ToggleType DEF Rows, Live
<1> QED BY <1>1, <1>2, <1>3, <1>4 DEF Writes

\* Names are only added, and rows change only when they are written.
LEMMA ConsoleSteps == Effect => Waits \/ (\E e, new : Writes(e, new)) \/ UNCHANGED <<row, held, tx>>
<1> USE DEF console, sync, hist, rest, vars
<1>1. \A t, e : Passes(t, e) => UNCHANGED <<row, held, tx>>
  BY DEF Passes
<1>2. \A t, e, f : Loads(t, e, f) => UNCHANGED <<row, held, tx>>
  BY DEF Loads
<1>3. \A t, f : Rebuilds(t, f) \/ Puts(t, f) \/ Turns(t, f) => UNCHANGED <<row, held, tx>>
  BY DEF Rebuilds, Puts, Turns
<1>4. \A t, f : Adopts(t, f) \/ Lags(t, f) => UNCHANGED <<row, held, tx>>
  BY DEF Adopts, Lags
<1>5. \A t : Notes(t) \/ GivesUp(t) \/ Loses(t) => UNCHANGED <<row, held, tx>>
  BY DEF Notes, GivesUp, Loses
<1>6. \A T : Dies(T) => UNCHANGED <<row, held, tx>>
  BY DEF Dies
<1>7. \A q : Straggles(q) => UNCHANGED <<row, held, tx>>
  BY DEF Straggles
<1> QED BY <1>1, <1>2, <1>3, <1>4, <1>5, <1>6, <1>7 DEF Effect

LEMMA HeldGrows ==
  ASSUME Types, Effect
  PROVE  \A e \in Entities : held[e] \subseteq held'[e]
<1>1. ASSUME NEW e, NEW new, Writes(e, new) PROVE \A d \in Entities : held[d] \subseteq held'[d]
  BY <1>1 DEF Writes, Write, Types
<1>2. (\E e, new : Writes(e, new)) \/ held' = held
  BY ConsoleSteps DEF Waits
<1> QED BY <1>1, <1>2

LEMMA RowsKept ==
  ASSUME Types, Rows, Effect
  PROVE  Rows'
<1> USE DEF console, sync, hist, rest, vars
<1>1. CASE Waits
  <2>1. row' = row /\ held' = held /\ \A e \in Entities : tx'[e] \in {tx[e], NoTx} \cup Changed(e)
    BY <1>1 DEF Waits
  <2>2. \A e \in Entities : tx'[e] # NoTx => tx'[e].name \in NamesOf(e) /\ tx'[e].life = "live" /\ row[e].life # "gone"
    BY <2>1, ChangedType DEF Rows
  <2>3. tx'[Group] # NoTx => \A u \in tx'[Group].members : row[u].life # "new"
    BY <2>1, ChangedType DEF Rows, Entities, Live
  <2> QED BY <2>1, <2>2, <2>3 DEF Rows, Live
<1>2. ASSUME NEW e, NEW new, Writes(e, new) PROVE Rows'
  <2>1. /\ e \in Entities /\ new.name \in NamesOf(e) /\ new.life \in {"live", "gone"}
        /\ new.life = "live" => row[e].life # "gone"
        /\ e = Group => \A u \in new.members : row[u].life # "new"
        /\ row' = [row EXCEPT ![e] = new] /\ held' = [held EXCEPT ![e] = @ \cup {new.name}]
        /\ tx' = [tx EXCEPT ![e] = NoTx]
    BY <1>2, WriteFacts
  <2>2. /\ \A d \in Entities : row'[d] = IF d = e THEN new ELSE row[d]
        /\ \A d \in Entities : held'[d] = IF d = e THEN held[d] \cup {new.name} ELSE held[d]
        /\ \A d \in Entities : tx'[d] = IF d = e THEN NoTx ELSE tx[d]
    BY <2>1 DEF Types
  <2>3. ASSUME NEW d \in Entities
        PROVE  /\ row'[d].life = "live" => row'[d].name \in held'[d]
               /\ held'[d] \subseteq NamesOf(d) /\ row'[d].name \in NamesOf(d)
               /\ tx'[d] # NoTx => /\ tx'[d].name \in NamesOf(d)
                                   /\ tx'[d].life = "live" /\ row'[d].life # "gone"
    BY <2>1, <2>2 DEF Rows, Live
  <2>4. \A u \in Users : row[u].life # "new" => row'[u].life # "new"
    BY <2>1, <2>2 DEF Entities
  <2>5. Group \in Entities /\ row[Group] \in Row /\ new \in Row /\ (tx[Group] # NoTx => tx[Group] \in Row)
    BY <1>2 DEF Types, Entities, Writes
  <2>6. \A u \in row'[Group].members : row'[u].life # "new"
    <3>1. \A u \in row'[Group].members : u \in Users /\ row[u].life # "new"
      BY <2>1, <2>2, <2>5 DEF Rows, Row
    <3> QED BY <3>1, <2>4
  <2>7. tx'[Group] # NoTx => \A u \in tx'[Group].members : row'[u].life # "new"
    BY <2>2, <2>4, <2>5 DEF Rows, Row
  <2> QED BY <2>3, <2>6, <2>7 DEF Rows, Live
<1>3. CASE UNCHANGED <<row, held, tx>>
  BY <1>3 DEF Rows, Live
<1> QED BY <1>1, <1>2, <1>3, ConsoleSteps

LEMMA NamedOf ==
  ASSUME Types, Named, Effect,
         \A s \in AllTasks : \A g \in In(stack'[s]) :
           \/ g \in Frames(s)
           \/ g.at \in {"each", "sent", "conflict"} => HasName(g.of, g.row),
         \A q \in wire' : q \in wire \/ HasName(q.of, q.row)
  PROVE  Named'
<1>1. \A e \in Entities : held[e] \subseteq held'[e]
  BY HeldGrows
<1>2. \A e, b : HasName(e, b) => HasName(e, b)'
  BY <1>1 DEF HasName
<1>3. ASSUME NEW s \in AllTasks, NEW g \in In(stack'[s]), g.at \in {"each", "sent", "conflict"}
      PROVE  HasName(g.of, g.row)'
  BY <1>2, <1>3 DEF Named
<1>4. ASSUME NEW q \in wire' PROVE HasName(q.of, q.row)'
  BY <1>2, <1>4 DEF Named
<1> QED BY <1>3, <1>4 DEF Named, Frames

LEMMA NamedKept ==
  ASSUME Types, Refs, Rows, Named, Effect
  PROVE  Named'
<1> USE DEF console, sync, hist, rest, vars
<1>0. \A t : Busy(t) => Top(t) \in Frames(t) /\ t \in AllTasks
  BY Tops DEF Busy
<1>1. CASE Waits
  <2>1. \A s \in AllTasks : \A g \in In(stack'[s]) :
          g \in Frames(s) \/ (g.at \in {"each", "sent", "conflict"} => HasName(g.of, g.row))
    BY <1>1, ScimAssumption DEF Waits, Adds, HasName
  <2> QED BY <1>1, <2>1, NamedOf DEF Waits
<1>2. ASSUME NEW e, NEW new, Writes(e, new) PROVE Named'
  <2>1. \A s \in AllTasks : \A g \in In(stack'[s]) :
          g \in Frames(s) \/ (g.at \in {"each", "sent", "conflict"} => HasName(g.of, g.row))
    BY <1>2, ScimAssumption DEF Writes, Adds, HasName
  <2> QED BY <1>2, <2>1, NamedOf DEF Writes
<1>3. ASSUME NEW t, NEW e, Passes(t, e) PROVE Named'
  <2>1. /\ Busy(t) /\ e \in Entities /\ Chosen(t, e) /\ Swap(t, Left(t, e)) /\ wire' = wire
    BY <1>3 DEF Passes
  <2>2. \A g \in Left(t, e) : g.at \in {"each", "sent", "conflict"} => HasName(g.of, g.row)
    BY <1>0, <2>1, LeftType DEF Named
  <2> QED BY <2>1, <2>2, SwapFrames, NamedOf
<1>4. ASSUME NEW t, NEW e, NEW f, Loads(t, e, f) PROVE Named'
  <2>1. /\ Busy(t) /\ e \in Entities /\ Chosen(t, e) /\ Swap(t, {f} \cup Left(t, e)) /\ wire' = wire
        /\ Live(e) /\ f.of = e /\ f.row = Body(e)
    BY <1>4 DEF Loads
  <2>2. \A g \in Left(t, e) : g.at \in {"each", "sent", "conflict"} => HasName(g.of, g.row)
    BY <1>0, <2>1, LeftType DEF Named
  <2>3. HasName(f.of, f.row)
    BY <2>1, BodyType DEF Rows, HasName
  <2> QED BY <2>1, <2>2, <2>3, SwapFrames, NamedOf
<1>5. ASSUME NEW t, NEW f, Rebuilds(t, f) PROVE Named'
  <2>1. /\ Busy(t) /\ Swap(t, {f}) /\ wire' = wire /\ Top(t).at = "each" /\ Top(t).of = Group /\ f.of = Group
        /\ f.row = Refetched(Top(t))
    BY <1>5 DEF Rebuilds
  <2>2. HasName(Top(t).of, Top(t).row) /\ Top(t).row \in Resource
    BY <1>0, <2>1, TopKnown DEF Named
  <2>3. f.row.name = Top(t).row.name
    BY <2>1, <2>2 DEF Refetched, Resource
  <2>4. HasName(f.of, f.row)
    BY <2>1, <2>2, <2>3 DEF HasName
  <2> QED BY <2>1, <2>4, SwapFrames, NamedOf
<1>6. ASSUME NEW t, NEW f, Puts(t, f) PROVE Named'
  BY <1>6, SwapFrames, NamedOf DEF Puts
<1>7. ASSUME NEW t, NEW f, Turns(t, f) PROVE Named'
  <2>1. Busy(t) /\ Swap(t, {f}) /\ wire' = wire
    BY <1>7 DEF Turns
  <2>2. f.at \in {"each", "sent", "conflict"} => HasName(f.of, f.row)
    BY <1>0, <1>7, <2>1 DEF Turns, Named, Fresh
  <2> QED BY <2>1, <2>2, SwapFrames, NamedOf
<1>8. ASSUME NEW t, Notes(t) PROVE Named'
  BY <1>8, SwapFrames, NamedOf DEF Notes
<1>9. ASSUME NEW t, NEW f, Adopts(t, f) PROVE Named'
  BY <1>9, SwapFrames, NamedOf DEF Adopts, Fresh
<1>10. ASSUME NEW t, GivesUp(t) PROVE Named'
  BY <1>10, SwapFrames, NamedOf DEF GivesUp
<1>11. ASSUME NEW t, Loses(t) PROVE Named'
  BY <1>11, SwapFrames, NamedOf DEF Loses
<1>12. ASSUME NEW t, NEW f, Lags(t, f) PROVE Named'
  <2>1. /\ Busy(t) /\ Swap(t, {f}) /\ Fresh(f) /\ Top(t).at = "sent" /\ wire' = wire \cup {Request(Top(t))}
    BY <1>12 DEF Lags
  <2>2. HasName(Top(t).of, Top(t).row)
    BY <1>0, <2>1 DEF Named
  <2>3. HasName(Request(Top(t)).of, Request(Top(t)).row)
    BY <2>2 DEF Request
  <2> QED BY <2>1, <2>3, SwapFrames, NamedOf DEF Fresh
<1>13. ASSUME NEW T, Dies(T) PROVE Named'
  <2>1. /\ T \subseteq AllTasks
        /\ wire' = wire \cup {Request(f) : f \in {f \in Dead(T) : f.at = "sent"}}
        /\ \A s \in AllTasks : \A g \in In(stack'[s]) : g \in Frames(s)
    BY <1>13 DEF Dies
  <2>2. \A f \in Dead(T) : f.at = "sent" => HasName(Request(f).of, Request(f).row)
    BY <2>1 DEF Dead, Named, Request
  <2>3. \A q \in wire' : q \in wire \/ HasName(q.of, q.row)
    BY <2>1, <2>2
  <2> QED BY <2>1, <2>3, NamedOf
<1>14. ASSUME NEW q \in wire, Straggles(q) PROVE Named'
  BY <1>14, NamedOf DEF Straggles, Frames
<1>15. CASE UNCHANGED vars
  BY <1>15, NamedOf DEF Frames
<1> QED BY <1>1, <1>2, <1>3, <1>4, <1>5, <1>6, <1>7, <1>8, <1>9, <1>10, <1>11, <1>12, <1>13, <1>14, <1>15 DEF Effect

-----------------------------------------------------------------------------
(* Whose a resource is *)

\* A row, a push or a request may still write e's to r.
Owns(e, r) == \/ link[e] = r
              \/ \E t \in AllTasks : \E f \in Frames(t) : f.of = e /\ f.id = r
              \/ \E q \in wire : q.of = e /\ q.id = r
Shares(d, e) == d = e \/ (Reused(d) /\ Reused(e))

\* A resource is one entity's, or that of several which had another's name;
\* and its name was theirs.
Owned == \A r \in DOMAIN res : \A d \in Entities : Owns(d, r) =>
           /\ \A e \in Entities : Owns(e, r) => Shares(d, e)
           /\ \E c \in Entities : res[r].name \in held[c] /\ Shares(c, d)

LEMMA SameName ==
  ASSUME NEW d \in Entities, NEW e \in Entities, NEW n \in held[d], n \in held[e]
  PROVE  Shares(d, e)
BY DEF Shares, Reused

LEMMA SharesGrow ==
  ASSUME Types, Effect, NEW d \in Entities, NEW e \in Entities
  PROVE  /\ Reused(d) => Reused(d)'
         /\ Shares(d, e) => Shares(d, e)'
<1>1. \A c \in Entities : held[c] \subseteq held'[c]
  BY HeldGrows
<1>2. \A c \in Entities : Reused(c) => Reused(c)'
  BY <1>1 DEF Reused
<1> QED BY <1>2 DEF Shares

\* Nobody comes to own what it did not.
NoneGains ==
  /\ \A e \in Entities : Owns(e, link'[e])
  /\ \A s \in AllTasks : \A g \in In(stack'[s]) : g \in Frames(s) \/ g.id = 0 \/ (g.of \in Entities => Owns(g.of, g.id))
  /\ \A q \in wire' : q \in wire \/ (q.of \in Entities => Owns(q.of, q.id))

LEMMA OwnsLess ==
  ASSUME NoneGains, NEW d \in Entities, NEW r, r # 0, Owns(d, r)'
  PROVE  Owns(d, r)
<1>1. CASE link'[d] = r
  BY <1>1 DEF NoneGains
<1>2. ASSUME NEW s \in AllTasks, NEW g \in In(stack'[s]), g.of = d, g.id = r PROVE Owns(d, r)
  BY <1>2 DEF NoneGains, Owns
<1>3. ASSUME NEW q \in wire', q.of = d, q.id = r PROVE Owns(d, r)
  BY <1>3 DEF NoneGains, Owns
<1> QED BY <1>1, <1>2, <1>3 DEF Owns, Frames

LEMMA OwnedSame ==
  ASSUME Types, Owned, Effect, NoneGains, res' = res
  PROVE  Owned'
<1> SUFFICES ASSUME NEW r \in DOMAIN res, NEW d \in Entities, Owns(d, r)'
             PROVE  /\ \A e \in Entities : Owns(e, r)' => Shares(d, e)'
                    /\ \E c \in Entities : res[r].name \in held'[c] /\ Shares(c, d)'
  BY DEF Owned
<1>1. r # 0
  BY LenProperties DEF Types
<1>2. \A e \in Entities : Owns(e, r)' => Owns(e, r)
  BY <1>1, OwnsLess
<1>3. Owns(d, r)
  BY <1>2
<1>4. \A e \in Entities : Owns(e, r)' => Shares(d, e)'
  BY <1>2, <1>3, SharesGrow DEF Owned
<1>5. PICK c \in Entities : res[r].name \in held[c] /\ Shares(c, d)
  BY <1>3 DEF Owned
<1>6. res[r].name \in held'[c] /\ Shares(c, d)'
  BY <1>5, SharesGrow, HeldGrows
<1> QED BY <1>4, <1>6

LEMMA SharesChain ==
  ASSUME NEW c \in Entities, NEW d \in Entities, NEW e \in Entities, Shares(c, d), Shares(d, e)
  PROVE  Shares(c, e) /\ Shares(d, c)
BY DEF Shares

LEMMA PutIsDone ==
  ASSUME Types, NEW id \in Nat, id <= Len(res), NEW b \in Resource, res' = Put(id, b)
  PROVE  /\ DOMAIN res = 1..Len(res) /\ DOMAIN res' = 1..Len(res') /\ Len(res) \in Nat
         /\ Len(res') = IF id = 0 THEN Len(res) + 1 ELSE Len(res)
         /\ \A i \in DOMAIN res' : res'[i] = IF (id = 0 /\ i = Len(res) + 1) \/ i = id THEN b ELSE res[i]
<1>1. PICK new : new = Put(id, b)
  OBVIOUS
<1>2. res' = new
  BY <1>1
<1>3. /\ DOMAIN res = 1..Len(res) /\ DOMAIN new = 1..Len(new) /\ Len(res) \in Nat
      /\ Len(new) = IF id = 0 THEN Len(res) + 1 ELSE Len(res)
      /\ \A i \in DOMAIN new : new[i] = IF (id = 0 /\ i = Len(res) + 1) \/ i = id THEN b ELSE res[i]
  BY <1>1, PutFacts, SMTT(30)
<1> QED BY <1>2, <1>3

\* An entity's body is put under an id it owns, or under a new one.
LEMMA OwnedPut ==
  ASSUME Types, Refs, Owned, Effect,
         NEW o \in Entities, NEW id \in Nat, id <= Len(res), NEW b \in Resource, b.name \in held[o],
         id # 0 => Owns(o, id), res' = Put(id, b),
         \A d \in Entities, r \in DOMAIN res : Owns(d, r)' => Owns(d, r),
         id = 0 => \A n : n = Len(res) + 1 => \A d \in Entities : Owns(d, n)' => d = o
  PROVE  Owned'
<1> SUFFICES ASSUME NEW r \in DOMAIN res', NEW d \in Entities, Owns(d, r)'
             PROVE  /\ \A e \in Entities : Owns(e, r)' => Shares(d, e)'
                    /\ \E c \in Entities : res'[r].name \in held'[c] /\ Shares(c, d)'
  BY DEF Owned
<1>0. /\ DOMAIN res = 1..Len(res) /\ DOMAIN res' = 1..Len(res') /\ Len(res) \in Nat
      /\ Len(res') = IF id = 0 THEN Len(res) + 1 ELSE Len(res)
      /\ \A i \in DOMAIN res' : res'[i] = IF (id = 0 /\ i = Len(res) + 1) \/ i = id THEN b ELSE res[i]
  BY PutIsDone
<1>1. /\ DOMAIN res = 1..Len(res) /\ DOMAIN res' = 1..Len(res') /\ Len(res) \in Nat
      /\ Len(res') = IF id = 0 THEN Len(res) + 1 ELSE Len(res)
      /\ res'[r] = IF (id = 0 /\ r = Len(res) + 1) \/ r = id THEN b ELSE res[r]
  BY <1>0
<1>2. b.name \in held'[o]
  BY HeldGrows
<1>3. CASE r \notin DOMAIN res
  <2>1. id = 0 /\ r = Len(res) + 1
    BY <1>1, <1>3
  <2>2. d = o /\ \A e \in Entities : Owns(e, r)' => e = o
    BY <2>1
  <2>3. Shares(o, o)'
    BY DEF Shares
  <2> QED BY <1>1, <1>2, <2>1, <2>2, <2>3
<1>4. CASE r \in DOMAIN res
  <2>1. \A e \in Entities : Owns(e, r)' => Owns(e, r)
    BY <1>4
  <2>2. Owns(d, r)
    BY <2>1
  <2>3. \A e \in Entities : Owns(e, r)' => Shares(d, e)'
    BY <1>4, <2>1, <2>2, SharesGrow DEF Owned
  <2>4. CASE r = id
    <3>1. id # 0 /\ Owns(o, r)
      BY <1>1, <1>4, <2>4
    <3>2. Shares(o, d)
      BY <1>4, <2>2, <3>1 DEF Owned
    <3>3. Shares(o, d)' /\ res'[r] = b
      BY <1>1, <2>4, <3>2, SharesGrow
    <3> QED BY <1>2, <2>3, <3>3
  <2>5. CASE r # id
    <3>1. res'[r] = res[r]
      BY <1>1, <1>4, <2>5
    <3>2. PICK c \in Entities : res[r].name \in held[c] /\ Shares(c, d)
      BY <1>4, <2>2 DEF Owned
    <3>3. res[r].name \in held'[c] /\ Shares(c, d)'
      BY <3>2, SharesGrow, HeldGrows
    <3> QED BY <2>3, <3>1, <3>3
  <2> QED BY <2>4, <2>5
<1> QED BY <1>3, <1>4

\* An entity comes to own what it finds under a name it had.
LEMMA OwnedFound ==
  ASSUME Types, Owned, Effect, res' = res,
         NEW o \in Entities, NEW k \in DOMAIN res, res[k].name \in held[o],
         \A d \in Entities, r \in DOMAIN res : Owns(d, r)' => Owns(d, r) \/ (d = o /\ r = k)
  PROVE  Owned'
<1> SUFFICES ASSUME NEW r \in DOMAIN res, NEW d \in Entities, Owns(d, r)'
             PROVE  /\ \A e \in Entities : Owns(e, r)' => Shares(d, e)'
                    /\ \E c \in Entities : res[r].name \in held'[c] /\ Shares(c, d)'
  BY DEF Owned
<1>1. \A e \in Entities : Owns(e, k) => Shares(o, e)
  <2> SUFFICES ASSUME NEW e \in Entities, Owns(e, k) PROVE Shares(o, e)
    OBVIOUS
  <2>1. PICK c \in Entities : res[k].name \in held[c] /\ Shares(c, e)
    BY DEF Owned
  <2>2. Shares(o, c)
    BY <2>1, SameName
  <2> QED BY <2>1, <2>2, SharesChain
<1>2. \A e \in Entities : Owns(e, r)' => Shares(d, e)
  <2> SUFFICES ASSUME NEW e \in Entities, Owns(e, r)' PROVE Shares(d, e)
    OBVIOUS
  <2>1. Owns(d, r) \/ (d = o /\ r = k)
    OBVIOUS
  <2>2. Owns(e, r) \/ (e = o /\ r = k)
    OBVIOUS
  <2>3. CASE Owns(d, r) /\ Owns(e, r)
    BY <2>3 DEF Owned
  <2>4. CASE d = o /\ r = k
    BY <1>1, <2>2, <2>4 DEF Shares
  <2>5. CASE Owns(d, r) /\ e = o /\ r = k
    BY <1>1, <2>5 DEF Shares
  <2> QED BY <2>1, <2>2, <2>3, <2>4, <2>5
<1>3. \E c \in Entities : res[r].name \in held[c] /\ Shares(c, d)
  BY DEF Owned, Shares
<1> QED BY <1>2, <1>3, SharesGrow, HeldGrows

LEMMA NotBeyond ==
  ASSUME Types, Refs, NEW d \in Entities, NEW n, n = Len(res) + 1
  PROVE  ~Owns(d, n)
<1>1. Len(res) \in Nat /\ \A i \in Nat : i <= Len(res) => i # n
  BY SameKnown
<1>2. link[d] # n
  BY <1>1, SameKnown
<1>3. \A t \in AllTasks : \A f \in Frames(t) : f.id # n
  <2>1. \A t \in AllTasks : \A f \in Frames(t) : f.id \in Nat
    BY AllFrames, OfEntity DEF Types, Frames
  <2> QED BY <1>1, <2>1 DEF Refs
<1>4. \A q \in wire : q.id # n
  BY <1>1 DEF Refs, Types, Sent
<1> QED BY <1>2, <1>3, <1>4 DEF Owns

LEMMA TopOwns ==
  ASSUME Types, NEW t, Busy(t)
  PROVE  Owns(Top(t).of, Top(t).id)
BY Tops DEF Owns, Busy

LEMMA OwnedKept ==
  ASSUME Types, Refs, Named, Owned, Effect
  PROVE  Owned'
<1> USE DEF console, sync, hist, rest, vars
<1>0. \A e \in Entities : Owns(e, link[e])
  BY DEF Owns
<1>1. CASE Waits
  BY <1>0, <1>1, OwnedSame DEF Waits, Adds, NoneGains
<1>2. ASSUME NEW e, NEW new, Writes(e, new) PROVE Owned'
  BY <1>0, <1>2, OwnedSame DEF Writes, Adds, NoneGains
<1>3. ASSUME NEW t, NEW e, Passes(t, e) PROVE Owned'
  <2>1. /\ Busy(t) /\ e \in Entities /\ Chosen(t, e) /\ Swap(t, Left(t, e))
        /\ wire' = wire /\ link' = link /\ res' = res
    BY <1>3 DEF Passes
  <2>2. \A g \in Left(t, e) : Owns(g.of, g.id)
    BY <2>1, LeftType, TopOwns
  <2> QED BY <1>0, <2>1, <2>2, SwapFrames, OwnedSame DEF NoneGains
<1>4. ASSUME NEW t, NEW e, NEW f, Loads(t, e, f) PROVE Owned'
  <2>1. /\ Busy(t) /\ e \in Entities /\ Chosen(t, e) /\ Swap(t, {f} \cup Left(t, e))
        /\ wire' = wire /\ link' = link /\ res' = res /\ f.of = e /\ f.id = link[e]
    BY <1>4 DEF Loads
  <2>2. \A g \in {f} \cup Left(t, e) : Owns(g.of, g.id)
    BY <1>0, <2>1, LeftType, TopOwns
  <2> QED BY <1>0, <2>1, <2>2, SwapFrames, OwnedSame DEF NoneGains
<1>5. ASSUME NEW t, NEW f, Rebuilds(t, f) PROVE Owned'
  <2>1. /\ Busy(t) /\ Swap(t, {f}) /\ wire' = wire /\ link' = link /\ res' = res
        /\ f.of = Top(t).of /\ f.id = Top(t).id
    BY <1>5 DEF Rebuilds
  <2>2. Owns(f.of, f.id)
    BY <2>1, TopOwns
  <2> QED BY <1>0, <2>1, <2>2, SwapFrames, OwnedSame DEF NoneGains
<1>6. ASSUME NEW t, NEW f, Puts(t, f) PROVE Owned'
  <2> DEFINE o == Top(t).of
             i == Top(t).id
  <2>1. /\ Busy(t) /\ Swap(t, {f}) /\ wire' = wire /\ link' = link /\ res' = Put(i, Top(t).row)
        /\ f.of = o /\ f.id = (IF i = 0 THEN Len(res) + 1 ELSE i) /\ Top(t).at = "sent" /\ Top(t) \in Frame
    BY <1>6, Tops DEF Puts
  <2>2. o \in Entities /\ i \in Nat /\ i <= Len(res) /\ Top(t).row \in Resource /\ Owns(o, i)
    BY <2>1, OfEntity, TopKnown, TopOwns DEF Knows
  <2>3. Top(t).row.name \in held[o]
    BY <2>1, <2>2, Tops DEF Named, HasName, Busy
  <2>4. \A s \in AllTasks : \A g \in In(stack'[s]) : g = f \/ g \in Frames(s)
    BY <2>1, SwapFrames
  <2> HIDE DEF o, i
  <2>5. ASSUME NEW d \in Entities, NEW r, Owns(d, r)'
        PROVE  Owns(d, r) \/ (d = o /\ r = f.id)
    BY <2>1, <2>4, <2>5 DEF Owns, Frames
  <2>6. \A d \in Entities, r \in DOMAIN res : Owns(d, r)' => Owns(d, r)
    <3> SUFFICES ASSUME NEW d \in Entities, NEW r \in DOMAIN res, Owns(d, r)' PROVE Owns(d, r)
      OBVIOUS
    <3>1. r # Len(res) + 1
      BY SameKnown
    <3> QED BY <2>1, <2>2, <2>5, <3>1
  <2>7. i = 0 => \A n : n = Len(res) + 1 => \A d \in Entities : Owns(d, n)' => d = o
    BY <2>5, NotBeyond
  <2> QED BY <2>1, <2>2, <2>3, <2>6, <2>7, OwnedPut
<1>7. ASSUME NEW t, NEW f, Turns(t, f) PROVE Owned'
  <2>1. /\ Busy(t) /\ Swap(t, {f}) /\ wire' = wire /\ link' = link /\ res' = res
        /\ Top(t).of \in Entities /\ f.of = Top(t).of
    BY <1>7 DEF Turns
  <2>2. CASE f.id = 0 \/ f.id = Top(t).id
    <3>1. f.id = 0 \/ Owns(f.of, f.id)
      BY <2>1, <2>2, TopOwns
    <3> QED BY <1>0, <2>1, <3>1, SwapFrames, OwnedSame DEF NoneGains
  <2>3. CASE Top(t).at = "conflict" /\ f.id \in DOMAIN res /\ res[f.id].name = Top(t).row.name
    <3>1. res[f.id].name \in held[f.of]
      BY <2>1, <2>3, Tops DEF Named, HasName, Busy
    <3>2. \A s \in AllTasks : \A g \in In(stack'[s]) : g = f \/ g \in Frames(s)
      BY <2>1, SwapFrames
    <3>3. ASSUME NEW d \in Entities, NEW r \in DOMAIN res, Owns(d, r)'
          PROVE  Owns(d, r) \/ (d = f.of /\ r = f.id)
      BY <2>1, <3>2, <3>3 DEF Owns, Frames
    <3> QED BY <2>1, <2>3, <3>1, <3>3, OwnedFound
  <2> QED BY <1>7, <2>2, <2>3 DEF Turns, Fresh
<1>8. ASSUME NEW t, Notes(t) \/ \E f : Adopts(t, f) PROVE Owned'
  <2>1. /\ Busy(t) /\ Top(t).at # "each" /\ Upsert(Top(t).of, Top(t).id) /\ wire' = wire /\ res' = res
    BY <1>8 DEF Notes, Adopts
  <2>2. Top(t).of \in Entities
    BY <2>1, Tops, OfEntity
  <2>3. \A e \in Entities : Owns(e, link'[e])
    BY <1>0, <2>1, <2>2, TopOwns DEF Upsert, Types
  <2>4. \A s \in AllTasks : \A g \in In(stack'[s]) : g \in Frames(s) \/ g.id = 0
    <3>1. CASE Notes(t)
      BY <2>1, <3>1, SwapFrames DEF Notes
    <3>2. ASSUME NEW f, Adopts(t, f) PROVE \A s \in AllTasks : \A g \in In(stack'[s]) : g \in Frames(s) \/ g.id = 0
      BY <2>1, <3>2, SwapFrames DEF Adopts, Fresh
    <3> QED BY <1>8, <3>1, <3>2
  <2> QED BY <2>1, <2>3, <2>4, OwnedSame DEF NoneGains
<1>9. ASSUME NEW t, GivesUp(t) PROVE Owned'
  BY <1>0, <1>9, SwapFrames, OwnedSame DEF GivesUp, NoneGains
<1>10. ASSUME NEW t, Loses(t) PROVE Owned'
  BY <1>0, <1>10, SwapFrames, OwnedSame DEF Loses, NoneGains
<1>11. ASSUME NEW t, NEW f, Lags(t, f) PROVE Owned'
  <2>1. /\ Busy(t) /\ Swap(t, {f}) /\ f.id = 0 /\ wire' = wire \cup {Request(Top(t))} /\ link' = link /\ res' = res
    BY <1>11 DEF Lags, Fresh
  <2>2. Owns(Request(Top(t)).of, Request(Top(t)).id)
    BY <2>1, TopOwns DEF Request
  <2> QED BY <1>0, <2>1, <2>2, SwapFrames, OwnedSame DEF NoneGains
<1>12. ASSUME NEW T, Dies(T) PROVE Owned'
  <2>1. /\ T \subseteq AllTasks /\ link' = link /\ res' = res
        /\ wire' = wire \cup {Request(f) : f \in {f \in Dead(T) : f.at = "sent"}}
        /\ \A s \in AllTasks : \A g \in In(stack'[s]) : g \in Frames(s)
    BY <1>12 DEF Dies
  <2>2. \A f \in Dead(T) : Owns(Request(f).of, Request(f).id)
    BY <2>1 DEF Dead, Owns, Request
  <2>3. \A q \in wire' : q \in wire \/ Owns(q.of, q.id)
    BY <2>1, <2>2
  <2> QED BY <1>0, <2>1, <2>3, OwnedSame DEF NoneGains
<1>13. ASSUME NEW q \in wire, Straggles(q) PROVE Owned'
  <2>1. /\ q.id \in Nat /\ q.id <= Len(res) /\ q.row \in Resource /\ q.of \in Entities
        /\ wire' = wire \ {q} /\ link' = link /\ stack' = stack
        /\ res' = Put(q.id, q.row) \/ res' = res
    BY <1>13, StragglesFacts
  <2>2. NoneGains
    BY <1>0, <2>1 DEF NoneGains, Frames
  <2>3. CASE res' = res
    BY <2>2, <2>3, OwnedSame
  <2>4. CASE res' = Put(q.id, q.row)
    <3>1. q.row.name \in held[q.of] /\ Owns(q.of, q.id)
      BY <2>1 DEF Named, HasName, Owns
    <3>2. \A d \in Entities : \A r : r # 0 /\ Owns(d, r)' => Owns(d, r)
      BY <2>2, OwnsLess
    <3>3. \A r \in DOMAIN res : r # 0
      BY SameKnown
    <3>4. \A n : n = Len(res) + 1 => \A d \in Entities : ~Owns(d, n)'
      <4> SUFFICES ASSUME NEW n, n = Len(res) + 1, NEW d \in Entities PROVE ~Owns(d, n)'
        OBVIOUS
      <4>1. n # 0 /\ ~Owns(d, n)
        BY NotBeyond, SameKnown
      <4> QED BY <3>2, <4>1
    <3> QED BY <2>1, <2>4, <3>1, <3>2, <3>3, <3>4, OwnedPut
  <2> QED BY <2>1, <2>3, <2>4
<1>14. CASE UNCHANGED vars
  BY <1>0, <1>14, OwnedSame DEF NoneGains, Frames
<1> QED BY <1>1, <1>2, <1>3, <1>4, <1>5, <1>6, <1>7, <1>8, <1>9, <1>10, <1>11, <1>12, <1>13, <1>14 DEF Effect

-----------------------------------------------------------------------------
(* An entity whose row was read alone *)

IsAs(r, e) == res[r].name = row[e].name /\ res[r].active = row[e].active
NoPush(e)  == \A t \in AllTasks : \A f \in Frames(t) : f.of # e

\* One task at most is at work on it, with the row as it is; what an attempt
\* has left at the endpoint is the row, unless a name was another's.
AtOne(e) == \A s \in AllTasks : \A f \in Frames(s) : f.of = e /\ f.at \in Working =>
              \A t \in AllTasks : \A h \in Frames(t) : h.of = e /\ h.at \in Working => s = t
Sends(e) == \A t \in AllTasks : \A f \in Frames(t) : f.of = e =>
              /\ f.at \in {"sent", "each"} => f.row.name = row[e].name /\ f.row.active = row[e].active
              /\ f.at = "ok" /\ ~Reused(e) => IsAs(f.id, e)
CleanOK(e) == /\ Live(e) /\ \A q \in wire : q.of # e
              /\ AtOne(e) /\ Sends(e)
              /\ NoPush(e) /\ ~err[e] /\ ~Reused(e) => Current(e)
Clean == \A e \in Entities : fresh[e] => CleanOK(e)

\* g is h, or goes on with what h has read, or says nothing.
Follows(g, h) ==
  /\ g.of = h.of /\ h.at \in Working
  /\ g.at \in {"sent", "each"} => h.at \in {"sent", "each"} /\ h.row.name = g.row.name /\ h.row.active = g.row.active
  /\ g.at = "ok" => h.at = "ok" /\ h.id = g.id
Calm(d) == \A s \in AllTasks : \A g \in In(stack'[s]) :
             g.of = d /\ g.at \in Working => \E h \in Frames(s) : Follows(g, h)

LEMMA FollowsItself == \A h : h.at \in Working => Follows(h, h)
BY DEF Follows

LEMMA CalmSwap ==
  ASSUME Types, NEW t, Busy(t), NEW F, Swap(t, F), NEW d \in Entities,
         \A g \in F : g.of = d /\ g.at \in Working => Follows(g, Top(t))
  PROVE  Calm(d)
BY SwapFrames, Tops, FollowsItself DEF Calm, Busy

LEMMA CleanCalm ==
  ASSUME Types, Refs, NEW d \in Entities, CleanOK(d), Calm(d), row'[d] = row[d],
         \A q \in wire' : q.of = d => q \in wire, Reused(d) => Reused(d)',
         ~Reused(d) => \A r \in DOMAIN res : Owns(d, r) => res'[r] = res[r],
         NoPush(d)' => \/ err'[d] \/ Reused(d)' \/ Current(d)'
                       \/ NoPush(d) /\ link'[d] = link[d] /\ (err[d] => err'[d])
  PROVE  CleanOK(d)'
<1>1. Live(d)' /\ \A q \in wire' : q.of # d
  BY DEF CleanOK, Live
<1>2. AtOne(d)'
  <2> SUFFICES ASSUME NEW s \in AllTasks, NEW f \in In(stack'[s]), f.of = d, f.at \in Working,
                      NEW t \in AllTasks, NEW h \in In(stack'[t]), h.of = d, h.at \in Working
               PROVE  s = t
    BY DEF AtOne, Frames
  <2>1. PICK f1 \in Frames(s) : Follows(f, f1)
    BY DEF Calm
  <2>2. PICK h1 \in Frames(t) : Follows(h, h1)
    BY DEF Calm
  <2> QED BY <2>1, <2>2 DEF Follows, CleanOK, AtOne
<1>3. Sends(d)'
  <2> SUFFICES ASSUME NEW s \in AllTasks, NEW g \in In(stack'[s]), g.of = d
               PROVE  /\ g.at \in {"sent", "each"} => g.row.name = row'[d].name /\ g.row.active = row'[d].active
                      /\ g.at = "ok" /\ ~Reused(d)' =>
                           res'[g.id].name = row'[d].name /\ res'[g.id].active = row'[d].active
    BY DEF Sends, Frames, IsAs
  <2>1. CASE g.at \in Working
    <3>1. PICK h \in Frames(s) : Follows(g, h)
      BY <2>1 DEF Calm
    <3>2. /\ h.of = d
          /\ h.at \in {"sent", "each"} => h.row.name = row[d].name /\ h.row.active = row[d].active
          /\ h.at = "ok" /\ ~Reused(d) => IsAs(h.id, d)
      BY <3>1 DEF Follows, CleanOK, Sends
    <3>3. CASE g.at = "ok" /\ ~Reused(d)'
      <4>1. h.at = "ok" /\ h.id = g.id /\ ~Reused(d) /\ IsAs(h.id, d)
        BY <3>1, <3>2, <3>3 DEF Follows
      <4>2. h \in Frame
        BY AllFrames DEF Types, Frames
      <4>3. h.id \in Nat /\ h.id # 0 /\ h.id <= Len(res) /\ h.id \in DOMAIN res
        BY <4>1, <4>2, OfEntity, SameKnown DEF Refs, Frame, Fits
      <4>4. Owns(d, h.id)
        BY <3>2 DEF Owns
      <4>5. res'[g.id] = res[h.id]
        BY <4>1, <4>3, <4>4
      <4> QED BY <3>3, <4>1, <4>5 DEF IsAs
    <3>4. CASE g.at \in {"sent", "each"}
      BY <3>1, <3>2, <3>4 DEF Follows
    <3> QED BY <3>3, <3>4
  <2>2. CASE g.at \notin Working
    BY <2>2 DEF Working
  <2> QED BY <2>1, <2>2
<1>4. ASSUME NoPush(d)', ~err'[d], ~Reused(d)' PROVE Current(d)'
  <2>1. CASE NoPush(d) /\ link'[d] = link[d] /\ (err[d] => err'[d])
    <3>1. Current(d) /\ ~Reused(d)
      BY <1>4, <2>1 DEF CleanOK
    <3>2. link[d] \in DOMAIN res /\ Owns(d, link[d])
      BY <3>1, SameKnown DEF Current, Owns
    <3>3. res'[link[d]] = res[link[d]]
      BY <3>1, <3>2
    <3> QED BY <2>1, <3>1, <3>3 DEF Current
  <2> QED BY <1>4, <2>1
<1> QED BY <1>1, <1>2, <1>3, <1>4 DEF CleanOK

LEMMA AloneFrames ==
  ASSUME Types, NEW e, NEW t, Alone(e, t)
  PROVE  /\ \A q \in wire : q.of # e
         /\ \A s \in AllTasks \ {t} : \A g \in Frames(s) : g.of = e => g.at = "read"
BY DEF Alone, AtWork, Frames, In

\* A push that is there keeps its entity from having none.
LEMMA PushThere ==
  ASSUME NEW s \in AllTasks, NEW g \in In(stack'[s]), NEW d, g.of = d
  PROVE  ~NoPush(d)'
BY DEF NoPush, Frames

\* Where the pushes of d stay, there were none if there are none.
LEMMA PushesStay ==
  ASSUME Types, NEW t, Busy(t), NEW F, Swap(t, F), NEW d, NoPush(d)',
         Top(t).of = d => \E g \in F : g.of = d
  PROVE  NoPush(d)
<1>1. \A s \in AllTasks : \A g \in In(stack'[s]) : g.of # d
  BY DEF NoPush, Frames
<1>2. Top(t).of # d
  BY <1>1, SwapFrames DEF Busy
<1> QED BY <1>1, <1>2, SwapFrames DEF NoPush

LEMMA NotOthers ==
  ASSUME Types, Refs, Owned, NEW o \in Entities, NEW d \in Entities, d # o, ~Reused(d),
         NEW id \in Nat, id <= Len(res), id # 0 => Owns(o, id), NEW b \in Resource, res' = Put(id, b)
  PROVE  \A r \in DOMAIN res : Owns(d, r) => r # id /\ res'[r] = res[r]
<1> SUFFICES ASSUME NEW r \in DOMAIN res, Owns(d, r) PROVE r # id /\ res'[r] = res[r]
  OBVIOUS
<1>1. r # id
  BY SameKnown DEF Owned, Shares
<1>2. r \in DOMAIN res' /\ ~(id = 0 /\ r = Len(res) + 1)
  BY PutIsDone
<1> QED BY <1>1, <1>2, PutIsDone

\* The steps that change neither the rows nor the resources.
LEMMA CleanSame ==
  ASSUME Types, Refs, Effect, NEW d \in Entities, CleanOK(d), Calm(d), row' = row, res' = res,
         \A q \in wire' : q.of = d => q \in wire,
         NoPush(d)' => err'[d] \/ (NoPush(d) /\ link'[d] = link[d] /\ (err[d] => err'[d]))
  PROVE  CleanOK(d)'
<1>1. Reused(d) => Reused(d)'
  BY SharesGrow
<1> QED BY <1>1, CleanCalm

LEMMA CleanWaits ==
  ASSUME Types, Refs, Effect, Adds, NEW d \in Entities, CleanOK(d), row'[d] = row[d],
         UNCHANGED <<sync, res, wire>>
  PROVE  CleanOK(d)'
<1>1. Calm(d)
  BY FollowsItself, ScimAssumption DEF Calm, Adds, Working
<1>2. NoPush(d)' => NoPush(d)
  BY DEF Adds, NoPush, Frames
<1>3. Reused(d) => Reused(d)'
  BY SharesGrow
<1>4. res' = res /\ wire' = wire /\ link' = link /\ err' = err
  BY DEF sync
<1> HIDE DEF Calm, NoPush, Reused
<1> QED BY <1>1, <1>2, <1>3, <1>4, CleanCalm

\* A step of a push of o that leaves the rows, the resources and o's own record alone.
LEMMA CleanPush ==
  ASSUME Types, Refs, Effect, NEW t, Busy(t), NEW F, Swap(t, F), NEW d \in Entities, CleanOK(d),
         row' = row, res' = res, link'[d] = link[d], err[d] => err'[d],
         \A q \in wire' : q.of = d => q \in wire,
         \A g \in F : g.of = d /\ g.at \in Working => Follows(g, Top(t)),
         Top(t).of = d => err'[d] \/ \E g \in F : g.of = d
  PROVE  CleanOK(d)'
<1>1. Calm(d)
  BY CalmSwap
<1>2. NoPush(d)' => err'[d] \/ (NoPush(d) /\ link'[d] = link[d] /\ (err[d] => err'[d]))
  BY PushesStay
<1> QED BY <1>1, <1>2, CleanSame

LEMMA LeftFollows ==
  ASSUME Types, NEW t, Busy(t), NEW e \in Entities, Chosen(t, e)
  PROVE  /\ \A g \in Left(t, e) : Follows(g, Top(t)) /\ g.of = Top(t).of /\ g.of # e
         /\ \A d \in Entities : d # e /\ Top(t).of = d => \E g \in Left(t, e) : g.of = d
<1>1. \A g \in Left(t, e) : Follows(g, Top(t)) /\ g.of = Top(t).of /\ g.of # e
  BY LeftType DEF Follows, Working
<1>2. ASSUME NEW d \in Entities, d # e, Top(t).of = d PROVE Left(t, e) # {}
  BY <1>2, ScimAssumption DEF Left, Chosen
<1> QED BY <1>1, <1>2

LEMMA CleanLoads ==
  ASSUME Types, Refs, Owned, Effect, NEW t, NEW e, NEW f, Loads(t, e, f), fresh'[e]
  PROVE  CleanOK(e)'
<1> USE DEF console, sync, hist, rest
<1>1. /\ Busy(t) /\ e \in Entities /\ Chosen(t, e) /\ Live(e) /\ Swap(t, {f} \cup Left(t, e))
      /\ f.of = e /\ f.row = Body(e) /\ f.at \in {"sent", "each"} /\ row' = row /\ wire' = wire /\ t \in AllTasks
  BY DEF Loads, Busy
<1>2. Alone(e, t)
  BY <1>1 DEF Loads, Types
<1>3. \A s \in AllTasks : \A g \in In(stack'[s]) : g.of = e /\ g.at \in Working => s = t
  BY <1>1, <1>2, SwapFrames, AloneFrames DEF Working
<1>4. \A s \in AllTasks : \A g \in In(stack'[s]) : g.of = e /\ g.at \in Working => g = f
  BY <1>1, <1>3, SwapFrames, LeftType
<1>5. AtOne(e)'
  BY <1>3 DEF AtOne, Frames
<1>6. Sends(e)'
  BY <1>1, <1>4, BodyType DEF Sends, Frames, Working
<1>7. Live(e)' /\ \A q \in wire' : q.of # e
  BY <1>1, <1>2, AloneFrames DEF Live
<1>8. ~NoPush(e)'
  BY <1>1, SwapFrames, PushThere
<1> QED BY <1>5, <1>6, <1>7, <1>8 DEF CleanOK

\* What it has sent is what it had read.
LEMMA CleanPuts ==
  ASSUME Types, Refs, Owned, Effect, NEW t, NEW f, Puts(t, f),
         NEW o \in Entities, o = Top(t).of, CleanOK(o)
  PROVE  CleanOK(o)'
<1> USE DEF console, sync, hist, rest
<1> DEFINE i == Top(t).id
<1>1. /\ Busy(t) /\ Swap(t, {f}) /\ wire' = wire /\ res' = Put(i, Top(t).row) /\ row' = row
      /\ f.of = o /\ f.at = "ok" /\ f.id = (IF i = 0 THEN Len(res) + 1 ELSE i) /\ Top(t).at = "sent" /\ t \in AllTasks
  BY DEF Puts, Busy
<1>2. Top(t) \in Frames(t) /\ o \in Entities /\ i \in Nat /\ i <= Len(res) /\ Top(t).row \in Resource
  BY <1>1, Tops, OfEntity, TopKnown DEF Knows
<1>3. Top(t).row.name = row[o].name /\ Top(t).row.active = row[o].active
  BY <1>1, <1>2 DEF CleanOK, Sends
<1>4. res'[f.id] = Top(t).row
  <2>1. f.id \in DOMAIN res'
    BY <1>1, <1>2, PutIsDone
  <2> QED BY <1>1, <1>2, <2>1, PutIsDone
<1>5. \A s \in AllTasks : \A g \in Frames(s) : g.of = o /\ g.at \in Working => s = t
  BY <1>1, <1>2 DEF CleanOK, AtOne, Working
<1> HIDE DEF i
<1>6. \A s \in AllTasks : \A g \in In(stack'[s]) : g.of = o /\ g.at \in Working => s = t /\ g = f
  BY <1>1, <1>5, SwapFrames, Tops
<1>7. AtOne(o)'
  BY <1>6 DEF AtOne, Frames
<1>8. Sends(o)'
  BY <1>1, <1>3, <1>4, <1>6 DEF Sends, Frames, Working, IsAs
<1>9. Live(o)' /\ \A q \in wire' : q.of # o
  BY <1>1 DEF CleanOK, Live
<1>10. ~NoPush(o)'
  BY <1>1, SwapFrames, PushThere
<1> QED BY <1>7, <1>8, <1>9, <1>10 DEF CleanOK

LEMMA CleanNotes ==
  ASSUME Types, Refs, Effect, NEW t, Notes(t), NEW o \in Entities, o = Top(t).of, CleanOK(o)
  PROVE  CleanOK(o)'
<1> USE DEF console, sync, hist, rest
<1> DEFINE i == Top(t).id
<1>1. /\ Busy(t) /\ Swap(t, {}) /\ wire' = wire /\ res' = res /\ row' = row
      /\ Top(t).at = "ok" /\ Upsert(o, i) /\ t \in AllTasks
  BY DEF Notes, Busy
<1>2. Top(t) \in Frames(t) /\ Top(t) \in Frame /\ o \in Entities
  BY <1>1, Tops, OfEntity
<1>3. i # 0 /\ (~Reused(o) => IsAs(i, o))
  BY <1>1, <1>2 DEF CleanOK, Sends, Frame, Fits
<1>4. link'[o] = i
  BY <1>1, <1>2 DEF Upsert, Types
<1>5. Reused(o) => Reused(o)'
  BY <1>2, SharesGrow
<1> HIDE DEF i
<1>6. Reused(o)' \/ Current(o)'
  BY <1>1, <1>3, <1>4, <1>5 DEF Current, IsAs
<1>7. Calm(o)
  BY <1>1, <1>2, CalmSwap
<1> QED BY <1>1, <1>2, <1>5, <1>6, <1>7, CleanCalm

LEMMA CleanKept ==
  ASSUME Types, Refs, Rows, Owned, Clean, Effect
  PROVE  Clean'
<1> USE DEF console, sync, hist, rest, vars
<1> SUFFICES ASSUME NEW d \in Entities, fresh'[d] PROVE CleanOK(d)'
  BY DEF Clean
<1>0. fresh[d] => CleanOK(d)
  BY DEF Clean
<1>1. CASE Waits
  <2>1. CleanOK(d) /\ Adds /\ row' = row /\ UNCHANGED <<sync, res, wire>>
    BY <1>0, <1>1 DEF Waits
  <2> QED BY <2>1, CleanWaits
<1>2. ASSUME NEW e, NEW new, Writes(e, new) PROVE CleanOK(d)'
  <2>1. d # e /\ fresh[d] /\ row'[d] = row[d]
    BY <1>2, WriteFacts DEF Types
  <2>2. Adds /\ UNCHANGED <<sync, res, wire>>
    BY <1>2 DEF Writes
  <2> QED BY <1>0, <2>1, <2>2, CleanWaits
<1>3. ASSUME NEW t, NEW e, Passes(t, e) PROVE CleanOK(d)'
  <2>1. /\ Busy(t) /\ e \in Entities /\ Chosen(t, e) /\ ~Live(e) /\ Swap(t, Left(t, e)) /\ fresh[d]
        /\ row' = row /\ res' = res /\ link' = link /\ err' = err /\ wire' = wire
    BY <1>3 DEF Passes
  <2>2. d # e
    BY <1>0, <2>1 DEF CleanOK
  <2> QED BY <1>0, <2>1, <2>2, LeftFollows, CleanPush
<1>4. ASSUME NEW t, NEW e, NEW f, Loads(t, e, f) PROVE CleanOK(d)'
  <2>1. /\ Busy(t) /\ e \in Entities /\ Chosen(t, e) /\ Swap(t, {f} \cup Left(t, e)) /\ f.of = e
        /\ row' = row /\ res' = res /\ link' = link /\ err' = err /\ wire' = wire
        /\ fresh' = [fresh EXCEPT ![e] = Alone(e, t)]
    BY <1>4 DEF Loads
  <2>2. CASE d = e
    BY <1>4, <2>2, CleanLoads
  <2>3. CASE d # e
    <3>1. fresh[d]
      BY <2>1, <2>3 DEF Types
    <3> QED BY <1>0, <2>1, <2>3, <3>1, LeftFollows, CleanPush
  <2> QED BY <2>2, <2>3
<1>5. ASSUME NEW t, NEW f, Rebuilds(t, f) PROVE CleanOK(d)'
  <2>1. /\ Busy(t) /\ Swap(t, {f}) /\ fresh[d] /\ Top(t).at = "each" /\ Top(t).of = f.of /\ f.at = "sent"
        /\ row' = row /\ res' = res /\ link' = link /\ err' = err /\ wire' = wire /\ f.row = Refetched(Top(t))
    BY <1>5 DEF Rebuilds
  <2>2. Top(t).row \in Resource
    BY <2>1, TopKnown
  <2>3. f.row.name = Top(t).row.name /\ f.row.active = Top(t).row.active
    BY <2>1, <2>2 DEF Refetched, Resource
  <2>4. Follows(f, Top(t))
    BY <2>1, <2>3 DEF Follows, Working
  <2> QED BY <1>0, <2>1, <2>4, CleanPush
<1>6. ASSUME NEW t, NEW f, Puts(t, f) PROVE CleanOK(d)'
  <2>1. /\ Busy(t) /\ Swap(t, {f}) /\ fresh[d] /\ Top(t).at = "sent" /\ f.of = Top(t).of
        /\ res' = Put(Top(t).id, Top(t).row) /\ row' = row /\ link' = link /\ err' = err /\ wire' = wire
    BY <1>6 DEF Puts
  <2>2. CASE d = Top(t).of
    BY <1>0, <1>6, <2>1, <2>2, CleanPuts
  <2>3. CASE d # Top(t).of
    <3>1. Top(t).of \in Entities /\ Top(t).id \in Nat /\ Top(t).id <= Len(res) /\ Top(t).row \in Resource
      BY <2>1, Tops, OfEntity, TopKnown DEF Knows
    <3>2. Owns(Top(t).of, Top(t).id)
      BY <2>1, TopOwns
    <3>3. ~Reused(d) => \A r \in DOMAIN res : Owns(d, r) => res'[r] = res[r]
      BY <2>1, <2>3, <3>1, <3>2, NotOthers
    <3>4. Calm(d)
      BY <2>1, <2>3, CalmSwap
    <3>5. NoPush(d)' => NoPush(d)
      BY <2>1, <2>3, PushesStay
    <3>6. Reused(d) => Reused(d)'
      BY SharesGrow
    <3> QED BY <1>0, <2>1, <3>3, <3>4, <3>5, <3>6, CleanCalm
  <2> QED BY <2>2, <2>3
<1>7. ASSUME NEW t, NEW f, Turns(t, f) PROVE CleanOK(d)'
  <2>1. /\ Busy(t) /\ Swap(t, {f}) /\ fresh[d] /\ f.of = Top(t).of
        /\ row' = row /\ res' = res /\ link' = link /\ err' = err /\ wire' = wire
    BY <1>7 DEF Turns
  <2>2. f.at \in Working => Follows(f, Top(t))
    BY <1>7 DEF Turns, Fresh, Follows, Working
  <2> QED BY <1>0, <2>1, <2>2, CleanPush
<1>8. ASSUME NEW t, Notes(t) PROVE CleanOK(d)'
  <2>1. /\ Busy(t) /\ Swap(t, {}) /\ fresh[d] /\ Upsert(Top(t).of, Top(t).id) /\ Top(t).at = "ok"
        /\ row' = row /\ res' = res /\ wire' = wire
    BY <1>8 DEF Notes
  <2>2. CASE d = Top(t).of
    BY <1>0, <1>8, <2>1, <2>2, CleanNotes
  <2>3. CASE d # Top(t).of
    <3>1. link'[d] = link[d] /\ err'[d] = err[d]
      BY <2>1, <2>3 DEF Upsert, Types
    <3> QED BY <1>0, <2>1, <2>3, <3>1, CleanPush
  <2> QED BY <2>2, <2>3
<1>9. ASSUME NEW t, NEW f, Adopts(t, f) PROVE CleanOK(d)'
  <2>1. /\ Busy(t) /\ Swap(t, {f}) /\ fresh[d] /\ Upsert(Top(t).of, Top(t).id)
        /\ f.of = Top(t).of /\ f.at \notin Working /\ row' = row /\ res' = res /\ wire' = wire
    BY <1>9 DEF Adopts, Fresh, Working
  <2>2. CASE d = Top(t).of
    <3>1. ~NoPush(d)'
      BY <2>1, <2>2, SwapFrames, PushThere DEF Busy
    <3>2. Calm(d)
      BY <2>1, CalmSwap
    <3> QED BY <1>0, <2>1, <3>1, <3>2, CleanSame
  <2>3. CASE d # Top(t).of
    <3>1. link'[d] = link[d] /\ err'[d] = err[d]
      BY <2>1, <2>3 DEF Upsert, Types
    <3> QED BY <1>0, <2>1, <2>3, <3>1, CleanPush
  <2> QED BY <2>2, <2>3
<1>10. ASSUME NEW t, GivesUp(t) PROVE CleanOK(d)'
  <2>1. /\ Busy(t) /\ Swap(t, {}) /\ fresh[d] /\ err' = [err EXCEPT ![Top(t).of] = TRUE]
        /\ row' = row /\ res' = res /\ link' = link /\ wire' = wire
    BY <1>10 DEF GivesUp, UpsertError
  <2>2. (err[d] => err'[d]) /\ (Top(t).of = d => err'[d])
    BY <2>1 DEF Types
  <2> QED BY <1>0, <2>1, <2>2, CleanPush
<1>11. ASSUME NEW t, Loses(t) PROVE CleanOK(d)'
  <2>1. /\ Busy(t) /\ Swap(t, {}) /\ Spoil({Top(t).of})
        /\ row' = row /\ res' = res /\ link' = link /\ err' = err /\ wire' = wire
    BY <1>11 DEF Loses
  <2>2. fresh[d] /\ d # Top(t).of
    BY <2>1 DEF Spoil
  <2> QED BY <1>0, <2>1, <2>2, CleanPush
<1>12. ASSUME NEW t, NEW f, Lags(t, f) PROVE CleanOK(d)'
  <2>1. /\ Busy(t) /\ Swap(t, {f}) /\ Spoil({Top(t).of}) /\ f.of = Top(t).of
        /\ row' = row /\ res' = res /\ link' = link /\ err' = err /\ wire' = wire \cup {Request(Top(t))}
    BY <1>12 DEF Lags
  <2>2. fresh[d] /\ d # Top(t).of /\ Request(Top(t)).of # d
    BY <2>1 DEF Spoil, Request
  <2> QED BY <1>0, <2>1, <2>2, CleanPush
<1>13. ASSUME NEW T, Dies(T) PROVE CleanOK(d)'
  <2>1. /\ T \subseteq AllTasks
        /\ \A s \in AllTasks : In(stack'[s]) = IF s \in T THEN {} ELSE Frames(s)
        /\ wire' = wire \cup {Request(f) : f \in {f \in Dead(T) : f.at = "sent"}}
        /\ Spoil({f.of : f \in Dead(T)}) /\ row' = row /\ res' = res /\ link' = link /\ err' = err
    BY <1>13 DEF Dies
  <2>2. fresh[d] /\ \A f \in Dead(T) : f.of # d
    BY <2>1 DEF Spoil
  <2>3. \A s \in T : \A f \in Frames(s) : f.of # d
    BY <2>2 DEF Dead
  <2>4. Calm(d)
    BY <2>1, FollowsItself DEF Calm
  <2>5. NoPush(d)' => NoPush(d)
    BY <2>1, <2>3 DEF NoPush, Frames
  <2>6. \A q \in wire' : q.of = d => q \in wire
    BY <2>1, <2>2 DEF Request
  <2> QED BY <1>0, <2>1, <2>2, <2>4, <2>5, <2>6, CleanSame
<1>14. ASSUME NEW q \in wire, Straggles(q) PROVE CleanOK(d)'
  <2>1. /\ q.id \in Nat /\ q.id <= Len(res) /\ q.row \in Resource /\ q.of \in Entities
        /\ wire' = wire \ {q} /\ row' = row /\ link' = link /\ err' = err /\ stack' = stack /\ fresh' = fresh
        /\ res' = Put(q.id, q.row) \/ res' = res
    BY <1>14, StragglesFacts
  <2>2. q.of # d /\ Owns(q.of, q.id)
    BY <1>0, <2>1 DEF CleanOK, Owns
  <2>3. ~Reused(d) => \A r \in DOMAIN res : Owns(d, r) => res'[r] = res[r]
    BY <2>1, <2>2, NotOthers
  <2>4. Calm(d) /\ (NoPush(d)' => NoPush(d))
    BY <2>1, FollowsItself DEF Calm, NoPush, Frames
  <2>5. Reused(d) => Reused(d)'
    BY SharesGrow
  <2> QED BY <1>0, <2>1, <2>3, <2>4, <2>5, CleanCalm
<1>15. CASE UNCHANGED vars
  <2>1. Calm(d) /\ (NoPush(d)' => NoPush(d))
    BY <1>15, FollowsItself DEF Calm, NoPush, Frames
  <2> QED BY <1>0, <1>15, <2>1, CleanSame
<1> QED BY <1>1, <1>2, <1>3, <1>4, <1>5, <1>6, <1>7, <1>8, <1>9, <1>10, <1>11, <1>12, <1>13, <1>14, <1>15 DEF Effect

-----------------------------------------------------------------------------
(* A group whose members were read alone *)

\* The members the endpoint does not know, and what may keep one out.
Out == Members \ Linked
Excused(u, t) == err[u] \/ u \in unheard \/ \E h \in Frames(t) : h.of = u
Waiting == \A t \in AllTasks : \A f \in Frames(t) : f.of = Group /\ f.at = "each" =>
             \A u \in Out : u \in f.todo \/ Excused(u, t)
Roster == /\ \A t \in AllTasks : \A f \in Frames(t) : f.of = Group =>
               /\ f.at = "sent" => f.row.members = MemberIds
               /\ f.at = "ok" => res[f.id].members = MemberIds
          /\ NoPush(Group) /\ ~err[Group] => res[link[Group]].members = MemberIds
          /\ \A u \in Out : err[u] \/ u \in unheard
Whole  == /\ fresh[Group] => Waiting
          /\ roster => fresh[Group] /\ Roster

LEMMA GroupIsAlone == Types /\ Rows => ~Reused(Group)
<1> SUFFICES ASSUME Types, Rows, NEW d \in Entities \ {Group}, NEW n \in held[d], n \in held[Group] PROVE FALSE
  BY DEF Reused
<1>1. n \in UserNames /\ n \in GroupNames
  BY DEF Rows, NamesOf, Entities
<1> QED BY <1>1, ScimAssumption

LEMMA OutFacts ==
  ASSUME Types
  PROVE  /\ Members \subseteq Users /\ Out \subseteq Users /\ Missing(Group) = Out
         /\ \A u \in Out : u \in row[Group].members /\ Live(u) /\ link[u] = 0 /\ u # Group /\ u # Everything
BY ScimAssumption DEF Out, Missing, Members, Linked, Types, Row, Entities

\* Members only become known while the rows are the same.
LEMMA OutShrinks ==
  ASSUME Types, row' = row, \A u \in Users : link[u] # 0 => link'[u] # 0
  PROVE  Out' \subseteq Out
BY DEF Out, Members, Linked, Live, Types, Row, Entities

LEMMA MembersSame ==
  ASSUME Types, row' = row, \A u \in Users : link'[u] = link[u]
  PROVE  Out' = Out /\ MemberIds' = MemberIds
<1>1. Members' = Members /\ Members \subseteq Users
  BY OutFacts DEF Members, Live
<1>2. Linked' = Linked /\ Linked \subseteq Users
  BY <1>1 DEF Linked
<1> QED BY <1>1, <1>2 DEF Out, MemberIds

LEMMA MembersWritten ==
  ASSUME Types, Rows, NEW e, NEW new, Writes(e, new), e # Group
  PROVE  /\ Out' \subseteq Out
         /\ new.life # "gone" => Out' = Out /\ MemberIds' = MemberIds
<1>1. /\ e \in Entities /\ new.life \in {"live", "gone"} /\ (new.life = "live" => row[e].life # "gone")
      /\ row' = [row EXCEPT ![e] = new] /\ link' = link
  <2>1. link' = link
    BY DEF Writes, sync
  <2> QED BY <2>1, WriteFacts
<1>2. row'[Group] = row[Group] /\ \A u \in Entities : row'[u] = IF u = e THEN new ELSE row[u]
  BY <1>1 DEF Types, Entities
<1>3. \A u \in row[Group].members : u \in Users /\ u \in Entities /\ row[u].life \in {"live", "gone"}
  BY DEF Types, Row, Rows, Entities
<1>4. \A u \in row[Group].members : row'[u].life = "live" => row[u].life = "live"
  BY <1>1, <1>2, <1>3
<1>5. new.life # "gone" => \A u \in row[Group].members : row'[u].life = "live" <=> row[u].life = "live"
  BY <1>1, <1>2, <1>3
<1>6. Members' \subseteq Members /\ (new.life # "gone" => Members' = Members)
  BY <1>2, <1>4, <1>5 DEF Members, Live
<1>7. Out' \subseteq Out
  BY <1>1, <1>6 DEF Out, Linked
<1>8. ASSUME new.life # "gone" PROVE Out' = Out /\ MemberIds' = MemberIds
  <2>1. Members' = Members
    BY <1>6, <1>8
  <2>2. Linked' = Linked
    BY <1>1, <2>1 DEF Linked
  <2> QED BY <1>1, <2>1, <2>2 DEF Out, MemberIds
<1> QED BY <1>7, <1>8

LEMMA WaitingFrom ==
  ASSUME Waiting, Out' \subseteq Out,
         \A s \in AllTasks : \A g \in In(stack'[s]) : g.of = Group /\ g.at = "each" =>
           \/ Out' \subseteq g.todo
           \/ /\ \A u \in Out' : Excused(u, s) => Excused(u, s)'
              /\ \E h \in Frames(s) : /\ h.of = Group /\ h.at = "each"
                                      /\ \A u \in Out' : u \in h.todo => u \in g.todo \/ Excused(u, s)'
  PROVE  Waiting'
<1> SUFFICES ASSUME NEW s \in AllTasks, NEW g \in In(stack'[s]), g.of = Group, g.at = "each", NEW u \in Out'
             PROVE  u \in g.todo \/ Excused(u, s)'
  BY DEF Waiting, Frames
<1>1. CASE Out' \subseteq g.todo
  BY <1>1
<1>2. ASSUME Excused(u, s) => Excused(u, s)',
             NEW h \in Frames(s), h.of = Group, h.at = "each", u \in h.todo => u \in g.todo \/ Excused(u, s)'
      PROVE  u \in g.todo \/ Excused(u, s)'
  BY <1>2 DEF Waiting
<1> QED BY <1>1, <1>2

\* A push of a member excuses it.
LEMMA PushExcuses ==
  ASSUME NEW s \in AllTasks, NEW g \in In(stack'[s]), NEW u, g.of = u
  PROVE  Excused(u, s)'
BY DEF Excused, Frames

LEMMA StaysExcused ==
  ASSUME NEW s \in AllTasks, NEW u, Excused(u, s), err[u] => err'[u], u \in unheard => u \in unheard',
         \A h \in Frames(s) : h.of = u => Excused(u, s)'
  PROVE  Excused(u, s)'
BY DEF Excused

\* A step of a push of o: its place is taken by a push of o, or o is excused.
LEMMA WaitingPush ==
  ASSUME Types, Waiting, Out' \subseteq Out, NEW t, Busy(t), NEW F, Swap(t, F),
         \A u \in Out' : /\ err[u] => err'[u]
                         /\ u \in unheard => u \in unheard'
                         /\ u = Top(t).of => err'[u] \/ u \in unheard' \/ \E g \in F : g.of = u,
         \A g \in F : ~(g.of = Group /\ g.at = "each")
  PROVE  Waiting'
<1>1. t \in AllTasks
  BY DEF Busy
<1>2. ASSUME NEW s \in AllTasks, NEW u \in Out', Excused(u, s) PROVE Excused(u, s)'
  <2>1. ASSUME NEW h \in Frames(s), h.of = u PROVE Excused(u, s)'
    <3>1. CASE h \in In(stack'[s])
      BY <2>1, <3>1, PushExcuses
    <3>2. CASE s = t /\ h = Top(t)
      <4>1. err'[u] \/ u \in unheard' \/ \E g \in F : g.of = u
        BY <2>1, <3>2
      <4>2. \A g \in F : g \in In(stack'[t])
        BY SwapFrames
      <4>3. CASE err'[u] \/ u \in unheard'
        BY <4>3 DEF Excused
      <4> QED BY <1>1, <3>2, <4>1, <4>2, <4>3, PushExcuses
    <3> QED BY <2>1, <3>1, <3>2, SwapFrames
  <2> QED BY <1>2, <2>1, StaysExcused
<1>3. \A s \in AllTasks : \A g \in In(stack'[s]) : g.of = Group /\ g.at = "each" => g \in Frames(s)
  BY SwapFrames
<1> HIDE DEF Excused
<1> QED BY <1>2, <1>3, WaitingFrom

LEMMA WaitingAdds ==
  ASSUME Types, Waiting, Adds, Out' \subseteq Out, err' = err, unheard' = unheard
  PROVE  Waiting'
<1>1. ASSUME NEW s \in AllTasks, NEW u \in Out', Excused(u, s) PROVE Excused(u, s)'
  BY <1>1 DEF Adds, Excused, Frames
<1>2. \A s \in AllTasks : \A g \in In(stack'[s]) : g.of = Group /\ g.at = "each" => g \in Frames(s)
  BY ScimAssumption DEF Adds, Entities
<1> HIDE DEF Excused
<1> QED BY <1>1, <1>2, WaitingFrom

\* Reading, or passing over, an entity that is not the group.
LEMMA WaitingReads ==
  ASSUME Types, Waiting, Out' = Out, err' = err, unheard' = unheard,
         NEW t, Busy(t), NEW e \in Entities, e # Group, Chosen(t, e), NEW F, Swap(t, F \cup Left(t, e)),
         \A g \in F : g.of = e, e \in Out => F # {}
  PROVE  Waiting'
<1>1. t \in AllTasks /\ (\A g \in F \cup Left(t, e) : g \in In(stack'[t]))
  BY SwapFrames DEF Busy
<1>2. e \in Out => Excused(e, t)'
  BY <1>1, PushExcuses
<1>3. Top(t) \in Frame /\ Top(t) \in Frames(t)
  BY Tops
<1>4. ASSUME NEW s \in AllTasks, NEW u \in Out', Excused(u, s) PROVE Excused(u, s)'
  <2>1. ASSUME NEW h \in Frames(s), h.of = u PROVE Excused(u, s)'
    <3>1. CASE h \in In(stack'[s])
      BY <2>1, <3>1, PushExcuses
    <3>2. CASE s = t /\ h = Top(t)
      <4>1. u \in Users /\ u # Group /\ u # Everything
        BY OutFacts
      <4>2. Top(t).at = "read" /\ u = e
        BY <1>3, <2>1, <3>2, <4>1, OfEntity DEF Chosen
      <4> QED BY <1>2, <3>2, <4>2
    <3> QED BY <2>1, <3>1, <3>2, SwapFrames
  <2> QED BY <1>4, <2>1, StaysExcused
<1>5. ASSUME NEW s \in AllTasks, NEW g \in In(stack'[s]), g.of = Group, g.at = "each"
      PROVE  \E h \in Frames(s) : /\ h.of = Group /\ h.at = "each"
                                  /\ \A u \in Out' : u \in h.todo => u \in g.todo \/ Excused(u, s)'
  <2>1. CASE g \in Frames(s)
    BY <1>5, <2>1
  <2>2. CASE s = t /\ g \in Left(t, e)
    <3>1. g.of = Top(t).of /\ g.at = Top(t).at /\ g.todo = Top(t).todo \ {e}
      BY <2>2, LeftType
    <3> QED BY <1>2, <1>3, <1>5, <2>2, <3>1
  <2> QED BY <1>5, <2>1, <2>2, SwapFrames
<1> HIDE DEF Excused
<1> QED BY <1>4, <1>5, WaitingFrom

LEMMA WaitingLoads ==
  ASSUME Types, NEW t, NEW f, Loads(t, Group, f), fresh'[Group]
  PROVE  Waiting'
<1> USE DEF rest, sync, console
<1>1. /\ Busy(t) /\ Group \in Entities /\ Chosen(t, Group) /\ Swap(t, {f} \cup Left(t, Group))
      /\ f.of = Group /\ f.todo = Out /\ row' = row /\ link' = link
  BY OutFacts DEF Loads
<1>2. Alone(Group, t)
  BY <1>1 DEF Loads, Types
<1>3. \A s \in AllTasks : \A g \in In(stack'[s]) : g.of = Group /\ g.at = "each" => g = f
  BY <1>1, <1>2, SwapFrames, AloneFrames, LeftType
<1>4. Out' = Out
  BY <1>1, MembersSame
<1> QED BY <1>1, <1>3, <1>4 DEF Waiting, Frames

LEMMA WaitingKept ==
  ASSUME Types, Rows, Clean, Whole, Effect, fresh'[Group]
  PROVE  Waiting'
<1> USE DEF console, sync, hist, rest, vars
<1>0. fresh[Group] => Waiting /\ CleanOK(Group)
  BY DEF Whole, Clean, Entities
<1>1. CASE Waits
  <2>1. Waiting /\ Adds /\ row' = row /\ link' = link /\ err' = err /\ unheard' = unheard
    BY <1>0, <1>1 DEF Waits
  <2> QED BY <2>1, MembersSame, WaitingAdds
<1>2. ASSUME NEW e, NEW new, Writes(e, new) PROVE Waiting'
  <2>1. Waiting /\ e # Group
    BY <1>0, <1>2, WriteFacts DEF Types, Entities
  <2>2. Adds /\ err' = err /\ unheard' = unheard
    BY <1>2 DEF Writes
  <2> QED BY <1>2, <2>1, <2>2, MembersWritten, WaitingAdds
<1>3. ASSUME NEW t, NEW e, Passes(t, e) PROVE Waiting'
  <2>1. /\ Busy(t) /\ e \in Entities /\ Chosen(t, e) /\ ~Live(e) /\ Swap(t, {} \cup Left(t, e)) /\ fresh[Group]
        /\ row' = row /\ link' = link /\ err' = err /\ unheard' = unheard
    BY <1>3 DEF Passes
  <2>2. e # Group /\ e \notin Out
    BY <1>0, <2>1, OutFacts DEF CleanOK
  <2>3. Out' = Out
    BY <2>1, MembersSame
  <2>4. PICK F : F = {}
    OBVIOUS
  <2>5. Swap(t, F \cup Left(t, e)) /\ \A g \in F : g.of = e
    BY <2>1, <2>4
  <2> QED BY <1>0, <2>1, <2>2, <2>3, <2>5, WaitingReads
<1>4. ASSUME NEW t, NEW e, NEW f, Loads(t, e, f) PROVE Waiting'
  <2>1. /\ Busy(t) /\ e \in Entities /\ Chosen(t, e) /\ Swap(t, {f} \cup Left(t, e)) /\ f.of = e
        /\ row' = row /\ link' = link /\ err' = err /\ unheard' = unheard
        /\ fresh' = [fresh EXCEPT ![e] = Alone(e, t)]
    BY <1>4 DEF Loads
  <2>2. CASE e = Group
    BY <1>4, <2>2, WaitingLoads
  <2>3. CASE e # Group
    <3>1. Waiting
      BY <1>0, <2>1, <2>3 DEF Types, Entities
    <3>2. Out' = Out
      BY <2>1, MembersSame
    <3>3. PICK F : F = {f}
      OBVIOUS
    <3>4. Swap(t, F \cup Left(t, e)) /\ F # {} /\ \A g \in F : g.of = e
      BY <2>1, <3>3
    <3> QED BY <2>1, <2>3, <3>1, <3>2, <3>4, WaitingReads
  <2> QED BY <2>2, <2>3
<1>5. ASSUME NEW t, NEW f, Rebuilds(t, f) PROVE Waiting'
  <2>1. /\ Busy(t) /\ Swap(t, {f}) /\ fresh[Group] /\ f.of = Top(t).of /\ f.at = "sent"
        /\ row' = row /\ link' = link /\ err' = err /\ unheard' = unheard
    BY <1>5 DEF Rebuilds
  <2> QED BY <1>0, <2>1, MembersSame, WaitingPush
<1>6. ASSUME NEW t, NEW f, Puts(t, f) \/ Turns(t, f) PROVE Waiting'
  <2>1. /\ Busy(t) /\ Swap(t, {f}) /\ fresh[Group] /\ f.of = Top(t).of /\ f.at # "each"
        /\ row' = row /\ link' = link /\ err' = err /\ unheard' = unheard
    BY <1>6 DEF Puts, Turns, Fresh
  <2> QED BY <1>0, <2>1, MembersSame, WaitingPush
<1>7. ASSUME NEW t, Notes(t) \/ \E f : Adopts(t, f) PROVE Waiting'
  <2>1. PICK F : /\ Busy(t) /\ Swap(t, F) /\ fresh[Group]
                 /\ Upsert(Top(t).of, Top(t).id) /\ Top(t).at \in {"ok", "found"}
                 /\ \A g \in F : g.at # "each"
                 /\ row' = row /\ unheard' = unheard
    <3>1. CASE Notes(t)
      <4>1. PICK F : F = {}
        OBVIOUS
      <4> QED BY <3>1, <4>1 DEF Notes
    <3>2. CASE \E f : Adopts(t, f)
      <4>1. PICK f : Adopts(t, f)
        BY <3>2
      <4>2. PICK F : F = {f}
        OBVIOUS
      <4>3. Swap(t, F) /\ \A g \in F : g.at # "each"
        BY <4>1, <4>2 DEF Adopts, Fresh
      <4> QED BY <4>1, <4>3 DEF Adopts
    <3> QED BY <1>7, <3>1, <3>2
  <2>2. Top(t) \in Frame /\ Top(t).of \in Entities /\ Top(t).id # 0
    BY <2>1, Tops, OfEntity DEF Frame, Fits
  <2>3. /\ \A u \in Users : link[u] # 0 => link'[u] # 0
        /\ link'[Top(t).of] # 0
        /\ \A u \in Entities : u # Top(t).of => err'[u] = err[u]
    BY <2>1, <2>2 DEF Upsert, Types, Entities
  <2>4. Out' \subseteq Out /\ \A u \in Out' : u \in Users
    BY <2>1, <2>3, OutShrinks, OutFacts
  <2>5. \A u \in Out' : link'[u] = 0
    BY <2>1, <2>4 DEF Out, Linked
  <2>6. \A u \in Out' : u # Top(t).of /\ err'[u] = err[u]
    BY <2>3, <2>4, <2>5 DEF Entities
  <2> QED BY <1>0, <2>1, <2>4, <2>6, WaitingPush
<1>8. ASSUME NEW t, GivesUp(t) PROVE Waiting'
  <2>1. /\ Busy(t) /\ Swap(t, {}) /\ fresh[Group] /\ err' = [err EXCEPT ![Top(t).of] = TRUE]
        /\ row' = row /\ link' = link /\ unheard' = unheard
    BY <1>8 DEF GivesUp, UpsertError
  <2>2. Out' = Out /\ \A u \in Out : u \in Entities
    BY <2>1, MembersSame, OutFacts DEF Entities
  <2>3. \A u \in Out' : (err[u] => err'[u]) /\ (u = Top(t).of => err'[u])
    BY <2>1, <2>2 DEF Types
  <2> QED BY <1>0, <2>1, <2>2, <2>3, WaitingPush
<1>9. ASSUME NEW t, Loses(t) PROVE Waiting'
  <2>1. /\ Busy(t) /\ Swap(t, {}) /\ Spoil({Top(t).of}) /\ unheard' = unheard \cup {Top(t).of}
        /\ row' = row /\ link' = link /\ err' = err
    BY <1>9 DEF Loses
  <2>2. fresh[Group]
    BY <2>1 DEF Spoil, Entities
  <2>3. Out' = Out /\ \A u \in Out' : u \in unheard => u \in unheard'
    BY <2>1, MembersSame
  <2> QED BY <1>0, <2>1, <2>2, <2>3, WaitingPush
<1>10. ASSUME NEW t, NEW f, Lags(t, f) PROVE Waiting'
  <2>1. /\ Busy(t) /\ Swap(t, {f}) /\ Spoil({Top(t).of}) /\ f.of = Top(t).of /\ f.at # "each"
        /\ row' = row /\ link' = link /\ err' = err /\ unheard' = unheard
    BY <1>10 DEF Lags, Fresh
  <2>2. fresh[Group]
    BY <2>1 DEF Spoil, Entities
  <2> QED BY <1>0, <2>1, <2>2, MembersSame, WaitingPush
<1>11. ASSUME NEW T, Dies(T) PROVE Waiting'
  <2>1. /\ \A s \in AllTasks : In(stack'[s]) = IF s \in T THEN {} ELSE Frames(s)
        /\ Spoil({f.of : f \in Dead(T)}) /\ row' = row /\ link' = link /\ err' = err /\ unheard' = unheard
    BY <1>11 DEF Dies
  <2>2. fresh[Group] /\ Out' = Out
    BY <2>1, MembersSame DEF Spoil, Entities
  <2> QED BY <1>0, <2>1, <2>2 DEF Waiting, Excused, Frames
<1>12. CASE (\E q \in wire : Straggles(q)) \/ UNCHANGED vars
  <2>1. stack' = stack /\ row' = row /\ link' = link /\ err' = err /\ unheard' = unheard /\ fresh' = fresh
    BY <1>12 DEF Straggles
  <2>2. Out' = Out
    BY <2>1, MembersSame
  <2> QED BY <1>0, <2>1, <2>2 DEF Waiting, Excused, Frames
<1> QED BY <1>1, <1>2, <1>3, <1>4, <1>5, <1>6, <1>7, <1>8, <1>9, <1>10, <1>11, <1>12 DEF Effect

\* The steps after which the members are known by the same ids.
LEMMA RosterFrom ==
  ASSUME Roster, MemberIds' = MemberIds, Out' \subseteq Out,
         \A u \in Out' : (err[u] => err'[u]) /\ (u \in unheard => u \in unheard'),
         \A s \in AllTasks : \A g \in In(stack'[s]) : g.of = Group /\ g.at \in {"sent", "ok"} =>
           \/ g.at = "sent" /\ g.row.members = MemberIds
           \/ g.at = "ok" /\ res'[g.id].members = MemberIds
           \/ g \in Frames(s) /\ (g.at = "ok" => res'[g.id] = res[g.id]),
         NoPush(Group)' => \/ err'[Group] \/ res'[link'[Group]].members = MemberIds
                           \/ /\ NoPush(Group) /\ (err[Group] => err'[Group])
                              /\ res'[link'[Group]] = res[link[Group]]
  PROVE  Roster'
<1>1. ASSUME NEW s \in AllTasks, NEW g \in In(stack'[s]), g.of = Group
      PROVE  /\ g.at = "sent" => g.row.members = MemberIds'
             /\ g.at = "ok" => res'[g.id].members = MemberIds'
  BY <1>1 DEF Roster
<1>2. NoPush(Group)' /\ ~err'[Group] => res'[link'[Group]].members = MemberIds'
  BY DEF Roster
<1>3. \A u \in Out' : err'[u] \/ u \in unheard'
  BY DEF Roster
<1> QED BY <1>1, <1>2, <1>3 DEF Roster, Frames

\* A step of a push that leaves the resources and the group's record alone, and
\* does not take the group's only push away.
LEMMA RosterPush ==
  ASSUME Types, Roster, row' = row, res' = res, \A u \in Entities : link'[u] = link[u],
         \A u \in Out : (err[u] => err'[u]) /\ (u \in unheard => u \in unheard'), err[Group] => err'[Group],
         NEW t, Busy(t), NEW F, Swap(t, F),
         \A g \in F : g.of = Group => g.at \notin {"sent", "ok"},
         Top(t).of = Group => err'[Group] \/ \E g \in F : g.of = Group
  PROVE  Roster'
<1>1. Out' = Out /\ MemberIds' = MemberIds
  BY MembersSame DEF Entities
<1>2. \A s \in AllTasks : \A g \in In(stack'[s]) : g.of = Group /\ g.at \in {"sent", "ok"} => g \in Frames(s)
  BY SwapFrames
<1>3. NoPush(Group)' => err'[Group] \/ NoPush(Group)
  BY PushesStay
<1>4. link'[Group] = link[Group]
  BY DEF Entities
<1> QED BY <1>1, <1>2, <1>3, <1>4, RosterFrom

LEMMA RosterAdds ==
  ASSUME Types, Roster, Adds, MemberIds' = MemberIds, Out' = Out, UNCHANGED <<sync, res, unheard>>
  PROVE  Roster'
<1>1. \A s \in AllTasks : \A g \in In(stack'[s]) : g.of = Group /\ g.at \in {"sent", "ok"} => g \in Frames(s)
  BY ScimAssumption DEF Adds, Entities
<1>2. NoPush(Group)' => NoPush(Group)
  BY DEF Adds, NoPush, Frames
<1>3. res' = res /\ link' = link /\ err' = err /\ unheard' = unheard
  BY DEF sync
<1> HIDE DEF NoPush
<1> QED BY <1>1, <1>2, <1>3, RosterFrom

LEMMA RosterLoads ==
  ASSUME Types, NEW t, NEW f, Loads(t, Group, f), roster'
  PROVE  fresh'[Group] /\ Roster'
<1> USE DEF rest, sync, console
<1>1. /\ Busy(t) /\ Group \in Entities /\ Chosen(t, Group) /\ Swap(t, {f} \cup Left(t, Group)) /\ t \in AllTasks
      /\ f.of = Group /\ f.row = Body(Group) /\ row' = row /\ link' = link /\ Alone(Group, t) /\ Out = {}
      /\ fresh' = [fresh EXCEPT ![Group] = Alone(Group, t)] /\ f.at = "sent"
  BY OutFacts DEF Loads, Busy
<1>2. \A s \in AllTasks : \A g \in In(stack'[s]) : g.of = Group /\ g.at \in {"sent", "ok"} => g = f
  BY <1>1, SwapFrames, AloneFrames, LeftType
<1>3. Out' = {} /\ MemberIds' = MemberIds
  BY <1>1, MembersSame
<1>4. ~NoPush(Group)'
  BY <1>1, SwapFrames, PushThere
<1>5. f.row.members = MemberIds
  BY <1>1 DEF Body
<1>6. Roster'
  BY <1>1, <1>2, <1>3, <1>4, <1>5 DEF Roster, Frames
<1> QED BY <1>1, <1>6 DEF Types

LEMMA TopRow == ASSUME Types, NEW t, Busy(t) PROVE Top(t).row \in Resource
BY Tops, OfEntity

\* When all members have been pushed, what kept one out was noted or lost.
LEMMA RosterRebuilds ==
  ASSUME Types, NEW t, NEW f, Rebuilds(t, f), CleanOK(Group), Waiting
  PROVE  Roster'
<1> USE DEF rest, sync, console
<1>1. /\ Busy(t) /\ Swap(t, {f}) /\ t \in AllTasks /\ Top(t).of = Group /\ Top(t).at = "each" /\ Top(t).todo = {}
      /\ f.of = Group /\ f.at = "sent" /\ f.row = Refetched(Top(t)) /\ row' = row /\ link' = link
      /\ err' = err /\ unheard' = unheard
  BY DEF Rebuilds, Busy
<1>2. Top(t) \in Frames(t) /\ Frames(t) = {Top(t)} \cup Below(t) /\ Top(t).row \in Resource
      /\ \A h \in Below(t) : h \in Frame /\ h.at = "each" /\ h.of # Group
  BY <1>1, Tops, TopRow
<1>3. f.row.members = MemberIds
  BY <1>1, <1>2 DEF CleanOK, Refetched, Resource
<1>4. \A s \in AllTasks : \A g \in Frames(s) : g.of = Group /\ g.at \in Working => s = t
  BY <1>1, <1>2 DEF CleanOK, AtOne, Working
<1>5. \A s \in AllTasks : \A g \in In(stack'[s]) : g.of = Group /\ g.at \in {"sent", "ok"} => g = f
  BY <1>1, <1>2, <1>4, SwapFrames DEF Working
<1>6. ASSUME NEW u \in Out PROVE err[u] \/ u \in unheard
  <2>1. Excused(u, t) /\ u \in Users /\ u # Group /\ u # Everything
    BY <1>1, <1>2, OutFacts DEF Waiting
  <2>2. \A h \in Frames(t) : h.of # u
    BY <1>1, <1>2, <2>1, OfEntity
  <2> QED BY <2>1, <2>2 DEF Excused
<1>7. Out' = Out /\ MemberIds' = MemberIds
  BY <1>1, MembersSame
<1>8. ~NoPush(Group)'
  BY <1>1, SwapFrames, PushThere
<1> QED BY <1>1, <1>3, <1>5, <1>6, <1>7, <1>8 DEF Roster, Frames

LEMMA RosterPuts ==
  ASSUME Types, Refs, Rows, Owned, NEW t, NEW f, Puts(t, f), CleanOK(Group), Roster
  PROVE  Roster'
<1> USE DEF console, sync, hist
<1> DEFINE i == Top(t).id
<1>1. /\ Busy(t) /\ Swap(t, {f}) /\ res' = Put(i, Top(t).row)
      /\ row' = row /\ link' = link /\ err' = err /\ unheard' = unheard
      /\ f.of = Top(t).of /\ f.at = "ok" /\ f.id = (IF i = 0 THEN Len(res) + 1 ELSE i)
      /\ Top(t).at = "sent" /\ t \in AllTasks
  BY DEF Puts, Busy
<1>2. /\ Top(t) \in Frames(t) /\ Top(t).of \in Entities /\ i \in Nat /\ i <= Len(res) /\ Top(t).row \in Resource
      /\ Owns(Top(t).of, i)
  BY <1>1, Tops, OfEntity, TopKnown, TopOwns DEF Knows
<1>3. Out' = Out /\ MemberIds' = MemberIds
  BY <1>1, MembersSame
<1> HIDE DEF i
<1>4. CASE Top(t).of = Group
  <2>1. Top(t).row.members = MemberIds
    BY <1>1, <1>2, <1>4 DEF Roster
  <2>2. res'[f.id] = Top(t).row
    <3>1. f.id \in DOMAIN res'
      BY <1>1, <1>2, PutIsDone
    <3> QED BY <1>1, <1>2, <3>1, PutIsDone
  <2>3. \A s \in AllTasks : \A g \in Frames(s) : g.of = Group /\ g.at \in Working => s = t
    BY <1>1, <1>2, <1>4 DEF CleanOK, AtOne, Working
  <2>4. \A s \in AllTasks : \A g \in In(stack'[s]) : g.of = Group /\ g.at \in {"sent", "ok"} => g = f
    BY <1>1, <1>4, <2>3, SwapFrames, Tops DEF Working
  <2>5. ~NoPush(Group)'
    BY <1>1, <1>4, SwapFrames, PushThere
  <2> QED BY <1>1, <1>3, <2>1, <2>2, <2>4, <2>5, RosterFrom
<1>5. CASE Top(t).of # Group
  <2>1. ~Reused(Group) /\ Group \in Entities
    BY GroupIsAlone DEF Entities
  <2>2. \A r \in DOMAIN res : Owns(Group, r) => res'[r] = res[r]
    BY <1>1, <1>2, <1>5, <2>1, NotOthers
  <2>3. \A s \in AllTasks : \A g \in In(stack'[s]) : g.of = Group /\ g.at \in {"sent", "ok"} =>
          g \in Frames(s) /\ (g.at = "ok" => res'[g.id] = res[g.id])
    <3> SUFFICES ASSUME NEW s \in AllTasks, NEW g \in In(stack'[s]), g.of = Group
                 PROVE  g \in Frames(s) /\ (g.at = "ok" => res'[g.id] = res[g.id])
      OBVIOUS
    <3>1. g \in Frames(s)
      BY <1>1, <1>5, SwapFrames
    <3>2. g \in Frame
      BY <3>1, AllFrames DEF Types, Frames
    <3>3. g.at = "ok" => g.id \in DOMAIN res
      BY <3>1, <3>2, OfEntity, SameKnown DEF Refs, Frame, Fits
    <3>4. Owns(Group, g.id)
      BY <3>1 DEF Owns
    <3> QED BY <2>2, <3>1, <3>3, <3>4
  <2>4. NoPush(Group)' => NoPush(Group)
    BY <1>1, <1>5, PushesStay
  <2>5. NoPush(Group) /\ ~err[Group] => res'[link[Group]] = res[link[Group]]
    <3> SUFFICES ASSUME NoPush(Group), ~err[Group] PROVE res'[link[Group]] = res[link[Group]]
      OBVIOUS
    <3>1. link[Group] # 0
      BY <2>1 DEF CleanOK, Current
    <3>2. link[Group] \in DOMAIN res /\ Owns(Group, link[Group])
      BY <2>1, <3>1, SameKnown DEF Owns
    <3> QED BY <2>2, <3>2
  <2> QED BY <1>1, <1>3, <2>3, <2>4, <2>5, RosterFrom
<1> QED BY <1>4, <1>5

LEMMA RosterNotes ==
  ASSUME Types, NEW t, Notes(t) \/ \E f : Adopts(t, f), Roster, roster'
  PROVE  Roster'
<1> USE DEF console, sync, hist
<1> DEFINE i == Top(t).id
<1>1. /\ Busy(t) /\ Top(t).at \in {"ok", "found"} /\ Upsert(Top(t).of, i)
      /\ res' = res /\ row' = row /\ unheard' = unheard
  BY DEF Notes, Adopts
<1>2. Top(t) \in Frames(t) /\ Top(t) \in Frame /\ Top(t).of \in Entities /\ i # 0 /\ t \in AllTasks
  BY <1>1, Tops, OfEntity DEF Frame, Fits, Busy
<1> HIDE DEF i
<1>3. /\ \A u \in Users : link'[u] = link[u]
      /\ link'[Top(t).of] = i
      /\ \A u \in Entities : u # Top(t).of => link'[u] = link[u] /\ err'[u] = err[u]
  BY <1>1, <1>2, ScimAssumption DEF Upsert, Types, Entities
<1>4. Out' = Out /\ MemberIds' = MemberIds
  BY <1>1, <1>3, MembersSame
<1>5. \A u \in Out : err'[u] = err[u]
  <2>1. \A u \in Out : u \in Entities /\ link'[u] = 0
    BY <1>3, OutFacts DEF Entities
  <2> QED BY <1>2, <1>3, <2>1
<1>6. \A s \in AllTasks : \A g \in In(stack'[s]) : g.of = Group /\ g.at \in {"sent", "ok"} => g \in Frames(s)
  <2>1. CASE Notes(t)
    <3>1. Busy(t) /\ Swap(t, {})
      BY <2>1 DEF Notes
    <3> QED BY <3>1, SwapFrames
  <2>2. CASE \E f : Adopts(t, f)
    <3>1. PICK f : Busy(t) /\ Swap(t, {f}) /\ f.at \notin {"sent", "ok"}
      BY <2>2 DEF Adopts, Fresh
    <3> QED BY <3>1, SwapFrames
  <2> QED BY <2>1, <2>2
<1>7. CASE Top(t).of = Group
  <2>1. CASE Notes(t)
    <3>1. Top(t).at = "ok"
      BY <2>1 DEF Notes
    <3>2. res'[link'[Group]].members = MemberIds
      BY <1>1, <1>2, <1>3, <1>7, <3>1 DEF Roster, i
    <3> QED BY <1>1, <1>4, <1>5, <1>6, <3>2, RosterFrom
  <2>2. CASE \E f : Adopts(t, f)
    <3>1. ~NoPush(Group)'
      BY <1>2, <1>7, <2>2, SwapFrames, PushThere DEF Adopts
    <3> QED BY <1>1, <1>4, <1>5, <1>6, <3>1, RosterFrom
  <2> QED BY <2>1, <2>2
<1>8. CASE Top(t).of # Group
  <2>1. link'[Group] = link[Group] /\ err'[Group] = err[Group]
    BY <1>3, <1>8 DEF Entities
  <2>2. NoPush(Group)' => NoPush(Group)
    BY <1>1, <1>8, PushesStay DEF Notes, Adopts
  <2> QED BY <1>1, <1>4, <1>5, <1>6, <2>1, <2>2, RosterFrom
<1> QED BY <1>7, <1>8

\* A request nobody waits for is not the group's.
LEMMA RosterStraggles ==
  ASSUME Types, Refs, Rows, Owned, NEW q \in wire, Straggles(q), CleanOK(Group), Roster
  PROVE  Roster'
<1> USE DEF console, sync, hist
<1>1. /\ q \in Sent /\ q.id <= Len(res) /\ q.row \in Resource /\ q.id \in Nat /\ q.of \in Entities
      /\ row' = row /\ link' = link /\ err' = err /\ unheard' = unheard /\ stack' = stack
      /\ res' = Put(q.id, q.row) \/ res' = res
  BY StragglesFacts
<1>2. Out' = Out /\ MemberIds' = MemberIds
  BY <1>1, MembersSame
<1>3. ~Reused(Group) /\ Group \in Entities /\ q.of # Group /\ Owns(q.of, q.id)
  BY GroupIsAlone DEF Entities, CleanOK, Owns
<1>4. \A r \in DOMAIN res : Owns(Group, r) => res'[r] = res[r]
  BY <1>1, <1>3, NotOthers
<1>5. \A s \in AllTasks : \A g \in In(stack'[s]) : g.of = Group /\ g.at \in {"sent", "ok"} =>
        g \in Frames(s) /\ (g.at = "ok" => res'[g.id] = res[g.id])
  <2> SUFFICES ASSUME NEW s \in AllTasks, NEW g \in Frames(s), g.of = Group, g.at = "ok"
               PROVE  res'[g.id] = res[g.id]
    BY <1>1 DEF Frames
  <2>1. g \in Frame
    BY AllFrames DEF Types, Frames
  <2>2. g.id \in DOMAIN res
    BY <2>1, OfEntity, SameKnown DEF Refs, Frame, Fits
  <2>3. Owns(Group, g.id)
    BY DEF Owns
  <2> QED BY <1>4, <2>2, <2>3
<1>6. NoPush(Group)' => NoPush(Group)
  BY <1>1 DEF NoPush, Frames
<1>7. NoPush(Group) /\ ~err[Group] => res'[link[Group]] = res[link[Group]]
  <2> SUFFICES ASSUME NoPush(Group), ~err[Group] PROVE res'[link[Group]] = res[link[Group]]
    OBVIOUS
  <2>1. link[Group] # 0
    BY <1>3 DEF CleanOK, Current
  <2>2. link[Group] \in DOMAIN res /\ Owns(Group, link[Group])
    BY <1>3, <2>1, SameKnown DEF Owns
  <2> QED BY <1>4, <2>2
<1> HIDE DEF NoPush
<1> QED BY <1>1, <1>2, <1>5, <1>6, <1>7, RosterFrom

LEMMA RosterDies ==
  ASSUME Types, NEW T, Dies(T), Roster, roster'
  PROVE  Roster'
<1>1. /\ \A s \in AllTasks : In(stack'[s]) = IF s \in T THEN {} ELSE Frames(s)
      /\ Spoil({f.of : f \in Dead(T)}) /\ row' = row /\ link' = link /\ err' = err /\ unheard' = unheard /\ res' = res
  BY DEF Dies, console, sync
<1>2. \A f \in Dead(T) : f.of # Group
  BY <1>1 DEF Spoil
<1>3. Out' = Out /\ MemberIds' = MemberIds
  BY <1>1, MembersSame
<1>4. \A s \in AllTasks : \A g \in In(stack'[s]) : g \in Frames(s)
  BY <1>1
<1>5. NoPush(Group)' => NoPush(Group)
  BY <1>1, <1>2 DEF NoPush, Frames, Dead
<1> HIDE DEF NoPush
<1> QED BY <1>1, <1>3, <1>4, <1>5, RosterFrom

\* Reading, or passing over, an entity that is not the group.
LEMMA RosterReads ==
  ASSUME Types, Roster, row' = row, res' = res, link' = link, err' = err, unheard' = unheard,
         NEW t, Busy(t), NEW e \in Entities, e # Group, Chosen(t, e), NEW F, Swap(t, F \cup Left(t, e)),
         \A g \in F : g.of = e
  PROVE  Roster'
<1>1. PICK G : G = F \cup Left(t, e)
  OBVIOUS
<1>2. \A g \in G : g.of = Group => g.at \notin {"sent", "ok"}
  BY <1>1, LeftType
<1>3. Top(t).of = Group => \E g \in G : g.of = Group
  BY <1>1, LeftFollows DEF Entities
<1>4. Swap(t, G)
  BY <1>1
<1> QED BY <1>2, <1>3, <1>4, RosterPush

LEMMA RosterKept ==
  ASSUME Types, Refs, Rows, Owned, Clean, Whole, Effect, roster'
  PROVE  fresh'[Group] /\ Roster'
<1> USE DEF console, sync, hist, rest, vars
<1>0. /\ Group \in Entities
      /\ roster => fresh[Group] /\ Roster
      /\ fresh[Group] => Waiting /\ CleanOK(Group)
  BY DEF Whole, Clean, Entities
<1>1. CASE Waits
  <2>1. /\ Roster /\ fresh'[Group] /\ Adds
        /\ row' = row /\ link' = link /\ UNCHANGED <<sync, res, unheard>>
    BY <1>0, <1>1 DEF Waits
  <2> QED BY <2>1, MembersSame, RosterAdds
<1>2. ASSUME NEW e, NEW new, Writes(e, new) PROVE fresh'[Group] /\ Roster'
  <2>1. /\ roster /\ e # Group /\ new.life # "gone" /\ Adds /\ UNCHANGED <<sync, res, unheard>>
        /\ fresh' = [fresh EXCEPT ![e] = FALSE]
    BY <1>2 DEF Writes, Write
  <2>2. fresh'[Group] /\ Roster
    BY <1>0, <2>1 DEF Types
  <2>3. Out' = Out /\ MemberIds' = MemberIds
    BY <1>2, <2>1, MembersWritten
  <2> QED BY <2>1, <2>2, <2>3, RosterAdds
<1>3. ASSUME NEW t, NEW e, Passes(t, e) PROVE fresh'[Group] /\ Roster'
  <2>1. /\ Busy(t) /\ e \in Entities /\ Chosen(t, e) /\ ~Live(e) /\ Swap(t, {} \cup Left(t, e)) /\ fresh'[Group]
        /\ row' = row /\ res' = res /\ link' = link /\ err' = err /\ unheard' = unheard /\ Roster /\ CleanOK(Group)
    BY <1>0, <1>3 DEF Passes
  <2>2. e # Group
    BY <2>1 DEF CleanOK
  <2>3. PICK F : F = {}
    OBVIOUS
  <2>4. Swap(t, F \cup Left(t, e)) /\ \A g \in F : g.of = e
    BY <2>1, <2>3
  <2> QED BY <2>1, <2>2, <2>4, RosterReads
<1>4. ASSUME NEW t, NEW e, NEW f, Loads(t, e, f) PROVE fresh'[Group] /\ Roster'
  <2>1. CASE e = Group
    BY <1>4, <2>1, RosterLoads
  <2>2. CASE e # Group
    <3>1. /\ Busy(t) /\ e \in Entities /\ Chosen(t, e) /\ Swap(t, {f} \cup Left(t, e)) /\ f.of = e
          /\ row' = row /\ res' = res /\ link' = link /\ err' = err /\ unheard' = unheard /\ roster
          /\ fresh' = [fresh EXCEPT ![e] = Alone(e, t)]
      BY <1>4, <2>2 DEF Loads
    <3>2. fresh'[Group] /\ Roster
      BY <1>0, <2>2, <3>1 DEF Types
    <3>3. PICK F : F = {f}
      OBVIOUS
    <3>4. Swap(t, F \cup Left(t, e)) /\ \A g \in F : g.of = e
      BY <3>1, <3>3
    <3> QED BY <2>2, <3>1, <3>2, <3>4, RosterReads
  <2> QED BY <2>1, <2>2
<1>5. ASSUME NEW t, NEW f, Rebuilds(t, f) PROVE fresh'[Group] /\ Roster'
  <2>1. fresh[Group] /\ fresh' = fresh
    BY <1>5 DEF Rebuilds
  <2> QED BY <1>0, <1>5, <2>1, RosterRebuilds
<1>6. ASSUME NEW t, NEW f, Puts(t, f) PROVE fresh'[Group] /\ Roster'
  <2>1. roster /\ fresh' = fresh
    BY <1>6 DEF Puts
  <2> QED BY <1>0, <1>6, <2>1, RosterPuts
<1>7. ASSUME NEW t, NEW f, Turns(t, f) PROVE fresh'[Group] /\ Roster'
  <2>1. /\ Busy(t) /\ Swap(t, {f}) /\ f.of = Top(t).of /\ f.at \notin {"sent", "ok"}
        /\ row' = row /\ res' = res /\ link' = link /\ err' = err /\ unheard' = unheard /\ roster /\ fresh' = fresh
    BY <1>7 DEF Turns, Fresh
  <2> QED BY <1>0, <2>1, RosterPush
<1>8. ASSUME NEW t, Notes(t) \/ \E f : Adopts(t, f) PROVE fresh'[Group] /\ Roster'
  <2>1. roster /\ fresh' = fresh
    BY <1>8 DEF Notes, Adopts, Upsert
  <2> QED BY <1>0, <1>8, <2>1, RosterNotes
<1>9. ASSUME NEW t, GivesUp(t) PROVE fresh'[Group] /\ Roster'
  <2>1. /\ Busy(t) /\ Swap(t, {}) /\ err' = [err EXCEPT ![Top(t).of] = TRUE]
        /\ row' = row /\ res' = res /\ link' = link /\ unheard' = unheard /\ roster /\ fresh' = fresh
    BY <1>9 DEF GivesUp, UpsertError
  <2>2. /\ \A u \in Out : u \in Entities
        /\ \A u \in Entities : err[u] => err'[u]
        /\ Top(t).of = Group => err'[Group]
    BY <1>0, <2>1, OutFacts DEF Types, Entities
  <2> QED BY <1>0, <2>1, <2>2, RosterPush
<1>10. ASSUME NEW t, Loses(t) PROVE fresh'[Group] /\ Roster'
  <2>1. /\ Busy(t) /\ Swap(t, {}) /\ Spoil({Top(t).of}) /\ unheard' = unheard \cup {Top(t).of}
        /\ row' = row /\ res' = res /\ link' = link /\ err' = err
    BY <1>10 DEF Loses
  <2>2. roster /\ Top(t).of # Group
    BY <2>1 DEF Spoil
  <2>3. fresh'[Group] /\ Roster
    BY <1>0, <2>1, <2>2 DEF Spoil
  <2> QED BY <1>0, <2>1, <2>2, <2>3, RosterPush
<1>11. ASSUME NEW t, NEW f, Lags(t, f) PROVE fresh'[Group] /\ Roster'
  <2>1. /\ Busy(t) /\ Swap(t, {f}) /\ Spoil({Top(t).of}) /\ f.at \notin {"sent", "ok"}
        /\ row' = row /\ res' = res /\ link' = link /\ err' = err /\ unheard' = unheard
    BY <1>11 DEF Lags, Fresh
  <2>2. roster /\ Top(t).of # Group
    BY <2>1 DEF Spoil
  <2>3. fresh'[Group] /\ Roster
    BY <1>0, <2>1, <2>2 DEF Spoil
  <2> QED BY <1>0, <2>1, <2>2, <2>3, RosterPush
<1>12. ASSUME NEW T, Dies(T) PROVE fresh'[Group] /\ Roster'
  <2>1. Spoil({f.of : f \in Dead(T)})
    BY <1>12 DEF Dies
  <2>2. roster /\ Group \notin {f.of : f \in Dead(T)}
    BY <2>1 DEF Spoil
  <2>3. fresh'[Group] /\ Roster
    BY <1>0, <2>1, <2>2 DEF Spoil
  <2> QED BY <1>12, <2>3, RosterDies
<1>13. ASSUME NEW q \in wire, Straggles(q) PROVE fresh'[Group] /\ Roster'
  <2>1. roster /\ fresh' = fresh
    BY <1>13 DEF Straggles
  <2> QED BY <1>0, <1>13, <2>1, RosterStraggles
<1>14. CASE UNCHANGED vars
  <2>1. /\ roster /\ fresh' = fresh /\ row' = row /\ link' = link /\ UNCHANGED <<sync, res, unheard>> /\ stack' = stack
    BY <1>14
  <2> QED BY <1>0, <2>1, SameStack, MembersSame, RosterAdds
<1> QED BY <1>1, <1>2, <1>3, <1>4, <1>5, <1>6, <1>7, <1>8, <1>9, <1>10, <1>11, <1>12, <1>13, <1>14 DEF Effect

LEMMA WholeKept ==
  ASSUME Types, Refs, Rows, Owned, Clean, Whole, Effect
  PROVE  Whole'
<1>1. fresh'[Group] => Waiting'
  BY WaitingKept
<1>2. roster' => fresh'[Group] /\ Roster'
  BY RosterKept
<1> QED BY <1>1, <1>2 DEF Whole

-----------------------------------------------------------------------------
(* The invariant, and the theorems *)

ScimInv == Types /\ Refs /\ Rows /\ Named /\ Owned /\ Clean /\ Whole

LEMMA InitInv == Init => ScimInv
<1> SUFFICES ASSUME Init PROVE ScimInv
  OBVIOUS
<1>1. PICK f \in First : row = f.row /\ res = f.res
  BY DEF Init
<1>2. /\ row \in [Entities -> Row] /\ \A e \in Entities : row[e].name \in NamesOf(e)
      /\ row[Group].members \subseteq {u \in Users : row[u].life = "live"}
      /\ res \in Seq(Resource) /\ \A r \in DOMAIN res : res[r].members \subseteq DOMAIN res
  BY <1>1, ScimAssumption
<1>3. /\ tx = [e \in Entities |-> NoTx] /\ wire = {}
      /\ link = [e \in Entities |-> 0] /\ err = [e \in Entities |-> FALSE]
      /\ stack = [t \in AllTasks |-> <<>>]
      /\ fresh = [e \in Entities |-> FALSE] /\ roster = FALSE /\ unheard = {}
      /\ held = [e \in Entities |-> IF row[e].life = "live" THEN {row[e].name} ELSE {}]
      /\ edits = 0 /\ faults = 0
  BY DEF Init, Live
<1>4. \A t \in AllTasks : Frames(t) = {}
  BY <1>3, EmptyStack DEF Frames
<1>5. Types
  <2>1. held \in [Entities -> SUBSET Names]
    BY <1>2, <1>3 DEF Row
  <2>2. edits \in 0..MaxEdits /\ faults \in 0..MaxFaults
    BY <1>3, ScimAssumption
  <2> QED BY <1>2, <1>3, <2>1, <2>2, EmptyStack DEF Types
<1>6. Refs
  <2>1. Len(res) \in Nat
    BY <1>2, LenProperties
  <2> QED BY <1>2, <1>3, <1>4, <2>1 DEF Refs
<1>7. Rows
  <2>1. \A u \in row[Group].members : row[u].life # "new"
    BY <1>2
  <2>2. ASSUME NEW e \in Entities
        PROVE  /\ row[e].life = "live" => row[e].name \in held[e]
               /\ held[e] \subseteq NamesOf(e) /\ tx[e] = NoTx
    <3>1. row[e].name \in NamesOf(e)
      BY <1>2
    <3>2. held[e] = IF row[e].life = "live" THEN {row[e].name} ELSE {}
      BY <1>3
    <3> QED BY <1>3, <3>1, <3>2
  <2>3. tx[Group] = NoTx
    BY <2>2 DEF Entities
  <2> QED BY <1>2, <2>1, <2>2, <2>3 DEF Rows, Live
<1>8. Named
  BY <1>3, <1>4 DEF Named
<1>9. Owned
  <2>1. \A r \in DOMAIN res : r # 0
    BY <1>2, LenProperties
  <2>2. \A r \in DOMAIN res : \A d \in Entities : ~Owns(d, r)
    BY <1>3, <1>4, <2>1 DEF Owns
  <2> QED BY <2>2 DEF Owned
<1>10. Clean /\ Whole
  BY <1>3 DEF Clean, Whole, Entities
<1> QED BY <1>5, <1>6, <1>7, <1>8, <1>9, <1>10 DEF ScimInv

LEMMA StepInv == ScimInv /\ [Next]_vars => ScimInv'
<1> SUFFICES ASSUME ScimInv, [Next]_vars PROVE ScimInv'
  OBVIOUS
<1>1. Types /\ Refs /\ Rows /\ Named /\ Owned /\ Clean /\ Whole
  BY DEF ScimInv
<1>2. Effect
  BY <1>1, Effects
<1>3. Types' /\ Refs' /\ Rows'
  BY <1>1, <1>2, TypesKept, RefsKept, RowsKept
<1>4. Named' /\ Owned'
  BY <1>1, <1>2, NamedKept, OwnedKept
<1>5. Clean' /\ Whole'
  BY <1>1, <1>2, CleanKept, WholeKept
<1> QED BY <1>3, <1>4, <1>5 DEF ScimInv

LEMMA Invariance == Spec => []ScimInv
BY InitInv, StepInv, PTL DEF Spec

\* Whatever the rows and resources at first: every reference to a resource, of
\* a sync state or of a group's members, is to one the endpoint has; a task has
\* three pushes in hand at most; and all else has its type.
THEOREM TypeCorrect == Spec => []TypeOK
<1>1. ASSUME ScimInv PROVE TypeOK
  <2>1. Types /\ Refs
    BY <1>1 DEF ScimInv
  <2>2. link \in [Entities -> 0..Len(res)]
    <3>1. Len(res) \in Nat /\ \A e \in Entities : link[e] \in 0..Len(res)
      BY <2>1, SameKnown
    <3> QED BY <2>1, <3>1 DEF Types
  <2>3. \A t \in AllTasks : Len(stack[t]) <= 3
    BY <2>1, ThreeAtMost DEF Types
  <2> QED BY <2>1, <2>2, <2>3 DEF TypeOK, Types, Refs
<1> QED BY <1>1, Invariance, PTL

LEMMA IdleHasNone ==
  ASSUME NEW e, Idle(e)
  PROVE  NoPush(e)
BY DEF Idle, NoPush, Frames, In

\* For every number of users, tasks, attempts, changes and faults: a push that
\* read its entity alone and ended without an error has left the endpoint with
\* the entity as the console has it.
THEOREM PushesAreCurrent == Spec => []PushedIsCurrent
<1>1. ASSUME ScimInv PROVE PushedIsCurrent
  <2> SUFFICES ASSUME NEW e \in Entities, Idle(e), fresh[e], ~err[e], ~Reused(e) PROVE Current(e)
    BY DEF PushedIsCurrent
  <2>1. CleanOK(e)
    BY <1>1 DEF ScimInv, Clean
  <2>2. NoPush(e)
    BY IdleHasNone
  <2> QED BY <2>1, <2>2 DEF CleanOK
<1> QED BY <1>1, Invariance, PTL

\* For the same constants: the endpoint's group has then exactly the members
\* the endpoint knows, and what keeps another out was noted, or was lost with
\* the note of it.
THEOREM RosterStaysWhole == Spec => []RosterIsWhole
<1>1. ASSUME ScimInv PROVE RosterIsWhole
  <2> SUFFICES ASSUME Idle(Group), roster, ~err[Group]
               PROVE  /\ res[link[Group]].members = MemberIds
                      /\ \A u \in Members \ Linked : err[u] \/ u \in unheard
    BY DEF RosterIsWhole
  <2>1. Roster
    BY <1>1 DEF ScimInv, Whole
  <2>2. NoPush(Group)
    BY IdleHasNone
  <2> QED BY <2>1, <2>2 DEF Roster, Out
<1> QED BY <1>1, Invariance, PTL

\* Two entities of which one had no name of another's are not known by one
\* resource, whatever lookups after a 409 adopted.
OwnResources == \A d, e \in Entities : d # e /\ ~Reused(d) /\ link[d] # 0 => link[e] # link[d]

\* What the endpoint has of an entity is nobody else's, unless the entity had a
\* name that was another's: the lookup by name takes no other resource.
THEOREM ResourcesAreOwn == Spec => []OwnResources
<1>1. ASSUME ScimInv PROVE OwnResources
  <2>1. Types /\ Refs /\ Owned
    BY <1>1 DEF ScimInv
  <2> SUFFICES ASSUME NEW d \in Entities, NEW e \in Entities, d # e, ~Reused(d), link[d] # 0, link[e] = link[d]
               PROVE  FALSE
    BY DEF OwnResources
  <2>2. link[d] \in DOMAIN res
    BY <2>1, SameKnown
  <2>3. Owns(d, link[d]) /\ Owns(e, link[d])
    BY DEF Owns
  <2>4. Shares(d, e)
    BY <2>1, <2>2, <2>3 DEF Owned
  <2> QED BY <2>4 DEF Shares
<1> QED BY <1>1, Invariance, PTL
=============================================================================
