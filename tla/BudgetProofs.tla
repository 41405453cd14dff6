---------------------------- MODULE BudgetProofs ----------------------------
(***************************************************************************)
(* Proofs about the memory budget (SlideBudget).                           *)
(*                                                                         *)
(* Two invariants carry them.  Safe (the types and NoLostWakeup) needs only*)
(* to know what a pass over the queues grants: what fits, and no more      *)
(* (ServedFits, PassFits).  Kept needs what is granted to be added up:     *)
(* the queues hold waiting files, each once (Lined), who waits or has ended*)
(* holds nothing and the finally clause releases what the model says is    *)
(* held (Balanced), and then no step but a failure changes the sum by more *)
(* than the cap of release does.                                           *)
(*                                                                         *)
(* Weight is a recursive function and the sum of the holds is a fold, so   *)
(* both are reasoned about by induction: over the set of numbers for which *)
(* a fact holds (Induction), which needs no operator parameter.            *)
(***************************************************************************)
EXTENDS SlideBudget, FiniteSetTheorems, SequenceTheorems, TLAPS

\* Induction on the natural numbers, over a set of them.
LEMMA Induction ==
  ASSUME NEW T, 0 \in T, \A n \in Nat : n \in T => n + 1 \in T
  PROVE  \A n \in Nat : n \in T
  <1> DEFINE B == Nat \ T
  <1>1. SUFFICES ASSUME B # {} PROVE FALSE
    OBVIOUS
  <1>2. B \subseteq Nat
    OBVIOUS
  <1>3. PICK x \in B : \A y \in B : ~ (<<y, x>> \in OpToRel(<, Nat))
    BY <1>1, <1>2, NatLessThanWellFounded, WFMin
  <1>4. \A y \in B : ~ (y < x)
    BY <1>3 DEF OpToRel
  <1>5. x = 0 \/ (x - 1 \in Nat /\ x - 1 < x /\ (x - 1) + 1 = x)
    OBVIOUS
  <1> QED
    BY <1>4, <1>5

\* A set of natural numbers that is bounded and not empty has a maximum.
LEMMA MaxIsThere ==
  ASSUME NEW S, S \subseteq Nat, S # {}, NEW n \in Nat, \A s \in S : s <= n
  PROVE  Max(S) \in S /\ \A s \in S : s <= Max(S)
  <1> DEFINE T == {m \in Nat : (\A s \in S : s <= m) => \E x \in S : \A s \in S : s <= x}
  <1>1. 0 \in T
    <2>1. SUFFICES ASSUME \A s \in S : s <= 0 PROVE \E x \in S : \A s \in S : s <= x
      OBVIOUS
    <2>2. PICK x \in S : TRUE
      OBVIOUS
    <2>3. x = 0 /\ \A s \in S : s <= x
      BY <2>1
    <2> QED
      BY <2>3
  <1>2. ASSUME NEW m \in Nat, m \in T PROVE m + 1 \in T
    <2>1. SUFFICES ASSUME \A s \in S : s <= m + 1
                   PROVE  \E x \in S : \A s \in S : s <= x
      OBVIOUS
    <2>2. CASE m + 1 \in S
      BY <2>1, <2>2
    <2>3. CASE m + 1 \notin S
      <3>1. \A s \in S : s <= m
        BY <2>1, <2>3
      <3> QED
        BY <1>2, <3>1
    <2> QED
      BY <2>2, <2>3
  <1> HIDE DEF T
  <1>3. \A m \in Nat : m \in T
    BY <1>1, <1>2, Induction
  <1>4. \E x \in S : \A s \in S : s <= x
    BY <1>3 DEF T
  <1> QED
    BY <1>4 DEF Max

\* The sum that Weight computes.
Sums(q, n, f) == f = [i \in 0..n |-> IF i = 0 THEN 0 ELSE f[i - 1] + q[i].weight]

LEMMA SumsExist ==
  ASSUME NEW q, NEW N \in Nat, \A i \in 1..N : q[i].weight \in Nat
  PROVE  \A n \in 0..N : \E f \in [0..n -> Nat] : Sums(q, n, f)
  <1> DEFINE T == {n \in Nat : n <= N => \E f \in [0..n -> Nat] : Sums(q, n, f)}
  <1>1. 0 \in T
    <2> DEFINE f == [i \in 0..0 |-> 0]
    <2>1. f \in [0..0 -> Nat] /\ Sums(q, 0, f)
      BY DEF Sums
    <2> QED
      BY <2>1
  <1>2. ASSUME NEW n \in Nat, n \in T PROVE n + 1 \in T
    <2>1. SUFFICES ASSUME n + 1 <= N PROVE \E f \in [0..n + 1 -> Nat] : Sums(q, n + 1, f)
      OBVIOUS
    <2>2. PICK f \in [0..n -> Nat] : Sums(q, n, f)
      BY <1>2, <2>1
    <2> DEFINE g == [i \in 0..n + 1 |-> IF i = n + 1 THEN f[n] + q[n + 1].weight ELSE f[i]]
    <2>3. g \in [0..n + 1 -> Nat]
      BY <2>1
    <2>4. ASSUME NEW i \in 0..n + 1
          PROVE  g[i] = IF i = 0 THEN 0 ELSE g[i - 1] + q[i].weight
      <3>1. CASE i = n + 1
        BY <3>1
      <3>2. CASE i # n + 1
        <4>1. i \in 0..n /\ (i # 0 => i - 1 \in 0..n)
          BY <3>2
        <4>2. f[i] = IF i = 0 THEN 0 ELSE f[i - 1] + q[i].weight
          BY <2>2, <4>1 DEF Sums
        <4> QED
          BY <3>2, <4>1, <4>2
      <3> QED
        BY <3>1, <3>2
    <2>5. Sums(q, n + 1, g)
      BY <2>4 DEF Sums
    <2> QED
      BY <2>3, <2>5
  <1> HIDE DEF T
  <1>3. \A n \in Nat : n \in T
    BY <1>1, <1>2, Induction
  <1>4. ASSUME NEW n \in 0..N PROVE \E f \in [0..n -> Nat] : Sums(q, n, f)
    <2>1. n \in Nat /\ n <= N /\ n \in T
      BY <1>3
    <2> QED
      BY <2>1 DEF T
  <1> QED
    BY <1>4

LEMMA SumsAgree ==
  ASSUME NEW q, NEW n \in Nat, NEW m \in Nat, NEW f, NEW g, Sums(q, n, f), Sums(q, m, g)
  PROVE  \A i \in Nat : i <= n /\ i <= m => f[i] = g[i]
  <1> DEFINE T == {i \in Nat : i <= n /\ i <= m => f[i] = g[i]}
  <1>1. 0 \in T
    BY DEF Sums
  <1>2. ASSUME NEW i \in Nat, i \in T PROVE i + 1 \in T
    <2>1. SUFFICES ASSUME i + 1 <= n, i + 1 <= m PROVE f[i + 1] = g[i + 1]
      OBVIOUS
    <2>2. /\ f[i + 1] = f[(i + 1) - 1] + q[i + 1].weight
          /\ g[i + 1] = g[(i + 1) - 1] + q[i + 1].weight
      BY <2>1 DEF Sums
    <2>3. (i + 1) - 1 = i /\ f[i] = g[i]
      BY <1>2, <2>1
    <2> QED
      BY <2>2, <2>3
  <1> HIDE DEF T
  <1>3. \A i \in Nat : i \in T
    BY <1>1, <1>2, Induction
  <1> QED
    BY <1>3 DEF T

\* Weight adds up the weights of the first entries.
LEMMA WeightSums ==
  ASSUME NEW q, NEW N \in Nat, \A i \in 1..N : q[i].weight \in Nat
  PROVE  /\ Weight(q, 0) = 0
         /\ \A k \in 0..N : Weight(q, k) \in Nat
         /\ \A k \in 0..N : k < N => Weight(q, k + 1) = Weight(q, k) + q[k + 1].weight
  <1> DEFINE F(k) == CHOOSE f : Sums(q, k, f)
  <1>1. \A k \in 0..N : Sums(q, k, F(k))
    BY SumsExist
  <1>2. \A k : Weight(q, k) = F(k)[k]
    BY DEF Weight, Sums
  <1>3. ASSUME NEW k \in 0..N, NEW f, Sums(q, k, f), NEW i \in 0..k PROVE f[i] = Weight(q, i)
    <2>1. Sums(q, i, F(i))
      BY <1>1, <1>3
    <2> HIDE DEF F
    <2>2. f[i] = F(i)[i]
      BY <1>3, <2>1, SumsAgree
    <2> QED
      BY <1>2, <2>2
  <1> HIDE DEF F
  <1>4. ASSUME NEW k \in 0..N PROVE Weight(q, k) \in Nat
    <2>1. PICK f \in [0..k -> Nat] : Sums(q, k, f)
      BY SumsExist
    <2>2. f[k] = Weight(q, k)
      BY <1>3, <2>1
    <2> QED
      BY <2>1, <2>2
  <1>5. Weight(q, 0) = 0
    <2>1. 0 \in 0..N /\ 0 \in 0..0
      OBVIOUS
    <2>2. PICK f \in [0..0 -> Nat] : Sums(q, 0, f)
      BY <2>1, SumsExist
    <2>3. f[0] = Weight(q, 0)
      BY <1>3, <2>1, <2>2
    <2>4. f[0] = 0
      BY <2>1, <2>2 DEF Sums
    <2> QED
      BY <2>3, <2>4
  <1>6. ASSUME NEW k \in 0..N, k < N PROVE Weight(q, k + 1) = Weight(q, k) + q[k + 1].weight
    <2>1. k + 1 \in 0..N /\ k + 1 \in 0..k + 1 /\ k \in 0..k + 1 /\ (k + 1) - 1 = k /\ k + 1 # 0
      BY <1>6
    <2>2. PICK f \in [0..k + 1 -> Nat] : Sums(q, k + 1, f)
      BY <2>1, SumsExist
    <2>3. f[k + 1] = Weight(q, k + 1) /\ f[k] = Weight(q, k)
      BY <1>3, <2>1, <2>2
    <2>4. f[k + 1] = f[k] + q[k + 1].weight
      BY <2>1, <2>2 DEF Sums
    <2> QED
      BY <2>3, <2>4
  <1> QED
    BY <1>4, <1>5, <1>6

\* What the entries of a queue are, and what is left of it when the first k
\* are gone.
LEMMA Queued ==
  ASSUME NEW q \in Seq(Entries)
  PROVE  /\ Len(q) \in Nat
         /\ \A i \in 1..Len(q) :
              q[i] \in Entries /\ q[i].file \in Files /\ q[i].weight \in Nat
                /\ q[i].weight \in 1..Capacity
  <1>1. ASSUME NEW i \in 1..Len(q) PROVE q[i] \in Entries
    BY ElementOfSeq
  <1> QED
    BY <1>1, BudgetAssumption DEF Entries

LEMMA Left ==
  ASSUME NEW q \in Seq(Entries), NEW k \in 0..Len(q)
  PROVE  LET r == SubSeq(q, k + 1, Len(q)) IN
         /\ r \in Seq(Entries) /\ Len(r) = Len(q) - k
         /\ \A i \in 1..Len(r) : r[i] = q[k + i]
         /\ r # <<>> => k < Len(q) /\ Head(r) = q[k + 1]
         /\ k = Len(q) => r = <<>>
  <1> DEFINE r == SubSeq(q, k + 1, Len(q))
  <1>1. Len(q) \in Nat /\ \A i \in k + 1..Len(q) : q[i] \in Entries
    BY Queued
  <1>2. /\ r \in Seq(Entries)
        /\ Len(r) = IF k + 1 <= Len(q) THEN Len(q) - (k + 1) + 1 ELSE 0
        /\ \A i \in 1..Len(q) - (k + 1) + 1 : r[i] = q[k + 1 + i - 1]
    BY <1>1, SubSeqProperties
  <1>3. k = Len(q) => r = <<>>
    BY <1>1, SubSeqEmpty
  <1> HIDE DEF r
  <1>4. Len(r) = Len(q) - k /\ \A i \in 1..Len(r) : r[i] = q[k + i]
    BY <1>1, <1>2
  <1>5. ASSUME r # <<>> PROVE k < Len(q) /\ Head(r) = q[k + 1]
    <2>1. k < Len(q)
      BY <1>1, <1>3, <1>5
    <2>2. Head(r) = r[1] /\ 1 \in 1..Len(r)
      BY <1>1, <1>2, <1>4, <1>5, <2>1
    <2> QED
      BY <1>4, <2>1, <2>2
  <1> QED
    BY <1>2, <1>3, <1>4, <1>5 DEF r

\* The head loop grants what fits, and stops at an entry that does not.
LEMMA ServedFits ==
  ASSUME NEW q \in Seq(Entries), NEW av \in Nat
  PROVE  /\ Served(q, av) \in 0..Len(q)
         /\ Weight(q, Served(q, av)) \in 0..av
         /\ Served(q, av) < Len(q) =>
              q[Served(q, av) + 1].weight > av - Weight(q, Served(q, av))
  <1> DEFINE S == {k \in 0..Len(q) : Weight(q, k) <= av}
             m == Served(q, av)
  <1>1. Len(q) \in Nat /\ \A i \in 1..Len(q) : q[i].weight \in Nat
    BY Queued
  <1>2. /\ Weight(q, 0) = 0
        /\ \A k \in 0..Len(q) : Weight(q, k) \in Nat
        /\ \A k \in 0..Len(q) : k < Len(q) => Weight(q, k + 1) = Weight(q, k) + q[k + 1].weight
    BY <1>1, WeightSums
  <1>3. m = Max(S)
    BY DEF Served
  <1>4. S \subseteq Nat /\ 0 \in S /\ \A s \in S : s <= Len(q)
    BY <1>1, <1>2
  <1>5. m \in S /\ \A s \in S : s <= m
    <2> HIDE DEF S, m
    <2> QED
      BY <1>1, <1>3, <1>4, MaxIsThere
  <1> HIDE DEF m
  <1>6. m \in 0..Len(q) /\ Weight(q, m) \in Nat /\ Weight(q, m) <= av
    BY <1>2, <1>5
  <1>7. ASSUME m < Len(q) PROVE q[m + 1].weight > av - Weight(q, m)
    <2>1. m + 1 \in 0..Len(q) /\ ~(m + 1 <= m)
      BY <1>1, <1>6, <1>7
    <2>2. ~(Weight(q, m + 1) <= av)
      BY <1>5, <2>1
    <2>3. Weight(q, m + 1) = Weight(q, m) + q[m + 1].weight /\ q[m + 1].weight \in Nat
      BY <1>1, <1>2, <1>6, <1>7
    <2> QED
      BY <1>6, <2>2, <2>3
  <1> QED
    BY <1>6, <1>7 DEF m

-----------------------------------------------------------------------------
(* The semaphore *)

\* What a pass over a queue makes of what the files hold.
Given(g, q, k) ==
  [f \in Files |-> IF f \in FilesOf(q, k)
                   THEN q[CHOOSE i \in 1..k : q[i].file = f].weight ELSE g[f]]

\* How many first acquisitions a pass grants.
Firsts(av, up, wa) ==
  IF Served(up, av) = Len(up) THEN Served(wa, av - Weight(up, Served(up, av))) ELSE 0

LEMMA Pass ==
  ASSUME NEW av, NEW up, NEW wa, NEW p, NEW out, NEW in, WakeWaiters(av, up, wa, p, out, in)
  PROVE  LET ku == Served(up, av)
             kw == Firsts(av, up, wa)
         IN  /\ available' = av - Weight(up, ku) - Weight(wa, kw)
             /\ upgraders' = SubSeq(up, ku + 1, Len(up))
             /\ waiters' = SubSeq(wa, kw + 1, Len(wa))
             /\ pc' = [f \in Files |-> IF f \in FilesOf(up, ku) THEN "sized"
                                       ELSE IF f \in FilesOf(wa, kw) THEN "holding" ELSE p[f]]
             /\ inner' = Given(Given(in, wa, kw), up, ku)
             /\ outer' = [f \in Files |-> IF f \in FilesOf(wa, kw) THEN inner'[f] ELSE out[f]]
  BY DEF WakeWaiters, Grant, Given, Firsts

LEMMA GivenTypes ==
  ASSUME NEW g \in [Files -> 0..Capacity], NEW q \in Seq(Entries), NEW k \in 0..Len(q)
  PROVE  Given(g, q, k) \in [Files -> 0..Capacity]
  <1>1. ASSUME NEW f \in FilesOf(q, k)
        PROVE  q[CHOOSE i \in 1..k : q[i].file = f].weight \in 0..Capacity
    <2> DEFINE j == CHOOSE i \in 1..k : q[i].file = f
    <2>1. \E i \in 1..k : q[i].file = f
      BY <1>1 DEF FilesOf
    <2>2. j \in 1..k
      BY <2>1
    <2> HIDE DEF j
    <2>3. j \in 1..Len(q)
      BY <2>2, Queued
    <2>4. q[j].weight \in 1..Capacity
      BY <2>3, Queued
    <2> QED
      BY <2>4, BudgetAssumption DEF j
  <1> QED
    BY <1>1 DEF Given

\* What is granted fits, what is left at the head of the queue does not, and
\* the waiters' turn comes when no upgrader is left.
LEMMA PassFits ==
  ASSUME NEW av \in Nat, NEW up \in Seq(Entries), NEW wa \in Seq(Entries)
  PROVE  LET ku == Served(up, av)
             kw == Firsts(av, up, wa)
             left == av - Weight(up, ku) - Weight(wa, kw)
         IN  /\ ku \in 0..Len(up) /\ kw \in 0..Len(wa) /\ (kw # 0 => ku = Len(up))
             /\ Weight(up, ku) \in Nat /\ Weight(wa, kw) \in Nat /\ left \in 0..av
             /\ ku < Len(up) => up[ku + 1].weight > left
             /\ ku = Len(up) /\ kw < Len(wa) => wa[kw + 1].weight > left
  <1> DEFINE ku == Served(up, av)
             kw == Firsts(av, up, wa)
             rest == av - Weight(up, ku)
  <1>1. /\ ku \in 0..Len(up) /\ Weight(up, ku) \in 0..av
        /\ ku < Len(up) => up[ku + 1].weight > rest
    BY ServedFits
  <1>2. rest \in Nat /\ Len(up) \in Nat /\ Len(wa) \in Nat
    BY <1>1, Queued
  <1>3. CASE ku = Len(up)
    <2>1. kw = Served(wa, rest)
      BY <1>3 DEF Firsts
    <2> HIDE DEF ku, kw, rest
    <2>2. /\ kw \in 0..Len(wa) /\ Weight(wa, kw) \in 0..rest
          /\ kw < Len(wa) => wa[kw + 1].weight > rest - Weight(wa, kw)
      BY <1>2, <2>1, ServedFits
    <2>3. rest - Weight(wa, kw) \in 0..av
      BY <1>1, <1>2, <2>2 DEF rest
    <2> QED
      BY <1>1, <1>2, <1>3, <2>2, <2>3 DEF ku, kw, rest
  <1>4. CASE ku # Len(up)
    <2>1. kw = 0
      BY <1>4 DEF Firsts
    <2>2. Weight(wa, 0) = 0
      BY Queued, WeightSums
    <2>3. \A i \in 1..Len(up) : up[i].weight \in Nat
      BY Queued
    <2> HIDE DEF ku, kw, rest
    <2>4. rest - Weight(wa, kw) = rest /\ rest \in 0..av
      BY <1>1, <1>2, <2>1, <2>2 DEF rest
    <2> QED
      BY <1>1, <1>2, <1>4, <2>1, <2>2, <2>4 DEF ku, kw, rest
  <1> QED
    BY <1>3, <1>4

\* What holds after a pass, whatever held before it.
LEMMA PassKeeps ==
  ASSUME NEW av \in 0..Capacity, NEW up \in Seq(Entries), NEW wa \in Seq(Entries),
         NEW p \in [Files -> Steps], NEW out \in [Files -> 0..Capacity],
         NEW in \in [Files -> 0..Capacity], WakeWaiters(av, up, wa, p, out, in),
         pages \in [Files -> PageCounts], prev \in [Files -> PrevCounts],
         UNCHANGED <<pages, prev>>, lost' \in Nat, extra' \in Nat
  PROVE  /\ TypeOK' /\ NoLostWakeup'
         /\ \A f \in Files : p[f] # "holding" /\ pc'[f] = "holding" => upgraders' = <<>>
  <1> DEFINE ku == Served(up, av)
             kw == Firsts(av, up, wa)
  <1>1. /\ available' = av - Weight(up, ku) - Weight(wa, kw)
        /\ upgraders' = SubSeq(up, ku + 1, Len(up))
        /\ waiters' = SubSeq(wa, kw + 1, Len(wa))
        /\ pc' = [f \in Files |-> IF f \in FilesOf(up, ku) THEN "sized"
                                  ELSE IF f \in FilesOf(wa, kw) THEN "holding" ELSE p[f]]
        /\ inner' = Given(Given(in, wa, kw), up, ku)
        /\ outer' = [f \in Files |-> IF f \in FilesOf(wa, kw) THEN inner'[f] ELSE out[f]]
    BY Pass
  <1>2. av \in Nat
    BY BudgetAssumption
  <1>3. /\ ku \in 0..Len(up) /\ kw \in 0..Len(wa) /\ (kw # 0 => ku = Len(up))
        /\ available' \in 0..av
        /\ ku < Len(up) => up[ku + 1].weight > available'
        /\ ku = Len(up) /\ kw < Len(wa) => wa[kw + 1].weight > available'
    BY <1>1, <1>2, PassFits
  <1> HIDE DEF ku, kw
  <1>4. Len(up) \in Nat /\ Len(wa) \in Nat
    BY Queued
  <1>5. /\ upgraders' \in Seq(Entries)
        /\ upgraders' # <<>> => ku < Len(up) /\ Head(upgraders') = up[ku + 1]
        /\ ku = Len(up) => upgraders' = <<>>
    BY <1>1, <1>3, Left
  <1>6. /\ waiters' \in Seq(Entries)
        /\ waiters' # <<>> => kw < Len(wa) /\ Head(waiters') = wa[kw + 1]
    BY <1>1, <1>3, Left
  <1>7. inner' \in [Files -> 0..Capacity]
    BY <1>1, <1>3, GivenTypes
  <1>8. outer' \in [Files -> 0..Capacity]
    BY <1>1, <1>7
  <1>9. pc' \in [Files -> Steps]
    BY <1>1 DEF Steps
  <1>10. available' \in 0..Capacity
    BY <1>3, BudgetAssumption
  <1>11. TypeOK'
    BY <1>5, <1>6, <1>7, <1>8, <1>9, <1>10 DEF TypeOK
  <1>12. NoLostWakeup'
    <2>1. upgraders' = <<>> => ku = Len(up)
      <3>1. Len(SubSeq(up, ku + 1, Len(up))) = Len(up) - ku
        BY <1>3, Left
      <3>2. Len(<<>>) = 0
        OBVIOUS
      <3>3. ASSUME upgraders' = <<>> PROVE ku = Len(up)
        <4>1. Len(up) - ku = 0
          BY <1>1, <3>1, <3>2, <3>3
        <4> QED
          BY <1>3, <1>4, <4>1
      <3> QED
        BY <3>3
    <2> QED
      BY <1>3, <1>5, <1>6, <2>1 DEF NoLostWakeup
  <1>13. ASSUME NEW f \in Files, p[f] # "holding", pc'[f] = "holding" PROVE upgraders' = <<>>
    <2>1. f \in FilesOf(wa, kw)
      BY <1>1, <1>13
    <2>2. kw # 0
      BY <2>1 DEF FilesOf
    <2> QED
      BY <1>3, <1>5, <2>2
  <1> QED
    BY <1>11, <1>12, <1>13

-----------------------------------------------------------------------------
(* The tasks *)

Safe == TypeOK /\ NoLostWakeup

\* A file gets its first units only when no file waits for more.
InOrder ==
  \A f \in Files : (pc[f] \in {"new", "waiting"} /\ pc'[f] = "holding") => upgraders' = <<>>

LEMMA EffectiveType == \A n \in Nat : Effective(n) \in 1..Capacity
  BY BudgetAssumption DEF Effective

LEMMA ReleaseKeeps ==
  ASSUME TypeOK, NEW weight \in Nat, NEW up \in Seq(Entries), NEW g \in Files,
         NEW s \in Steps \ {"holding"}, NEW out \in [Files -> 0..Capacity],
         NEW in \in [Files -> 0..Capacity], Release(weight, up, [pc EXCEPT ![g] = s], out, in),
         UNCHANGED <<pages, prev, lost, extra>>
  PROVE  Safe' /\ InOrder
  <1> DEFINE sum == available + weight
             av == IF sum > Capacity THEN Capacity ELSE sum
             p == [pc EXCEPT ![g] = s]
  <1>1. WakeWaiters(av, up, waiters, p, out, in)
    BY DEF Release
  <1>2. av \in 0..Capacity
    BY BudgetAssumption DEF TypeOK
  <1>3. p \in [Files -> Steps] /\ \A f \in Files : p[f] = "holding" => pc[f] = "holding"
    BY DEF TypeOK
  <1>4. /\ waiters \in Seq(Entries) /\ pages \in [Files -> PageCounts] /\ prev \in [Files -> PrevCounts]
        /\ lost' \in Nat /\ extra' \in Nat
    BY DEF TypeOK
  <1> HIDE DEF av, p
  <1>5. /\ TypeOK' /\ NoLostWakeup'
        /\ \A f \in Files : p[f] # "holding" /\ pc'[f] = "holding" => upgraders' = <<>>
    BY <1>1, <1>2, <1>3, <1>4, PassKeeps
  <1> QED
    BY <1>3, <1>5 DEF Safe, InOrder

\* A step that leaves the semaphore alone.
LEMMA Quiet ==
  ASSUME Safe, NEW g \in Files, NEW s \in Steps \ {"holding"}, pc' = [pc EXCEPT ![g] = s],
         outer' \in [Files -> 0..Capacity], inner' \in [Files -> 0..Capacity],
         lost' \in Nat, extra' \in Nat, UNCHANGED <<available, upgraders, waiters, pages, prev>>
  PROVE  Safe' /\ InOrder
  <1>1. /\ pc' \in [Files -> Steps]
        /\ \A f \in Files : pc'[f] = "holding" => pc[f] = "holding"
    BY DEF Safe, TypeOK
  <1>2. TypeOK' /\ InOrder
    BY <1>1 DEF Safe, TypeOK, InOrder
  <1>3. NoLostWakeup'
    BY DEF Safe, NoLostWakeup
  <1> QED
    BY <1>2, <1>3 DEF Safe

LEMMA AcquireKeeps == ASSUME Safe, NEW f \in Files, Acquire(f) PROVE Safe' /\ InOrder
  <1> DEFINE w == Effective(Floor)
             rec == [file |-> f, weight |-> w]
  <1>1. w \in 1..Capacity /\ rec \in Entries /\ UNCHANGED <<upgraders, pages, prev, lost, extra>>
    BY EffectiveType, BudgetAssumption DEF Acquire, Entries
  <1>2. CASE upgraders = <<>> /\ waiters = <<>> /\ available >= w
    <2>1. /\ available' = available - w /\ pc' = [pc EXCEPT ![f] = "holding"]
          /\ outer' = [outer EXCEPT ![f] = w] /\ inner' = [inner EXCEPT ![f] = w]
          /\ UNCHANGED waiters
      BY <1>2 DEF Acquire
    <2> HIDE DEF w, rec
    <2>2. available' \in 0..Capacity
      BY <1>1, <1>2, <2>1, BudgetAssumption DEF Safe, TypeOK
    <2>3. w \in 0..Capacity
      BY <1>1, BudgetAssumption
    <2>4. TypeOK'
      BY <1>1, <2>1, <2>2, <2>3 DEF Safe, TypeOK, Steps
    <2>5. NoLostWakeup' /\ InOrder
      BY <1>1, <1>2, <2>1 DEF NoLostWakeup, InOrder
    <2> QED
      BY <2>4, <2>5 DEF Safe
  <1>3. CASE ~(upgraders = <<>> /\ waiters = <<>> /\ available >= w)
    <2>1. /\ waiters' = Append(waiters, rec) /\ pc' = [pc EXCEPT ![f] = "waiting"]
          /\ UNCHANGED <<available, outer, inner>>
      BY <1>3 DEF Acquire
    <2>2. rec.weight = w
      OBVIOUS
    <2> HIDE DEF w, rec
    <2>3. /\ waiters' \in Seq(Entries)
          /\ Head(waiters') = IF waiters = <<>> THEN rec ELSE Head(waiters)
      BY <1>1, <2>1, AppendProperties, HeadTailAppend DEF Safe, TypeOK
    <2>4. TypeOK' /\ InOrder
      BY <1>1, <2>1, <2>3 DEF Safe, TypeOK, Steps, InOrder
    <2>5. available \in Nat /\ w \in Nat
      BY <1>1, BudgetAssumption DEF Safe, TypeOK
    <2>6. NoLostWakeup'
      BY <1>1, <1>3, <2>1, <2>2, <2>3, <2>5 DEF Safe, NoLostWakeup
    <2> QED
      BY <2>4, <2>6 DEF Safe
  <1> QED
    BY <1>2, <1>3

LEMMA BeginExtractKeeps == ASSUME Safe, NEW f \in Files, BeginExtract(f) PROVE Safe' /\ InOrder
  <1> DEFINE w == Effective(prev[f])
             p == [pc EXCEPT ![f] = "extracting"]
             in == [inner EXCEPT ![f] = w]
  <1>1. w \in 1..Capacity /\ inner[f] \in 0..Capacity
    BY EffectiveType, BudgetAssumption DEF Safe, TypeOK
  <1>2. CASE prev[f] > 0 /\ w < inner[f]
    <2>1. Release(inner[f] - w, upgraders, p, outer, in)
      BY <1>2 DEF BeginExtract
    <2>2. inner[f] - w \in Nat /\ in \in [Files -> 0..Capacity]
      BY <1>1, <1>2, BudgetAssumption DEF Safe, TypeOK
    <2> HIDE DEF w, in
    <2> QED
      BY <2>1, <2>2, ReleaseKeeps DEF Safe, TypeOK, Steps, BeginExtract
  <1>3. CASE ~(prev[f] > 0 /\ w < inner[f])
    BY <1>3, Quiet DEF BeginExtract, Safe, TypeOK, Steps
  <1> QED
    BY <1>2, <1>3

LEMMA UpgradeKeeps == ASSUME Safe, NEW f \in Files, Upgrade(f) PROVE Safe' /\ InOrder
  <1> DEFINE w == Effective(pages[f])
             rec == [file |-> f, weight |-> w]
             in == [inner EXCEPT ![f] = w]
             none == [inner EXCEPT ![f] = 0]
  <1>1. w \in 1..Capacity /\ inner[f] \in 0..Capacity /\ rec \in Entries
    BY EffectiveType, BudgetAssumption DEF Safe, TypeOK, Entries
  <1>2. CASE w < inner[f]
    <2>1. Release(inner[f] - w, upgraders, [pc EXCEPT ![f] = "sized"], outer, in)
      BY <1>1, <1>2, BudgetAssumption DEF Upgrade
    <2>2. inner[f] - w \in Nat /\ in \in [Files -> 0..Capacity]
      BY <1>1, <1>2, BudgetAssumption DEF Safe, TypeOK
    <2> HIDE DEF w, in
    <2> QED
      BY <2>1, <2>2, ReleaseKeeps DEF Safe, TypeOK, Steps, Upgrade
  <1>3. CASE w = inner[f]
    <2>1. pc' = [pc EXCEPT ![f] = "sized"] /\ UNCHANGED <<available, upgraders, waiters, outer, inner>>
      BY <1>1, <1>3, BudgetAssumption DEF Upgrade
    <2> QED
      BY <2>1, Quiet DEF Upgrade, Safe, TypeOK, Steps
  <1>4. CASE w > inner[f]
    <2>1. Release(inner[f], Append(upgraders, rec), [pc EXCEPT ![f] = "upgrading"], outer, none)
      BY <1>1, <1>4, BudgetAssumption DEF Upgrade
    <2>2. inner[f] \in Nat /\ none \in [Files -> 0..Capacity]
      BY <1>1, BudgetAssumption DEF Safe, TypeOK
    <2> HIDE DEF w, rec, none
    <2>3. Append(upgraders, rec) \in Seq(Entries)
      BY <1>1, AppendProperties DEF Safe, TypeOK
    <2> QED
      BY <2>1, <2>2, <2>3, ReleaseKeeps DEF Safe, TypeOK, Steps, Upgrade
  <1> QED
    BY <1>1, <1>2, <1>3, <1>4, BudgetAssumption

LEMMA EndKeeps == ASSUME Safe, NEW f \in Files, End(f) PROVE Safe' /\ InOrder
  <1> DEFINE out == [outer EXCEPT ![f] = 0]
             in == [inner EXCEPT ![f] = 0]
  <1>1. Release(outer[f], upgraders, [pc EXCEPT ![f] = "done"], out, in)
    BY DEF End
  <1>2. outer[f] \in Nat /\ out \in [Files -> 0..Capacity] /\ in \in [Files -> 0..Capacity]
    BY BudgetAssumption DEF Safe, TypeOK
  <1> HIDE DEF out, in
  <1> QED
    BY <1>1, <1>2, ReleaseKeeps DEF Safe, TypeOK, Steps, End

LEMMA FinishKeeps == ASSUME Safe, NEW f \in Files, Finish(f) PROVE Safe' /\ InOrder
  <1>1. outer' \in [Files -> 0..Capacity] /\ inner' \in [Files -> 0..Capacity]
    BY DEF Finish, Safe, TypeOK
  <1>2. lost' \in Nat /\ extra' \in Nat
    BY DEF Finish, Safe, TypeOK
  <1> QED
    BY <1>1, <1>2, Quiet DEF Finish, Steps

LEMMA RaiseKeeps == ASSUME Safe, NEW f \in Files, Raise(f) PROVE Safe' /\ InOrder
  <1>1. outer' \in [Files -> 0..Capacity] /\ inner' \in [Files -> 0..Capacity]
    BY DEF Raise, Safe, TypeOK
  <1>2. inner[f] \in Nat /\ outer[f] \in Nat /\ lost \in Nat /\ extra \in Nat
    BY BudgetAssumption DEF Safe, TypeOK
  <1>3. lost' \in Nat /\ extra' \in Nat
    BY <1>2 DEF Raise
  <1> QED
    BY <1>1, <1>3, Quiet DEF Raise, Steps

LEMMA CancelKeeps == ASSUME Safe, Cancel PROVE Safe' /\ InOrder
  <1>1. 0 \in 0..Capacity /\ Capacity \in 0..Capacity
    BY BudgetAssumption
  <1>2. <<>> \in Seq(Entries)
    BY EmptySeq
  <1>3. TypeOK'
    BY <1>1, <1>2 DEF Cancel, Safe, TypeOK, Steps
  <1> QED
    BY <1>3 DEF Cancel, Safe, NoLostWakeup, InOrder

LEMMA NextSafe == Safe /\ [Next]_vars => Safe' /\ [InOrder]_vars
  <1> SUFFICES ASSUME Safe, [Next]_vars PROVE Safe' /\ [InOrder]_vars
    OBVIOUS
  <1>1. ASSUME NEW f \in Files, Step(f) PROVE Safe' /\ InOrder
    <2>1. CASE ExtractFails(f) \/ SizedFails(f)
      BY <2>1, RaiseKeeps DEF ExtractFails, SizedFails
    <2>2. CASE EndEarly(f)
      BY <2>2, Quiet DEF EndEarly, Steps, Safe, TypeOK
    <2> QED
      BY <1>1, <2>1, <2>2, AcquireKeeps, BeginExtractKeeps, UpgradeKeeps, FinishKeeps, EndKeeps DEF Step
  <1>2. CASE UNCHANGED vars
    BY <1>2 DEF vars, Safe, TypeOK, NoLostWakeup
  <1> QED
    BY <1>1, <1>2, CancelKeeps DEF Next

LEMMA InitSafe == Init => Safe
  <1> SUFFICES ASSUME Init PROVE Safe
    OBVIOUS
  <1>1. 0 \in 0..Capacity /\ Capacity \in 0..Capacity
    BY BudgetAssumption
  <1>2. <<>> \in Seq(Entries)
    BY EmptySeq
  <1> QED
    BY <1>1, <1>2 DEF Init, Safe, TypeOK, NoLostWakeup, Steps

LEMMA SafeAlways == Spec => []Safe
  BY InitSafe, NextSafe, PTL DEF Spec

-----------------------------------------------------------------------------
(* What the files hold together *)

Total(g) == MapThenSumSet(LAMBDA f : g[f], Files)

\* The function that Total evaluates, over the sets of at most n files.
First(s)  == CHOOSE x \in s : TRUE
Small(n)  == {s \in SUBSET Files : Cardinality(s) <= n}
Adds(g, S, h) ==
  \A s \in S : h[s] = IF s = {} THEN 0 ELSE g[First(s)] + h[s \ {First(s)}]
AddsUp(g, h) == Adds(g, SUBSET Files, h)

LEMMA TotalIs ==
  ASSUME NEW g
  PROVE  Total(g) = (CHOOSE h : h = [s \in SUBSET Files |->
                       IF s = {} THEN 0 ELSE g[First(s)] + h[s \ {First(s)}]])[Files]
  BY DEF Total, MapThenSumSet, MapThenFoldSet, First

LEMMA Counts ==
  ASSUME NEW s \in SUBSET Files
  PROVE  /\ Cardinality(s) \in Nat /\ Cardinality(s) <= Cardinality(Files)
         /\ Cardinality(s) = 0 <=> s = {}
         /\ s # {} => /\ First(s) \in s /\ s \ {First(s)} \in SUBSET Files
                      /\ Cardinality(s \ {First(s)}) = Cardinality(s) - 1
  <1>1. IsFiniteSet(s) /\ Cardinality(s) <= Cardinality(Files)
    BY FS_Subset, BudgetAssumption
  <1>2. s # {} => First(s) \in s
    BY DEF First
  <1>3. s # {} => Cardinality(s \ {First(s)}) = Cardinality(s) - 1
    BY <1>1, <1>2, FS_RemoveElement
  <1> QED
    BY <1>1, <1>2, <1>3, FS_CardinalityType, FS_EmptySet

LEMMA InSmall ==
  ASSUME NEW n \in Nat, NEW s
  PROVE  s \in Small(n) <=> s \in SUBSET Files /\ Cardinality(s) \in Nat /\ Cardinality(s) <= n
  <1>1. s \in SUBSET Files => Cardinality(s) \in Nat
    BY Counts
  <1> QED
    BY <1>1 DEF Small

LEMMA AddsExist ==
  ASSUME NEW g \in [Files -> Nat]
  PROVE  \A n \in Nat : \E h \in [Small(n) -> Nat] : Adds(g, Small(n), h)
  <1> DEFINE T == {n \in Nat : \E h \in [Small(n) -> Nat] : Adds(g, Small(n), h)}
  <1>1. 0 \in T
    <2> DEFINE h == [s \in Small(0) |-> 0]
    <2>1. ASSUME NEW s \in Small(0) PROVE s = {}
      <3>1. s \in SUBSET Files /\ Cardinality(s) = 0
        BY InSmall
      <3> QED
        BY <3>1, Counts
    <2>2. h \in [Small(0) -> Nat] /\ Adds(g, Small(0), h)
      BY <2>1 DEF Adds
    <2> QED
      BY <2>2
  <1>2. ASSUME NEW n \in Nat, n \in T PROVE n + 1 \in T
    <2>1. PICK h \in [Small(n) -> Nat] : Adds(g, Small(n), h)
      BY <1>2
    <2> DEFINE k == [s \in Small(n + 1) |-> IF s \in Small(n) THEN h[s]
                                           ELSE g[First(s)] + h[s \ {First(s)}]]
    <2>2. ASSUME NEW s \in Small(n + 1), s # {}
          PROVE  s \ {First(s)} \in Small(n) /\ s \ {First(s)} \in Small(n + 1) /\ First(s) \in Files
      <3>1. s \in SUBSET Files /\ Cardinality(s) \in Nat /\ Cardinality(s) <= n + 1
        BY InSmall
      <3>2. /\ First(s) \in Files /\ s \ {First(s)} \in SUBSET Files
            /\ Cardinality(s \ {First(s)}) = Cardinality(s) - 1
            /\ Cardinality(s \ {First(s)}) \in Nat
        BY <2>2, <3>1, Counts
      <3>3. Cardinality(s \ {First(s)}) <= n
        BY <3>1, <3>2
      <3> QED
        BY <3>2, <3>3, InSmall
    <2>3. ASSUME NEW s \in Small(n + 1), s \notin Small(n) PROVE s # {}
      <3>1. {} \in Small(n)
        BY FS_EmptySet, InSmall
      <3> QED
        BY <2>3, <3>1
    <2>4. k \in [Small(n + 1) -> Nat]
      BY <2>2, <2>3
    <2>5. \A s \in Small(n) : s \in Small(n + 1)
      BY InSmall
    <2>6. ASSUME NEW s \in Small(n + 1)
          PROVE  k[s] = IF s = {} THEN 0 ELSE g[First(s)] + k[s \ {First(s)}]
      <3>1. CASE s \in Small(n)
        <4>1. h[s] = IF s = {} THEN 0 ELSE g[First(s)] + h[s \ {First(s)}]
          BY <2>1, <3>1 DEF Adds
        <4> QED
          BY <2>2, <3>1, <4>1
      <3>2. CASE s \notin Small(n)
        BY <2>2, <2>3, <3>2
      <3> QED
        BY <3>1, <3>2
    <2> HIDE DEF k
    <2>7. Adds(g, Small(n + 1), k)
      BY <2>6 DEF Adds
    <2> QED
      BY <2>4, <2>7
  <1> HIDE DEF T
  <1>3. \A n \in Nat : n \in T
    BY <1>1, <1>2, Induction
  <1> QED
    BY <1>3 DEF T

LEMMA TotalAdds ==
  ASSUME NEW g \in [Files -> Nat]
  PROVE  \E h : AddsUp(g, h) /\ Total(g) = h[Files]
  <1> DEFINE Q(h) == h = [s \in SUBSET Files |->
                            IF s = {} THEN 0 ELSE g[First(s)] + h[s \ {First(s)}]]
             N == Cardinality(Files)
  <1>1. N \in Nat /\ Small(N) = SUBSET Files
    BY Counts DEF Small
  <1>2. PICK h \in [SUBSET Files -> Nat] : AddsUp(g, h)
    <2> HIDE DEF N
    <2>1. PICK h \in [Small(N) -> Nat] : Adds(g, Small(N), h)
      BY <1>1, AddsExist
    <2> QED
      BY <1>1, <2>1 DEF AddsUp, Adds
  <1>3. Q(h)
    BY <1>2 DEF AddsUp, Adds
  <1>4. Q(CHOOSE f : Q(f))
    BY <1>3
  <1>5. Total(g) = (CHOOSE f : Q(f))[Files]
    BY TotalIs
  <1> DEFINE c == CHOOSE f : Q(f)
  <1>6. AddsUp(g, c)
    <2> HIDE DEF c
    <2>1. Q(c)
      BY <1>4 DEF c
    <2> QED
      BY <2>1 DEF AddsUp, Adds
  <1> QED
    BY <1>5, <1>6

\* What is added up follows a change of one file's hold.
LEMMA AddsChange ==
  ASSUME NEW g \in [Files -> Nat], NEW c \in [Files -> Nat], NEW f \in Files,
         \A x \in Files : x # f => c[x] = g[x],
         NEW h, AddsUp(g, h), NEW k, AddsUp(c, k)
  PROVE  \A s \in SUBSET Files :
           /\ h[s] \in Nat /\ k[s] \in Nat
           /\ IF f \in s THEN k[s] + g[f] = h[s] + c[f] ELSE k[s] = h[s]
  <1> DEFINE P(s) == /\ h[s] \in Nat /\ k[s] \in Nat
                     /\ IF f \in s THEN k[s] + g[f] = h[s] + c[f] ELSE k[s] = h[s]
             T == {n \in Nat : \A s \in SUBSET Files : Cardinality(s) = n => P(s)}
  <1>1. 0 \in T
    <2>1. SUFFICES ASSUME NEW s \in SUBSET Files, Cardinality(s) = 0 PROVE P(s)
      OBVIOUS
    <2>2. s = {}
      BY <2>1, Counts
    <2>3. h[s] = 0 /\ k[s] = 0 /\ f \notin s
      BY <2>2 DEF AddsUp, Adds
    <2> QED
      BY <2>3
  <1>2. ASSUME NEW n \in Nat, n \in T PROVE n + 1 \in T
    <2>1. SUFFICES ASSUME NEW s \in SUBSET Files, Cardinality(s) = n + 1 PROVE P(s)
      OBVIOUS
    <2> DEFINE x == First(s)
               r == s \ {x}
    <2>2. s # {} /\ x \in s /\ r \in SUBSET Files /\ Cardinality(r) = n
      BY <2>1, Counts
    <2>3. P(r)
      BY <1>2, <2>2
    <2>4. h[s] = g[x] + h[r] /\ k[s] = c[x] + k[r]
      BY <2>2 DEF AddsUp, Adds
    <2>5. /\ g[x] \in Nat /\ g[f] \in Nat /\ c[x] \in Nat /\ c[f] \in Nat
          /\ x # f => c[x] = g[x]
      BY <2>2
    <2>6. f \in s <=> x = f \/ f \in r
      BY <2>2
    <2>7. x \notin r
      OBVIOUS
    <2> HIDE DEF x, r
    <2>8. CASE x = f
      BY <2>3, <2>4, <2>5, <2>6, <2>7, <2>8
    <2>9. CASE x # f
      BY <2>3, <2>4, <2>5, <2>6, <2>9
    <2> QED
      BY <2>8, <2>9
  <1> HIDE DEF T, P
  <1>3. \A n \in Nat : n \in T
    BY <1>1, <1>2, Induction
  <1>4. ASSUME NEW s \in SUBSET Files PROVE P(s)
    <2>1. Cardinality(s) \in Nat /\ Cardinality(s) \in T
      BY <1>3, Counts
    <2> QED
      BY <2>1 DEF T
  <1> QED
    BY <1>4 DEF P

LEMMA TotalChange ==
  ASSUME NEW g \in [Files -> Nat], NEW f \in Files, NEW v \in Nat
  PROVE  /\ Total(g) \in Nat /\ Total([g EXCEPT ![f] = v]) \in Nat
         /\ Total([g EXCEPT ![f] = v]) = Total(g) - g[f] + v
  <1> DEFINE c == [g EXCEPT ![f] = v]
  <1>1. c \in [Files -> Nat] /\ c[f] = v /\ \A x \in Files : x # f => c[x] = g[x]
    OBVIOUS
  <1> HIDE DEF c
  <1>2. PICK h : AddsUp(g, h) /\ Total(g) = h[Files]
    BY TotalAdds
  <1>3. PICK k : AddsUp(c, k) /\ Total(c) = k[Files]
    BY <1>1, TotalAdds
  <1>4. \A s \in SUBSET Files :
          /\ h[s] \in Nat /\ k[s] \in Nat
          /\ IF f \in s THEN k[s] + g[f] = h[s] + c[f] ELSE k[s] = h[s]
    BY <1>1, <1>2, <1>3, AddsChange
  <1>5. h[Files] \in Nat /\ k[Files] \in Nat /\ k[Files] + g[f] = h[Files] + v
    BY <1>1, <1>4
  <1>6. g[f] \in Nat
    OBVIOUS
  <1> QED
    BY <1>2, <1>3, <1>5, <1>6 DEF c

LEMMA TotalNone == Total([f \in Files |-> 0]) = 0
  <1> DEFINE g == [f \in Files |-> 0]
  <1>1. g \in [Files -> Nat]
    OBVIOUS
  <1>2. PICK h : AddsUp(g, h) /\ Total(g) = h[Files]
    BY <1>1, TotalAdds
  <1> DEFINE T == {n \in Nat : \A s \in SUBSET Files : Cardinality(s) = n => h[s] = 0}
  <1>3. 0 \in T
    <2>1. \A s \in SUBSET Files : Cardinality(s) = 0 => s = {}
      BY Counts
    <2>2. h[{}] = 0
      BY <1>2 DEF AddsUp, Adds
    <2> QED
      BY <2>1, <2>2
  <1>4. ASSUME NEW n \in Nat, n \in T PROVE n + 1 \in T
    <2>1. SUFFICES ASSUME NEW s \in SUBSET Files, Cardinality(s) = n + 1 PROVE h[s] = 0
      OBVIOUS
    <2>2. /\ s # {} /\ First(s) \in Files /\ s \ {First(s)} \in SUBSET Files
          /\ Cardinality(s \ {First(s)}) = n
      BY <2>1, Counts
    <2>3. h[s] = g[First(s)] + h[s \ {First(s)}]
      BY <1>2, <2>2 DEF AddsUp, Adds
    <2> QED
      BY <1>4, <2>2, <2>3
  <1> HIDE DEF T, g
  <1>5. \A n \in Nat : n \in T
    BY <1>3, <1>4, Induction
  <1>6. Cardinality(Files) \in T
    BY <1>5, Counts
  <1> QED
    BY <1>2, <1>6 DEF T, g

LEMMA TotalIsNat == ASSUME NEW g \in [Files -> Nat] PROVE Total(g) \in Nat
  <1>1. CASE Files = {}
    <2>1. g = [f \in Files |-> 0]
      BY <1>1
    <2> QED
      BY <2>1, TotalNone
  <1>2. CASE Files # {}
    <2>1. PICK f : f \in Files
      BY <1>2
    <2> QED
      BY <2>1, TotalChange
  <1> QED
    BY <1>1, <1>2

-----------------------------------------------------------------------------
(* No unit is lost *)

\* The files of a queue wait, each once.
Lined(q, p, s) ==
  /\ \A i \in 1..Len(q) : p[q[i].file] = s
  /\ \A i, j \in 1..Len(q) : q[i].file = q[j].file => i = j

\* Who waits, or has ended, holds nothing; what the finally clause will release
\* is what is held.
Balanced(p, out, in) ==
  \A f \in Files :
    /\ p[f] \in {"new", "waiting", "upgrading", "done"} => in[f] = 0
    /\ p[f] \in {"holding", "ending"} => in[f] = out[f]

Kept == /\ Lined(upgraders, pc, "upgrading") /\ Lined(waiters, pc, "waiting")
        /\ Balanced(pc, outer, inner) /\ UnitsConserved

\* As many units as there should be.
Even(u, lo, ex) == u + lo >= Capacity /\ u <= Capacity + ex

LEMMA ConservedNow == UnitsConserved <=> Even(available + Total(inner), lost, extra)
  BY DEF UnitsConserved, Total, Even

LEMMA Conserved ==
  /\ UnitsConserved <=> Even(available + Total(inner), lost, extra)
  /\ UnitsConserved' <=> Even(available' + Total(inner'), lost', extra')
  <1>1. UnitsConserved' <=> Even(available + Total(inner), lost, extra)'
    BY ConservedNow, PTL
  <1>2. Even(available + Total(inner), lost, extra)'
          <=> Even(available' + Total(inner'), lost', extra')
    OBVIOUS
  <1> QED
    BY <1>1, <1>2, ConservedNow

LEMMA HoldIsNat == ASSUME NEW g \in [Files -> 0..Capacity] PROVE g \in [Files -> Nat]
  BY BudgetAssumption

\* Granting adds the weight of what is granted.
LEMMA GivenAdds ==
  ASSUME NEW g \in [Files -> 0..Capacity], NEW q \in Seq(Entries), NEW k \in 0..Len(q),
         \A i, j \in 1..Len(q) : q[i].file = q[j].file => i = j,
         \A i \in 1..Len(q) : g[q[i].file] = 0
  PROVE  Total(Given(g, q, k)) = Total(g) + Weight(q, k)
  <1> DEFINE T == {n \in Nat : n <= Len(q) => Total(Given(g, q, n)) = Total(g) + Weight(q, n)}
  <1>1. /\ Len(q) \in Nat
        /\ \A i \in 1..Len(q) : q[i].file \in Files /\ q[i].weight \in Nat
    BY Queued
  <1>2. /\ Weight(q, 0) = 0
        /\ \A n \in 0..Len(q) : Weight(q, n) \in Nat
        /\ \A n \in 0..Len(q) : n < Len(q) => Weight(q, n + 1) = Weight(q, n) + q[n + 1].weight
    BY <1>1, WeightSums
  <1>3. g \in [Files -> Nat]
    BY HoldIsNat
  <1>4. Total(g) \in Nat
    BY <1>3, TotalIsNat
  <1>5. 0 \in T
    <2>1. FilesOf(q, 0) = {}
      BY DEF FilesOf
    <2>2. Given(g, q, 0) = g
      BY <2>1 DEF Given
    <2> QED
      BY <1>2, <1>4, <2>2
  <1>6. ASSUME NEW n \in Nat, n \in T PROVE n + 1 \in T
    <2>1. SUFFICES ASSUME n + 1 <= Len(q)
                   PROVE  Total(Given(g, q, n + 1)) = Total(g) + Weight(q, n + 1)
      OBVIOUS
    <2> DEFINE a == Given(g, q, n)
               f == q[n + 1].file
               w == q[n + 1].weight
    <2>2. n + 1 \in 1..Len(q) /\ n \in 0..Len(q) /\ n < Len(q)
      BY <1>1, <2>1
    <2>3. f \in Files /\ w \in Nat
      BY <1>1, <2>2
    <2>4. a \in [Files -> Nat]
      BY <2>2, GivenTypes, HoldIsNat
    <2>5. f \notin FilesOf(q, n)
      BY <2>2 DEF FilesOf
    <2>6. a[f] = 0
      BY <2>2, <2>3, <2>5 DEF Given
    <2>7. Given(g, q, n + 1) = [a EXCEPT ![f] = w]
      <3>1. ASSUME NEW x \in Files PROVE Given(g, q, n + 1)[x] = IF x = f THEN w ELSE a[x]
        <4>1. CASE x = f
          <5>1. \A i \in 1..n + 1 : q[i].file = x <=> i = n + 1
            BY <2>2, <4>1
          <5>2. n + 1 \in 1..n + 1 /\ x \in FilesOf(q, n + 1)
            BY <4>1 DEF FilesOf
          <5>3. (CHOOSE i \in 1..n + 1 : q[i].file = x) = n + 1
            BY <5>1, <5>2
          <5> QED
            BY <4>1, <5>2, <5>3 DEF Given
        <4>2. CASE x # f /\ x \in FilesOf(q, n)
          <5>1. PICK i \in 1..n : q[i].file = x
            BY <4>2 DEF FilesOf
          <5>2. i \in 1..n + 1 /\ \A j \in 1..n + 1 : q[j].file = x <=> j = i
            BY <2>2, <5>1
          <5>3. \A j \in 1..n : q[j].file = x <=> j = i
            BY <5>2
          <5>4. (CHOOSE j \in 1..n + 1 : q[j].file = x) = i
            BY <5>2
          <5>5. (CHOOSE j \in 1..n : q[j].file = x) = i
            BY <5>1, <5>3
          <5>6. x \in FilesOf(q, n + 1)
            BY <5>1, <5>2 DEF FilesOf
          <5>7. Given(g, q, n + 1)[x] = q[i].weight
            BY <5>4, <5>6 DEF Given
          <5>8. Given(g, q, n)[x] = q[i].weight
            BY <4>2, <5>5 DEF Given
          <5> QED
            BY <4>2, <5>7, <5>8
        <4>3. CASE x # f /\ x \notin FilesOf(q, n)
          <5>1. x \notin FilesOf(q, n + 1)
            BY <4>3 DEF FilesOf
          <5> QED
            BY <4>3, <5>1 DEF Given
        <4> QED
          BY <4>1, <4>2, <4>3
      <3>2. Given(g, q, n + 1) = [x \in Files |-> Given(g, q, n + 1)[x]]
        BY DEF Given
      <3> HIDE DEF a, f, w
      <3> QED
        BY <2>4, <3>1, <3>2
    <2>8. Total(a) = Total(g) + Weight(q, n)
      BY <1>6, <2>2
    <2> HIDE DEF a, f, w
    <2>9. Total([a EXCEPT ![f] = w]) = Total(a) - a[f] + w
      BY <2>3, <2>4, TotalChange
    <2>10. Weight(q, n + 1) = Weight(q, n) + w /\ Weight(q, n) \in Nat
      BY <1>2, <2>2 DEF w
    <2> QED
      BY <1>4, <2>3, <2>6, <2>7, <2>8, <2>9, <2>10
  <1> HIDE DEF T
  <1>7. \A n \in Nat : n \in T
    BY <1>5, <1>6, Induction
  <1>8. k \in Nat /\ k <= Len(q) /\ k \in T
    BY <1>1, <1>7
  <1> QED
    BY <1>8 DEF T

\* A pass conserves the units, and leaves the queues without what it granted.
LEMMA PassConserves ==
  ASSUME NEW av \in Nat, NEW up \in Seq(Entries), NEW wa \in Seq(Entries), NEW p, NEW out,
         NEW in \in [Files -> 0..Capacity], WakeWaiters(av, up, wa, p, out, in),
         Lined(up, p, "upgrading"), Lined(wa, p, "waiting"), Balanced(p, out, in),
         Even(av + Total(in), lost', extra')
  PROVE  Kept'
  <1> DEFINE ku == Served(up, av)
             kw == Firsts(av, up, wa)
             U == FilesOf(up, ku)
             W == FilesOf(wa, kw)
             mid == Given(in, wa, kw)
  <1>1. /\ available' = av - Weight(up, ku) - Weight(wa, kw)
        /\ upgraders' = SubSeq(up, ku + 1, Len(up))
        /\ waiters' = SubSeq(wa, kw + 1, Len(wa))
        /\ pc' = [f \in Files |-> IF f \in U THEN "sized" ELSE IF f \in W THEN "holding" ELSE p[f]]
        /\ inner' = Given(mid, up, ku)
        /\ outer' = [f \in Files |-> IF f \in W THEN inner'[f] ELSE out[f]]
    BY Pass
  <1>2. ku \in 0..Len(up) /\ kw \in 0..Len(wa) /\ Weight(up, ku) \in Nat /\ Weight(wa, kw) \in Nat
    BY PassFits
  <1> HIDE DEF ku, kw
  <1>3. /\ Len(up) \in Nat /\ Len(wa) \in Nat
        /\ \A i \in 1..Len(up) : up[i].file \in Files
        /\ \A i \in 1..Len(wa) : wa[i].file \in Files
    BY Queued
  <1>13. /\ \A i \in 1..Len(up) : p[up[i].file] = "upgrading"
         /\ \A i, j \in 1..Len(up) : up[i].file = up[j].file => i = j
         /\ \A i \in 1..Len(wa) : p[wa[i].file] = "waiting"
         /\ \A i, j \in 1..Len(wa) : wa[i].file = wa[j].file => i = j
    BY DEF Lined
  <1>14. \A f \in Files : p[f] \in {"waiting", "upgrading"} => in[f] = 0
    BY DEF Balanced
  <1>4. /\ \A f \in U : f \in Files /\ p[f] = "upgrading" /\ in[f] = 0
        /\ \A f \in W : f \in Files /\ p[f] = "waiting" /\ in[f] = 0
    <2>1. ASSUME NEW f \in U PROVE f \in Files /\ p[f] = "upgrading" /\ in[f] = 0
      <3>1. PICK i \in 1..ku : up[i].file = f
        BY <2>1 DEF FilesOf
      <3>2. i \in 1..Len(up)
        BY <1>2, <1>3
      <3> QED
        BY <1>3, <1>13, <1>14, <3>1, <3>2
    <2>2. ASSUME NEW f \in W PROVE f \in Files /\ p[f] = "waiting" /\ in[f] = 0
      <3>1. PICK i \in 1..kw : wa[i].file = f
        BY <2>2 DEF FilesOf
      <3>2. i \in 1..Len(wa)
        BY <1>2, <1>3
      <3> QED
        BY <1>3, <1>13, <1>14, <3>1, <3>2
    <2> QED
      BY <2>1, <2>2
  <1>5. /\ \A i \in ku + 1..Len(up) : up[i].file \notin U /\ up[i].file \notin W
        /\ \A i \in kw + 1..Len(wa) : wa[i].file \notin U /\ wa[i].file \notin W
    <2>1. ASSUME NEW i \in ku + 1..Len(up) PROVE up[i].file \notin U /\ p[up[i].file] = "upgrading"
      <3>1. i \in 1..Len(up) /\ i \notin 1..ku /\ \A j \in 1..ku : j \in 1..Len(up)
        BY <1>2, <1>3
      <3> QED
        BY <1>13, <3>1 DEF FilesOf
    <2>2. ASSUME NEW i \in kw + 1..Len(wa) PROVE wa[i].file \notin W /\ p[wa[i].file] = "waiting"
      <3>1. i \in 1..Len(wa) /\ i \notin 1..kw /\ \A j \in 1..kw : j \in 1..Len(wa)
        BY <1>2, <1>3
      <3> QED
        BY <1>13, <3>1 DEF FilesOf
    <2> HIDE DEF U, W
    <2> QED
      BY <1>4, <2>1, <2>2
  <1>6. Lined(upgraders', pc', "upgrading")
    <2>1. Len(upgraders') = Len(up) - ku /\ \A i \in 1..Len(upgraders') : upgraders'[i] = up[ku + i]
      BY <1>1, <1>2, Left
    <2>2. \A i \in 1..Len(upgraders') : ku + i \in ku + 1..Len(up) /\ ku + i \in 1..Len(up)
      BY <1>2, <1>3, <2>1
    <2>3. ASSUME NEW i \in 1..Len(upgraders') PROVE pc'[upgraders'[i].file] = "upgrading"
      <3> DEFINE f == up[ku + i].file
      <3>1. upgraders'[i].file = f /\ f \in Files /\ f \notin U /\ f \notin W /\ p[f] = "upgrading"
        BY <1>3, <1>5, <1>13, <2>1, <2>2
      <3> HIDE DEF U, W, f
      <3> QED
        BY <1>1, <3>1
    <2>4. ASSUME NEW i \in 1..Len(upgraders'), NEW j \in 1..Len(upgraders'),
                 upgraders'[i].file = upgraders'[j].file
          PROVE  i = j
      <3>1. ku + i \in 1..Len(up) /\ ku + j \in 1..Len(up)
        BY <2>2
      <3>2. up[ku + i].file = up[ku + j].file
        BY <2>1, <2>4
      <3>3. ku + i = ku + j
        BY <1>13, <3>1, <3>2
      <3> QED
        BY <1>2, <1>3, <2>1, <3>3
    <2> QED
      BY <2>3, <2>4 DEF Lined
  <1>7. Lined(waiters', pc', "waiting")
    <2>1. Len(waiters') = Len(wa) - kw /\ \A i \in 1..Len(waiters') : waiters'[i] = wa[kw + i]
      BY <1>1, <1>2, Left
    <2>2. \A i \in 1..Len(waiters') : kw + i \in kw + 1..Len(wa) /\ kw + i \in 1..Len(wa)
      BY <1>2, <1>3, <2>1
    <2>3. ASSUME NEW i \in 1..Len(waiters') PROVE pc'[waiters'[i].file] = "waiting"
      <3> DEFINE f == wa[kw + i].file
      <3>1. waiters'[i].file = f /\ f \in Files /\ f \notin U /\ f \notin W /\ p[f] = "waiting"
        BY <1>3, <1>5, <1>13, <2>1, <2>2
      <3> HIDE DEF U, W, f
      <3> QED
        BY <1>1, <3>1
    <2>4. ASSUME NEW i \in 1..Len(waiters'), NEW j \in 1..Len(waiters'),
                 waiters'[i].file = waiters'[j].file
          PROVE  i = j
      <3>1. kw + i \in 1..Len(wa) /\ kw + j \in 1..Len(wa)
        BY <2>2
      <3>2. wa[kw + i].file = wa[kw + j].file
        BY <2>1, <2>4
      <3>3. kw + i = kw + j
        BY <1>13, <3>1, <3>2
      <3> QED
        BY <1>2, <1>3, <2>1, <3>3
    <2> QED
      BY <2>3, <2>4 DEF Lined
  <1>8. mid \in [Files -> 0..Capacity] /\ \A f \in Files : f \notin W => mid[f] = in[f]
    <2>1. mid \in [Files -> 0..Capacity]
      BY <1>2, GivenTypes
    <2>2. \A f \in Files : f \notin W => mid[f] = in[f]
      BY DEF Given
    <2> QED
      BY <2>1, <2>2
  <1>9. Total(mid) = Total(in) + Weight(wa, kw)
    <2>1. \A i \in 1..Len(wa) : in[wa[i].file] = 0
      BY <1>3, <1>13, <1>14
    <2> QED
      BY <1>2, <1>13, <2>1, GivenAdds
  <1>10. Total(inner') = Total(mid) + Weight(up, ku)
    <2>1. ASSUME NEW i \in 1..Len(up) PROVE mid[up[i].file] = 0
      <3>1. up[i].file \in Files /\ p[up[i].file] = "upgrading" /\ in[up[i].file] = 0
        BY <1>3, <1>13, <1>14
      <3>2. up[i].file \notin W
        BY <1>4, <3>1
      <3> QED
        BY <1>8, <3>1, <3>2
    <2> HIDE DEF mid
    <2> QED
      BY <1>1, <1>2, <1>8, <1>13, <2>1, GivenAdds
  <1>11. Balanced(pc', outer', inner')
    <2>1. \A f \in Files : f \notin U => inner'[f] = mid[f]
      BY <1>1 DEF Given
    <2> HIDE DEF U, W, mid
    <2>2. ASSUME NEW f \in Files
          PROVE  /\ pc'[f] \in {"new", "waiting", "upgrading", "done"} => inner'[f] = 0
                 /\ pc'[f] \in {"holding", "ending"} => inner'[f] = outer'[f]
      <3>1. /\ p[f] \in {"new", "waiting", "upgrading", "done"} => in[f] = 0
            /\ p[f] \in {"holding", "ending"} => in[f] = out[f]
        BY DEF Balanced
      <3>2. CASE f \in U
        BY <1>1, <3>2
      <3>3. CASE f \notin U /\ f \in W
        BY <1>1, <3>3
      <3>4. CASE f \notin U /\ f \notin W
        BY <1>1, <1>8, <2>1, <3>1, <3>4
      <3> QED
        BY <3>2, <3>3, <3>4
    <2> QED
      BY <2>2 DEF Balanced
  <1>12. UnitsConserved'
    <2>1. available' + Total(inner') = av + Total(in)
      <3>1. Total(in) \in Nat
        BY HoldIsNat, TotalIsNat
      <3> HIDE DEF mid
      <3> QED
        BY <1>1, <1>2, <1>9, <1>10, <3>1
    <2> QED
      BY <2>1, Conserved
  <1> QED
    BY <1>6, <1>7, <1>11, <1>12 DEF Kept

\* What a release gives back is not held any more; where the cap bites, units
\* had been made up.
LEMMA ReleaseConserves ==
  ASSUME TypeOK, NEW weight \in Nat, NEW up \in Seq(Entries), NEW p, NEW out,
         NEW in \in [Files -> 0..Capacity], Release(weight, up, p, out, in),
         Lined(up, p, "upgrading"), Lined(waiters, p, "waiting"), Balanced(p, out, in),
         UNCHANGED <<lost, extra>>, Even(available + weight + Total(in), lost, extra)
  PROVE  Kept'
  <1> DEFINE sum == available + weight
             av == IF sum > Capacity THEN Capacity ELSE sum
  <1>1. Total(in) \in Nat /\ available \in Nat /\ Capacity \in Nat /\ lost \in Nat /\ extra \in Nat
    BY HoldIsNat, TotalIsNat, BudgetAssumption DEF TypeOK
  <1>2. av \in Nat /\ (av = sum \/ (av = Capacity /\ sum > Capacity)) /\ sum \in Nat
    BY <1>1
  <1>3. WakeWaiters(av, up, waiters, p, out, in)
    BY DEF Release
  <1>4. waiters \in Seq(Entries)
    BY DEF TypeOK
  <1> HIDE DEF av
  <1>5. Even(av + Total(in), lost', extra')
    BY <1>1, <1>2 DEF Even
  <1> QED
    BY <1>2, <1>3, <1>4, <1>5, PassConserves

\* A file that is not in a queue may move on; a file may join the queue.
LEMMA LinedMove ==
  ASSUME TypeOK, NEW q \in Seq(Entries), NEW s, Lined(q, pc, s), NEW f \in Files, NEW to,
         pc[f] # s
  PROVE  Lined(q, [pc EXCEPT ![f] = to], s)
  <1>1. ASSUME NEW i \in 1..Len(q) PROVE [pc EXCEPT ![f] = to][q[i].file] = s
    <2>1. q[i].file \in Files /\ pc[q[i].file] = s
      BY Queued DEF Lined
    <2> QED
      BY <2>1 DEF TypeOK
  <1> QED
    BY <1>1 DEF Lined

LEMMA LinedAppend ==
  ASSUME TypeOK, NEW q \in Seq(Entries), NEW s, Lined(q, pc, s), NEW f \in Files,
         NEW rec \in Entries, rec.file = f, pc[f] # s
  PROVE  Lined(Append(q, rec), [pc EXCEPT ![f] = s], s)
  <1> DEFINE r == Append(q, rec)
  <1>1. /\ Len(q) \in Nat /\ Len(r) = Len(q) + 1 /\ r[Len(q) + 1] = rec
        /\ \A i \in 1..Len(q) : r[i] = q[i]
    BY AppendProperties
  <1>2. \A i \in 1..Len(q) : q[i].file \in Files /\ pc[q[i].file] = s
    BY Queued DEF Lined
  <1> HIDE DEF r
  <1>3. ASSUME NEW i \in 1..Len(r)
        PROVE  \/ i = Len(q) + 1 /\ r[i].file = f
               \/ i \in 1..Len(q) /\ r[i] = q[i] /\ r[i].file # f
    BY <1>1, <1>2
  <1>4. ASSUME NEW i \in 1..Len(r) PROVE [pc EXCEPT ![f] = s][r[i].file] = s
    <2>1. r[i].file \in Files /\ (r[i].file = f \/ pc[r[i].file] = s)
      BY <1>2, <1>3
    <2> QED
      BY <2>1 DEF TypeOK
  <1>5. ASSUME NEW i \in 1..Len(r), NEW j \in 1..Len(r), r[i].file = r[j].file PROVE i = j
    <2>1. CASE r[i].file = f
      BY <1>3, <1>5, <2>1
    <2>2. CASE r[i].file # f
      <3>1. i \in 1..Len(q) /\ j \in 1..Len(q) /\ q[i].file = q[j].file
        BY <1>3, <1>5, <2>2
      <3> QED
        BY <3>1 DEF Lined
    <2> QED
      BY <2>1, <2>2
  <1> QED
    BY <1>4, <1>5 DEF Lined, r

LEMMA Rebalanced ==
  ASSUME TypeOK, Balanced(pc, outer, inner), NEW f \in Files, NEW to, NEW o, NEW i,
         to \in {"new", "waiting", "upgrading", "done"} => i = 0,
         to \in {"holding", "ending"} => i = o
  PROVE  Balanced([pc EXCEPT ![f] = to], [outer EXCEPT ![f] = o], [inner EXCEPT ![f] = i])
  <1> DEFINE p == [pc EXCEPT ![f] = to]
             out == [outer EXCEPT ![f] = o]
             in == [inner EXCEPT ![f] = i]
  <1>1. /\ p[f] = to /\ out[f] = o /\ in[f] = i
        /\ \A x \in Files : x # f => p[x] = pc[x] /\ out[x] = outer[x] /\ in[x] = inner[x]
    BY DEF TypeOK
  <1> HIDE DEF p, out, in
  <1>2. ASSUME NEW x \in Files
        PROVE  /\ p[x] \in {"new", "waiting", "upgrading", "done"} => in[x] = 0
               /\ p[x] \in {"holding", "ending"} => in[x] = out[x]
    <2>1. CASE x = f
      BY <1>1, <2>1
    <2>2. CASE x # f
      <3>1. /\ pc[x] \in {"new", "waiting", "upgrading", "done"} => inner[x] = 0
            /\ pc[x] \in {"holding", "ending"} => inner[x] = outer[x]
        BY DEF Balanced
      <3> QED
        BY <1>1, <2>2, <3>1
    <2> QED
      BY <2>1, <2>2
  <1> QED
    BY <1>2 DEF Balanced, p, out, in

\* What a step leaves alone stays kept.
LEMMA QuietKept ==
  ASSUME TypeOK, Kept, NEW f \in Files, NEW to, NEW o, pc' = [pc EXCEPT ![f] = to],
         outer' = [outer EXCEPT ![f] = o], pc[f] \notin {"waiting", "upgrading"},
         UNCHANGED <<available, upgraders, waiters, inner, lost, extra>>,
         to \in {"new", "waiting", "upgrading", "done"} => inner[f] = 0,
         to \in {"holding", "ending"} => inner[f] = o
  PROVE  Kept'
  <1>1. upgraders \in Seq(Entries) /\ waiters \in Seq(Entries) /\ inner = [inner EXCEPT ![f] = inner[f]]
    BY DEF TypeOK
  <1>2. Balanced(pc', outer', [inner EXCEPT ![f] = inner[f]])
    BY Rebalanced DEF Kept
  <1>3. Balanced(pc', outer', inner')
    BY <1>1, <1>2
  <1>4. Lined(upgraders', pc', "upgrading") /\ Lined(waiters', pc', "waiting")
    BY <1>1, LinedMove DEF Kept
  <1>5. UnitsConserved'
    BY Conserved DEF Kept
  <1> QED
    BY <1>3, <1>4, <1>5 DEF Kept

LEMMA AcquireConserves ==
  ASSUME TypeOK, Kept, NEW f \in Files, Acquire(f) PROVE Kept'
  <1> DEFINE w == Effective(Floor)
             rec == [file |-> f, weight |-> w]
  <1>1. w \in 1..Capacity /\ w \in Nat /\ rec \in Entries /\ rec.file = f
    BY EffectiveType, BudgetAssumption DEF Entries
  <1>2. pc[f] = "new" /\ inner[f] = 0 /\ upgraders' = upgraders
    BY DEF Acquire, Kept, Balanced
  <1>3. upgraders \in Seq(Entries) /\ waiters \in Seq(Entries) /\ available \in Nat
    BY BudgetAssumption DEF TypeOK
  <1>4. inner \in [Files -> Nat]
    BY HoldIsNat DEF TypeOK
  <1>5. Total(inner) \in Nat
    BY <1>4, TotalIsNat
  <1>6. Even(available + Total(inner), lost, extra) /\ UNCHANGED <<lost, extra>>
    BY Conserved DEF Kept, Acquire
  <1>7. CASE upgraders = <<>> /\ waiters = <<>> /\ available >= w
    <2>1. /\ available' = available - w /\ pc' = [pc EXCEPT ![f] = "holding"]
          /\ outer' = [outer EXCEPT ![f] = w] /\ inner' = [inner EXCEPT ![f] = w]
          /\ waiters' = waiters
      BY <1>7 DEF Acquire
    <2> HIDE DEF w, rec
    <2>2. Total([inner EXCEPT ![f] = w]) = Total(inner) - inner[f] + w
      BY <1>1, <1>4, TotalChange
    <2>3. available' + Total(inner') = available + Total(inner)
      BY <1>1, <1>2, <1>3, <1>5, <2>1, <2>2
    <2>6. Even(available' + Total(inner'), lost', extra')
      BY <1>6, <2>3
    <2>4. Balanced(pc', outer', inner')
      BY <2>1, Rebalanced DEF Kept
    <2>5. Lined(upgraders', pc', "upgrading") /\ Lined(waiters', pc', "waiting")
      BY <1>2, <1>3, <2>1, LinedMove DEF Kept
    <2> QED
      BY <2>4, <2>5, <2>6, Conserved DEF Kept
  <1>8. CASE ~(upgraders = <<>> /\ waiters = <<>> /\ available >= w)
    <2>1. /\ waiters' = Append(waiters, rec) /\ pc' = [pc EXCEPT ![f] = "waiting"]
          /\ UNCHANGED <<available, outer, inner>>
      BY <1>8 DEF Acquire
    <2> HIDE DEF w, rec
    <2>2. inner = [inner EXCEPT ![f] = 0] /\ outer = [outer EXCEPT ![f] = outer[f]]
      BY <1>2 DEF TypeOK
    <2>3. Balanced(pc', [outer EXCEPT ![f] = outer[f]], [inner EXCEPT ![f] = 0])
      BY <2>1, Rebalanced DEF Kept
    <2>4. Balanced(pc', outer', inner')
      BY <2>1, <2>2, <2>3
    <2>5. Lined(upgraders', pc', "upgrading")
      BY <1>2, <1>3, <2>1, LinedMove DEF Kept
    <2>6. Lined(waiters', pc', "waiting")
      BY <1>1, <1>2, <1>3, <2>1, LinedAppend DEF Kept
    <2>7. UnitsConserved'
      BY <1>6, <2>1, Conserved
    <2> QED
      BY <2>4, <2>5, <2>6, <2>7 DEF Kept
  <1> QED
    BY <1>7, <1>8

\* A file that is in no queue gives back part of what it holds, or all of it.
LEMMA GivesBack ==
  ASSUME TypeOK, Kept, NEW f \in Files, NEW to, NEW v \in 0..Capacity, NEW o, v <= inner[f],
         Release(inner[f] - v, upgraders, [pc EXCEPT ![f] = to], [outer EXCEPT ![f] = o],
                 [inner EXCEPT ![f] = v]),
         pc[f] \notin {"waiting", "upgrading"}, UNCHANGED <<lost, extra>>,
         to \in {"new", "waiting", "upgrading", "done"} => v = 0,
         to \in {"holding", "ending"} => v = o
  PROVE  Kept'
  <1> DEFINE p == [pc EXCEPT ![f] = to]
             out == [outer EXCEPT ![f] = o]
             in == [inner EXCEPT ![f] = v]
             back == inner[f] - v
  <1>1. /\ upgraders \in Seq(Entries) /\ waiters \in Seq(Entries) /\ available \in Nat
        /\ in \in [Files -> 0..Capacity] /\ inner[f] \in Nat /\ v \in Nat
    BY BudgetAssumption DEF TypeOK
  <1>2. inner \in [Files -> Nat]
    BY HoldIsNat DEF TypeOK
  <1>3. Total(inner) \in Nat /\ Total(in) = Total(inner) - inner[f] + v /\ Total(in) \in Nat
    BY <1>1, <1>2, TotalChange, TotalIsNat
  <1>4. Even(available + Total(inner), lost, extra)
    BY Conserved DEF Kept
  <1>5. Lined(upgraders, p, "upgrading") /\ Lined(waiters, p, "waiting")
    BY <1>1, LinedMove DEF Kept
  <1>6. Balanced(p, out, in)
    BY Rebalanced DEF Kept
  <1>7. Release(back, upgraders, p, out, in)
    OBVIOUS
  <1> HIDE DEF p, out, in
  <1>8. back \in Nat /\ available + back + Total(in) = available + Total(inner)
    <2> DEFINE t == Total(in)
               u == Total(inner)
               i == inner[f]
    <2>1. /\ t \in Nat /\ u \in Nat /\ i \in Nat /\ v \in Nat /\ available \in Nat
          /\ t = u - i + v /\ v <= i /\ back = i - v
      BY <1>1, <1>3
    <2> HIDE DEF t, u, i, back
    <2>2. back \in Nat /\ available + back + t = available + u
      BY <2>1
    <2> QED
      BY <2>2 DEF t, u
  <1> HIDE DEF back
  <1>9. Even(available + back + Total(in), lost, extra)
    BY <1>4, <1>8
  <1> QED
    BY <1>1, <1>5, <1>6, <1>7, <1>8, <1>9, ReleaseConserves

LEMMA BeginExtractConserves ==
  ASSUME TypeOK, Kept, NEW f \in Files, BeginExtract(f) PROVE Kept'
  <1> DEFINE w == Effective(prev[f])
  <1>9. prev[f] \in Nat /\ inner[f] \in 0..Capacity
    BY BudgetAssumption DEF TypeOK
  <1>1. w \in 1..Capacity /\ w \in 0..Capacity /\ w \in Nat /\ inner[f] \in Nat
    BY <1>9, EffectiveType, BudgetAssumption
  <1>2. pc[f] = "holding" /\ outer = [outer EXCEPT ![f] = outer[f]] /\ UNCHANGED <<lost, extra>>
    BY DEF BeginExtract, TypeOK
  <1>3. CASE prev[f] > 0 /\ w < inner[f]
    <2>1. Release(inner[f] - w, upgraders, [pc EXCEPT ![f] = "extracting"], outer,
                  [inner EXCEPT ![f] = w])
      BY <1>3 DEF BeginExtract
    <2>2. w <= inner[f]
      BY <1>1, <1>3
    <2> HIDE DEF w
    <2>3. Release(inner[f] - w, upgraders, [pc EXCEPT ![f] = "extracting"],
                  [outer EXCEPT ![f] = outer[f]], [inner EXCEPT ![f] = w])
      BY <1>2, <2>1
    <2>4. /\ w \in 0..Capacity /\ pc[f] \notin {"waiting", "upgrading"}
          /\ "extracting" \notin {"new", "waiting", "upgrading", "done"}
          /\ "extracting" \notin {"holding", "ending"}
      BY <1>1, <1>2
    <2> QED
      BY <1>2, <2>2, <2>3, <2>4, GivesBack
  <1>4. CASE ~(prev[f] > 0 /\ w < inner[f])
    <2>1. /\ pc' = [pc EXCEPT ![f] = "extracting"] /\ outer' = [outer EXCEPT ![f] = outer[f]]
          /\ UNCHANGED <<available, upgraders, waiters, inner>>
      BY <1>2, <1>4 DEF BeginExtract
    <2> QED
      BY <1>2, <2>1, QuietKept
  <1> QED
    BY <1>3, <1>4

LEMMA UpgradeConserves ==
  ASSUME TypeOK, Kept, NEW f \in Files, Upgrade(f) PROVE Kept'
  <1> DEFINE w == Effective(pages[f])
             rec == [file |-> f, weight |-> w]
  <1>9. pages[f] \in Nat /\ inner[f] \in 0..Capacity
    BY BudgetAssumption DEF TypeOK
  <1>1. /\ w \in 1..Capacity /\ w \in 0..Capacity /\ w \in Nat /\ inner[f] \in Nat
        /\ rec \in Entries /\ rec.file = f
    BY <1>9, EffectiveType, BudgetAssumption DEF Entries
  <1>2. pc[f] = "extracting" /\ outer = [outer EXCEPT ![f] = outer[f]] /\ UNCHANGED <<lost, extra>>
    BY DEF Upgrade, TypeOK
  <1>3. CASE w < inner[f]
    <2>1. Release(inner[f] - w, upgraders, [pc EXCEPT ![f] = "sized"], outer,
                  [inner EXCEPT ![f] = w])
      BY <1>1, <1>3 DEF Upgrade
    <2>2. w <= inner[f]
      BY <1>1, <1>3
    <2> HIDE DEF w
    <2>3. Release(inner[f] - w, upgraders, [pc EXCEPT ![f] = "sized"],
                  [outer EXCEPT ![f] = outer[f]], [inner EXCEPT ![f] = w])
      BY <1>2, <2>1
    <2>4. /\ w \in 0..Capacity /\ pc[f] \notin {"waiting", "upgrading"}
          /\ "sized" \notin {"new", "waiting", "upgrading", "done"}
          /\ "sized" \notin {"holding", "ending"}
      BY <1>1, <1>2
    <2> QED
      BY <1>2, <2>2, <2>3, <2>4, GivesBack
  <1>4. CASE w = inner[f]
    <2>1. /\ pc' = [pc EXCEPT ![f] = "sized"] /\ outer' = [outer EXCEPT ![f] = outer[f]]
          /\ UNCHANGED <<available, upgraders, waiters, inner>>
      BY <1>1, <1>2, <1>4 DEF Upgrade
    <2> QED
      BY <1>2, <2>1, QuietKept
  <1>5. CASE w > inner[f]
    <2> DEFINE up == Append(upgraders, rec)
               p == [pc EXCEPT ![f] = "upgrading"]
               in == [inner EXCEPT ![f] = 0]
    <2>1. Release(inner[f], up, p, outer, in)
      BY <1>1, <1>5 DEF Upgrade
    <2>2. /\ upgraders \in Seq(Entries) /\ waiters \in Seq(Entries) /\ available \in Nat
          /\ in \in [Files -> 0..Capacity]
      BY BudgetAssumption DEF TypeOK
    <2> HIDE DEF w, rec
    <2>3. up \in Seq(Entries)
      BY <1>1, <2>2, AppendProperties
    <2>4. inner \in [Files -> Nat] /\ 0 \in Nat
      BY HoldIsNat DEF TypeOK
    <2>5. Total(inner) \in Nat /\ Total(in) = Total(inner) - inner[f] + 0 /\ Total(in) \in Nat
      BY <2>4, TotalChange
    <2>6. Even(available + Total(inner), lost, extra)
      BY Conserved DEF Kept
    <2>7. Lined(up, p, "upgrading")
      BY <1>1, <1>2, <2>2, LinedAppend DEF Kept
    <2>8. Lined(waiters, p, "waiting")
      BY <1>2, <2>2, LinedMove DEF Kept
    <2>9. Balanced(p, [outer EXCEPT ![f] = outer[f]], in)
      BY Rebalanced DEF Kept
    <2>10. Balanced(p, outer, in)
      BY <1>2, <2>9
    <2> HIDE DEF up, p, in
    <2>11. available + inner[f] + Total(in) = available + Total(inner)
      BY <1>1, <2>2, <2>5
    <2>12. Even(available + inner[f] + Total(in), lost, extra)
      BY <2>6, <2>11
    <2> QED
      BY <1>1, <1>2, <2>1, <2>2, <2>3, <2>7, <2>8, <2>10, <2>12, ReleaseConserves
  <1> QED
    BY <1>1, <1>3, <1>4, <1>5

LEMMA EndConserves == ASSUME TypeOK, Kept, NEW f \in Files, End(f) PROVE Kept'
  <1>1. /\ pc[f] = "ending" /\ outer[f] = inner[f] /\ inner[f] \in Nat /\ 0 \in 0..Capacity
        /\ UNCHANGED <<lost, extra>>
    BY BudgetAssumption DEF End, Kept, Balanced, TypeOK
  <1>2. Release(inner[f], upgraders, [pc EXCEPT ![f] = "done"], [outer EXCEPT ![f] = 0],
                [inner EXCEPT ![f] = 0])
    BY <1>1 DEF End
  <1>3. inner[f] - 0 = inner[f] /\ 0 <= inner[f]
    BY <1>1
  <1>4. Release(inner[f] - 0, upgraders, [pc EXCEPT ![f] = "done"], [outer EXCEPT ![f] = 0],
                [inner EXCEPT ![f] = 0])
    BY <1>2, <1>3
  <1> QED
    BY <1>1, <1>3, <1>4, GivesBack

LEMMA RaiseEven ==
  ASSUME NEW i \in Nat, NEW o \in Nat, NEW a \in Nat, NEW u \in Nat, NEW t \in Nat,
         NEW lo \in Nat, NEW ex \in Nat, t = u - i + o, Even(a + u, lo, ex)
  PROVE  Even(a + t, IF i > o THEN lo + (i - o) ELSE lo, IF i < o THEN ex + (o - i) ELSE ex)
  BY BudgetAssumption DEF Even

\* A file that fails will give back what it acquired: what it held beyond that
\* is lost, what it held less is made up.
LEMMA RaiseConserves ==
  ASSUME TypeOK, Kept, NEW f \in Files, pc[f] \notin {"waiting", "upgrading"}, Raise(f)
  PROVE  Kept'
  <1> DEFINE i == inner[f]
             o == outer[f]
  <1>1. i \in Nat /\ o \in Nat /\ available \in Nat /\ Capacity \in Nat /\ lost \in Nat /\ extra \in Nat
    BY BudgetAssumption DEF TypeOK
  <1>2. /\ pc' = [pc EXCEPT ![f] = "ending"] /\ inner' = [inner EXCEPT ![f] = o]
        /\ outer' = [outer EXCEPT ![f] = o]
        /\ lost' = IF i > o THEN lost + (i - o) ELSE lost
        /\ extra' = IF i < o THEN extra + (o - i) ELSE extra
        /\ UNCHANGED <<available, upgraders, waiters>>
    BY DEF Raise, TypeOK
  <1>3. inner \in [Files -> Nat]
    BY HoldIsNat DEF TypeOK
  <1>4. Even(available + Total(inner), lost, extra)
    BY Conserved DEF Kept
  <1>5. Balanced(pc', outer', inner')
    BY <1>2, Rebalanced DEF Kept
  <1>6. Lined(upgraders', pc', "upgrading") /\ Lined(waiters', pc', "waiting")
    BY <1>2, LinedMove DEF Kept, TypeOK
  <1>7. Total(inner) \in Nat /\ Total(inner') \in Nat /\ Total(inner') = Total(inner) - i + o
    BY <1>1, <1>2, <1>3, TotalChange
  <1> HIDE DEF i, o
  <1>8. Even(available' + Total(inner'), lost', extra')
    BY <1>1, <1>2, <1>4, <1>7, RaiseEven
  <1> QED
    BY <1>5, <1>6, <1>8, Conserved DEF Kept

LEMMA FinishConserves == ASSUME TypeOK, Kept, NEW f \in Files, Finish(f) PROVE Kept'
  BY QuietKept DEF Finish

\* An idle budget: what Init and a cancelled sync leave.
Idle == /\ available = Capacity /\ upgraders = <<>> /\ waiters = <<>>
        /\ inner = [f \in Files |-> 0] /\ outer = [f \in Files |-> 0]
        /\ lost = 0 /\ extra = 0

LEMMA IdleKept == Idle => Kept
  <1> SUFFICES ASSUME Idle PROVE Kept
    OBVIOUS
  <1> USE DEF Idle
  <1>1. Even(available + Total(inner), lost, extra)
    BY TotalNone, BudgetAssumption DEF Even
  <1>2. Len(<<>>) = 0 /\ 1..0 = {}
    OBVIOUS
  <1>3. Lined(upgraders, pc, "upgrading") /\ Lined(waiters, pc, "waiting")
    BY <1>2 DEF Lined
  <1>4. Balanced(pc, outer, inner)
    BY DEF Balanced
  <1> QED
    BY <1>1, <1>3, <1>4, Conserved DEF Kept

LEMMA CancelConserves == Cancel => Kept'
  <1>1. Idle' => Kept'
    BY IdleKept, PTL
  <1> QED
    BY <1>1 DEF Cancel, Idle

LEMMA NextKept == ASSUME TypeOK, Kept, [Next]_vars PROVE Kept'
  <1>1. ASSUME NEW f \in Files, EndEarly(f) PROVE Kept'
    <2>1. /\ pc[f] = "holding" /\ inner[f] = outer[f] /\ outer' = [outer EXCEPT ![f] = outer[f]]
          /\ pc' = [pc EXCEPT ![f] = "ending"]
          /\ UNCHANGED <<available, upgraders, waiters, inner, lost, extra>>
      BY <1>1 DEF EndEarly, Kept, Balanced, TypeOK
    <2> QED
      BY <2>1, QuietKept
  <1>2. ASSUME NEW f \in Files, ExtractFails(f) \/ SizedFails(f) PROVE Kept'
    <2>1. pc[f] \notin {"waiting", "upgrading"} /\ Raise(f)
      BY <1>2 DEF ExtractFails, SizedFails
    <2> QED
      BY <2>1, RaiseConserves
  <1>3. CASE UNCHANGED vars
    BY <1>3, Conserved DEF vars, Kept, Lined, Balanced
  <1>4. ASSUME NEW f \in Files, Step(f) PROVE Kept'
    BY <1>1, <1>2, <1>4, AcquireConserves, BeginExtractConserves, UpgradeConserves,
       FinishConserves, EndConserves DEF Step
  <1> QED
    BY <1>3, <1>4, CancelConserves DEF Next

-----------------------------------------------------------------------------
(* Theorems *)

\* Every unit count stays within the capacity, and the queues hold entries of
\* the batch that weigh at least one unit and at most the capacity.
THEOREM TypeCorrect == Spec => []TypeOK
  BY SafeAlways, PTL DEF Safe

\* No task sleeps in front of units it could have, whatever fails and wherever
\* the sync is cancelled.
THEOREM NobodySleepsOnUnits == Spec => []NoLostWakeup
  BY SafeAlways, PTL DEF Safe

\* A file gets its first units only when no file that has pages in memory is
\* left waiting for more.
THEOREM UpgradersComeFirst == Spec => UpgradersFirst
  <1>1. Safe /\ [Next]_vars =>
          [\A f \in Files : (pc[f] \in {"new", "waiting"} /\ pc'[f] = "holding")
                            => upgraders' = <<>>]_vars
    BY NextSafe DEF InOrder
  <1> QED
    BY <1>1, SafeAlways, PTL DEF Spec, UpgradersFirst

\* The units add up to the capacity, whatever the files do, except for what
\* files that failed on a resized hold lost or made up.
THEOREM UnitsAreConserved == Spec => []UnitsConserved
  <1>1. Init => Kept
    BY IdleKept DEF Init, Idle
  <1>2. TypeOK /\ Kept /\ [Next]_vars => Kept'
    BY NextKept
  <1>3. Kept => UnitsConserved
    BY DEF Kept
  <1> QED
    BY <1>1, <1>2, <1>3, TypeCorrect, PTL DEF Spec
=============================================================================
