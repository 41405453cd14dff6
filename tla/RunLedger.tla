----------------------------- MODULE RunLedger ------------------------------
(***************************************************************************)
(* What the run table promises, whoever writes it: a run is opened once,   *)
(* it may stop to ask its subscriber something, an ask is answered at most *)
(* once and only together with the run that continues it, and a closed run *)
(* stays closed.                                                           *)
(***************************************************************************)
CONSTANT RunIds

VARIABLE ledger

Entries == {"absent", "fresh", "resumed", "asking", "closed"}
Open    == {"fresh", "resumed"}

TypeOK == ledger \in [RunIds -> Entries]

Init == ledger = [r \in RunIds |-> "absent"]

Begin(r) ==
  /\ ledger[r] = "absent"
  /\ ledger' = [ledger EXCEPT ![r] = "fresh"]

Ask(r) ==
  /\ ledger[r] \in Open
  /\ ledger' = [ledger EXCEPT ![r] = "asking"]

Answer(r, s) ==
  /\ ledger[r] = "asking" /\ ledger[s] = "absent"
  /\ ledger' = [ledger EXCEPT ![r] = "closed", ![s] = "resumed"]

Close(S) ==
  /\ S # {} /\ \A r \in S : ledger[r] \in Open
  /\ ledger' = [r \in RunIds |-> IF r \in S THEN "closed" ELSE ledger[r]]

Next == \/ \E r \in RunIds : Begin(r) \/ Ask(r) \/ \E s \in RunIds : Answer(r, s)
        \/ \E S \in SUBSET RunIds : Close(S)

Spec == Init /\ [][Next]_ledger
=============================================================================
