---------------------------- MODULE SubAgentProofs ---------------------------
(***************************************************************************)
(* Proofs about SubAgents, for any number of versions, concurrent requests *)
(* and texts: nothing unreviewed runs, what was approved automatically is  *)
(* within the limit or runs with a text a person let past it, the default  *)
(* is approved unless unlocked requests raced, and a publisher's write     *)
(* leaves no follower behind in silence.                                   *)
(***************************************************************************)
EXTENDS SubAgents, TLAPS

\* What the proofs know of the versions and of the requests.
VersionsInv ==
  /\ ver \in [Versions -> VersionRow \cup {NoVersion}]
  /\ cur \in Versions /\ def \in 0..MaxVersions
  /\ Exists(cur) /\ (def # 0 => Exists(def))

CallsInv == call \in [Calls -> CallRec] /\ raced \in BOOLEAN

\* No version is ever taken out of the table.
ReadInv == \A a \in Calls : call[a].op \in Reviews => Exists(call[a].ver)

Rest ==
  /\ kind \in {"local", "automated"} /\ bound \in BOOLEAN /\ public \in BOOLEAN
  /\ row \in Hashes /\ pub \in Hashes
  /\ act \in {"none", "pinned", "following"} /\ err \in BOOLEAN

\* Whatever is approved, and whatever runs, was let run by something, and then
\* its prompt was by a person, the host or the rules.
ReviewedInv ==
  /\ \A v \in Versions : Exists(v) /\ ver[v].status = "approved" => ver[v].by # "none"
  /\ \A v \in Versions : Exists(v) /\ ver[v].by # "none" => LetRun(ver[v].has.prompt)
  /\ def # 0 => ver[def].by # "none"

\* A person let a version run with this text.
Excused(c) ==
  \E w \in Versions : /\ Exists(w) /\ ver[w].by = "person"
                      /\ Inlined(ver[w].has) = Inlined(c)

\* A lone review, submission or deletion finds what it read.
Lone ==
    /\ def # 0 => ver[def].status = "approved"
    /\ \A a, b \in Calls : call[a].op \in Reviews /\ call[b].op \in Reviews => a = b
    /\ \A a \in Calls : /\ call[a].op = "submit" => Submittable(call[a].ver)
                        /\ call[a].op \in {"approve", "reject"} => Decidable(call[a].ver)

LoneInv == ~raced => Lone

Core == VersionsInv /\ CallsInv /\ ReadInv /\ ReviewedInv /\ AutomaticFits /\ LoneInv

Inv == Core /\ Rest

\* Requests move on, but no review, submission or deletion begins.
CallStep ==
  /\ call' \in [Calls -> CallRec] /\ raced' = raced
  /\ \A a \in Calls : call'[a].op \in Reviews => call'[a] = call[a]

LEMMA CallStays == ASSUME CallsInv, UNCHANGED <<call, raced>> PROVE CallStep
  BY DEF CallsInv, CallStep

LEMMA CallEnds == ASSUME CallsInv, NEW a \in Calls, Ends(a), raced' = raced PROVE CallStep
  BY DEF CallsInv, CallStep, Ends, CallRec, NoCall, Reviews

LEMMA CallMoves ==
  ASSUME CallsInv, NEW a \in Calls, NEW rec \in CallRec, rec.op \notin Reviews,
         call' = [call EXCEPT ![a] = rec], raced' = raced
  PROVE  CallStep
  BY DEF CallsInv, CallStep

LEMMA Holds ==
  ASSUME Core, NEW v \in Versions, Exists(v)
  PROVE  ver[v] \in VersionRow /\ ver[v].has \in Contents
  BY DEF Core, VersionsInv, Exists, VersionRow

LEMMA Rows ==
  ASSUME Core
  PROVE  /\ cur \in Versions /\ Exists(cur) /\ ver[cur].has \in Contents
         /\ def # 0 => def \in Versions /\ Exists(def) /\ ver[def].has \in Contents
  <1>1. cur \in Versions /\ Exists(cur)
    BY DEF Core, VersionsInv
  <1>2. def # 0 => def \in Versions /\ Exists(def)
    BY SubAgentsAssumption DEF Core, VersionsInv, Versions
  <1> QED
    BY <1>1, <1>2, Holds

\* A step that writes no version, and moves the pointers to versions that may
\* be pointed at.
LEMMA Moves ==
  ASSUME Core, CallStep, ver' = ver,
         cur' \in Versions, Exists(cur'),
         def' # def => def' \in Versions /\ Exists(def') /\ ver[def'].status = "approved"
  PROVE  Core'
  <1>1. def # 0 => def \in Versions
    BY Rows
  <1>2. VersionsInv' /\ CallsInv'
    BY SubAgentsAssumption DEF Core, VersionsInv, CallsInv, CallStep, Exists, Versions
  <1>3. ReviewedInv' /\ AutomaticFits'
    BY DEF Core, ReviewedInv, AutomaticFits, Exists, LetRun, Fits, Inlined, Counted
  <1>4. ReadInv'
    BY DEF Core, ReadInv, CallStep, Exists
  <1>5. LoneInv'
    BY DEF Core, LoneInv, Lone, CallStep, Submittable, Decidable, Reviews
  <1> QED
    BY <1>2, <1>3, <1>4, <1>5 DEF Core

LEMMA Stays == ASSUME Core, CallStep, UNCHANGED <<ver, cur, def>> PROVE Core'
  BY Rows, Moves

\* Versions keep their contents, and a person's approval is not forgotten.
Kept ==
  \A v \in Versions : Exists(v) =>
    ver'[v] # NoVersion /\ ver'[v].has = ver[v].has /\ ver'[v].by \in {ver[v].by, "person"}

LEMMA Remembered ==
  ASSUME Kept
  PROVE  /\ \A p : LetRun(p) =>
              \E v \in Versions : /\ ver'[v] # NoVersion /\ ver'[v].by \in {"rules", "person"}
                                  /\ ver'[v].has.prompt = p
         /\ \A c : Excused(c) =>
              \E v \in Versions : /\ ver'[v] # NoVersion /\ ver'[v].by = "person"
                                  /\ Inlined(ver'[v].has) = Inlined(c)
  <1>1. ASSUME NEW p, LetRun(p)
        PROVE  \E v \in Versions : /\ ver'[v] # NoVersion /\ ver'[v].by \in {"rules", "person"}
                                   /\ ver'[v].has.prompt = p
    BY <1>1 DEF LetRun, Kept
  <1>2. ASSUME NEW c, Excused(c)
        PROVE  \E v \in Versions : /\ ver'[v] # NoVersion /\ ver'[v].by = "person"
                                   /\ Inlined(ver'[v].has) = Inlined(c)
    <2>1. PICK v \in Versions : /\ Exists(v) /\ ver[v].by = "person"
                                /\ Inlined(ver[v].has) = Inlined(c)
      BY <1>2 DEF Excused
    <2> QED
      BY <2>1 DEF Kept, Inlined, Counted
  <1> QED
    BY <1>1, <1>2

\* A row that may be added: whatever lets it run has looked at its prompt, and
\* when that was not a person, the text is within the limit or excused.
Addable(r) ==
  /\ r \in VersionRow /\ r.status = (IF r.by = "none" THEN "draft" ELSE "approved")
  /\ r.by = "copy" => LetRun(r.has.prompt)
  /\ r.by \in {"rules", "copy"} => Fits(r.has) \/ Excused(r.has)

\* A step that adds versions.
LEMMA Adds ==
  ASSUME Core, CallStep, NEW new \in SUBSET Versions,
         NEW t \in [Versions -> VersionRow \cup {NoVersion}], ver' = t,
         \A v \in new : ~Exists(v) /\ Addable(t[v]),
         \A v \in Versions \ new : t[v] = ver[v],
         cur' \in new,
         def' # def => def' \in new /\ t[def'].by # "none"
  PROVE  Core'
  <1>1. \A v \in new : t[v] \in VersionRow /\ t[v] # NoVersion
    BY DEF Addable, VersionRow, Statuses, NoVersion
  <1>2. \A v \in Versions : Exists(v) => t[v] = ver[v]
    OBVIOUS
  <1>3. Kept
    BY <1>2 DEF Kept, Exists
  <1>4. def # 0 => def \in Versions /\ Exists(def)
    BY Rows
  <1>5. /\ \A p : LetRun(p) =>
             \E v \in Versions : /\ t[v] # NoVersion /\ t[v].by \in {"rules", "person"}
                                 /\ t[v].has.prompt = p
        /\ \A c : Excused(c) =>
             \E v \in Versions : /\ t[v] # NoVersion /\ t[v].by = "person"
                                 /\ Inlined(t[v].has) = Inlined(c)
    BY <1>3, Remembered
  <1>6. VersionsInv'
    <2>1. cur' \in Versions /\ t[cur'] # NoVersion
      BY <1>1
    <2>2. def' # 0 => def' \in Versions /\ t[def'] # NoVersion
      BY <1>1, <1>2, <1>4 DEF Exists
    <2>3. def' \in 0..MaxVersions
      BY <2>2, SubAgentsAssumption DEF Core, VersionsInv, Versions
    <2> QED
      BY <2>1, <2>2, <2>3 DEF VersionsInv, Exists
  <1>7. ReviewedInv'
    <2>1. \A v \in Versions : t[v] # NoVersion /\ t[v].status = "approved" => t[v].by # "none"
      BY DEF Addable, Core, ReviewedInv, Exists
    <2>2. ASSUME NEW v \in Versions, t[v] # NoVersion, t[v].by # "none"
          PROVE  \E w \in Versions : /\ t[w] # NoVersion /\ t[w].by \in {"rules", "person"}
                                     /\ t[w].has.prompt = t[v].has.prompt
      <3>1. CASE v \notin new
        BY <1>5, <2>2, <3>1 DEF Core, ReviewedInv, Exists
      <3>2. CASE v \in new /\ t[v].by = "copy"
        BY <1>5, <3>2 DEF Addable
      <3>3. CASE v \in new /\ t[v].by # "copy"
        BY <2>2, <3>3 DEF Addable, VersionRow
      <3> QED
        BY <3>1, <3>2, <3>3
    <2>3. def' # 0 => t[def'].by # "none"
      BY <1>2, <1>4 DEF Core, ReviewedInv
    <2> QED
      BY <2>1, <2>2, <2>3 DEF ReviewedInv, Exists, LetRun
  <1>8. AutomaticFits'
    <2>1. ASSUME NEW v \in Versions, t[v] # NoVersion, t[v].by \in {"rules", "copy"}
          PROVE  \/ Fits(t[v].has)
                 \/ \E w \in Versions : /\ t[w] # NoVersion /\ t[w].by = "person"
                                        /\ Inlined(t[w].has) = Inlined(t[v].has)
      <3>1. Fits(t[v].has) \/ Excused(t[v].has)
        <4>1. CASE v \in new
          BY <2>1, <4>1 DEF Addable
        <4>2. CASE v \notin new
          BY <2>1, <4>2 DEF Core, AutomaticFits, Excused, Exists
        <4> QED
          BY <4>1, <4>2
      <3> QED
        BY <1>5, <3>1
    <2> QED
      BY <2>1 DEF AutomaticFits, Exists, Fits, Inlined, Counted
  <1>9. LoneInv'
    <2> SUFFICES ASSUME ~raced PROVE Lone'
      BY DEF LoneInv, CallStep, Core
    <2>1. def' # 0 => ver'[def'].status = "approved"
      BY <1>2, <1>4 DEF Core, LoneInv, Lone, Addable
    <2>2. ASSUME NEW a \in Calls, call'[a].op \in Reviews
          PROVE  call'[a] = call[a]
      BY <2>2 DEF CallStep
    <2>3. \A a, b \in Calls : call'[a].op \in Reviews /\ call'[b].op \in Reviews => a = b
      BY <2>2 DEF Core, LoneInv, Lone
    <2>4. ASSUME NEW a \in Calls, call'[a].op \in {"submit", "approve", "reject"}
          PROVE  call'[a] = call[a] /\ ver'[call[a].ver] = ver[call[a].ver]
      <3>1. call'[a] = call[a]
        BY <2>2, <2>4 DEF Reviews
      <3>2. call[a].ver \in Versions /\ Exists(call[a].ver)
        BY <2>4, <3>1 DEF Core, CallsInv, CallRec, NoCall, ReadInv, Reviews
      <3> QED
        BY <1>2, <3>1, <3>2
    <2>5. \A a \in Calls :
            /\ call'[a].op = "submit" => ver'[call'[a].ver].status \in {"draft", "rejected"}
            /\ call'[a].op \in {"approve", "reject"} => ver'[call'[a].ver].status = "pending"
      BY <2>4 DEF Core, LoneInv, Lone, Submittable, Decidable
    <2> QED
      BY <2>1, <2>3, <2>5 DEF Lone, Submittable, Decidable
  <1>10. CallsInv'
    BY DEF Core, CallsInv, CallStep
  <1>11. ReadInv'
    <2> SUFFICES ASSUME NEW a \in Calls, call'[a].op \in Reviews
                 PROVE  ver'[call'[a].ver] # NoVersion
      BY DEF ReadInv, Exists
    <2>1. call'[a] = call[a] /\ call[a].ver \in Versions /\ Exists(call[a].ver)
      BY DEF CallStep, Core, CallsInv, CallRec, NoCall, Reviews, ReadInv
    <2> QED
      BY <1>2, <2>1 DEF Exists
  <1> QED
    BY <1>6, <1>7, <1>8, <1>9, <1>10, <1>11 DEF Core

\* A new row for a configuration.
LEMMA RowAddable ==
  ASSUME NEW c \in Contents, NEW by \in {"none", "rules", "copy", "person"},
         by = "copy" => LetRun(c.prompt),
         by \in {"rules", "copy"} => Fits(c) \/ Excused(c)
  PROVE  Addable(NewRow(c, by)) /\ NewRow(c, by).by = by /\ NewRow(c, by).has = c
  BY DEF Addable, NewRow, VersionRow, Statuses

LEMMA WrittenAdds ==
  ASSUME Core, CallStep, NEW c \in Contents, NEW by \in {"none", "rules", "copy", "person"},
         Written(c, by), by = "copy" => LetRun(c.prompt),
         by \in {"rules", "copy"} => Fits(c) \/ Excused(c)
  PROVE  Core'
  <1> DEFINE r == NewRow(c, by)
  <1>1. PICK v \in Versions :
          /\ NextVersion(v) /\ ver' = [ver EXCEPT ![v] = r]
          /\ cur' = v /\ def' = IF by = "none" THEN def ELSE v
    BY DEF Written
  <1>2. Addable(r) /\ r.by = by
    BY RowAddable
  <1>3. PICK t : t = [ver EXCEPT ![v] = r]
    OBVIOUS
  <1>4. r \in VersionRow
    BY <1>2 DEF Addable
  <1> HIDE DEF r
  <1>5. /\ t \in [Versions -> VersionRow \cup {NoVersion}] /\ t[v] = r
        /\ \A w \in Versions \ {v} : t[w] = ver[w]
    BY <1>3, <1>4 DEF Core, VersionsInv
  <1>6. ~Exists(v)
    BY <1>1 DEF NextVersion
  <1>7. PICK new : new = {v}
    OBVIOUS
  <1>8. /\ new \in SUBSET Versions
        /\ \A w \in new : ~Exists(w) /\ Addable(t[w])
        /\ \A w \in Versions \ new : t[w] = ver[w]
        /\ cur' \in new /\ (def' # def => def' \in new /\ t[def'].by # "none")
    BY <1>1, <1>2, <1>5, <1>6, <1>7
  <1> QED
    BY <1>1, <1>3, <1>5, <1>8, Adds

LEMMA SavedAdds ==
  ASSUME Core, CallStep, NEW c \in Contents, NEW p \in BOOLEAN, Saved(c, p)
  PROVE  Core'
  <1>1. ByRules(c, p) \in {"none", "rules"} /\ (ByRules(c, p) = "rules" => Fits(c))
    BY DEF ByRules, Blocked
  <1>2. Written(c, ByRules(c, p))
    BY DEF Saved
  <1> QED
    BY <1>1, <1>2, WrittenAdds

\* A bump keeps the prompt of the default, and what it inlines stays within the
\* limit, unless it inlines what the default does.
LEMMA BumpedIsSound ==
  ASSUME Core, NEW h \in Hashes, ~BumpRaises(h), Bumps(h)
  PROVE  /\ Bumped(h) \in Contents /\ Bumped(h).fol.hash = h
         /\ LetRun(Bumped(h).prompt)
         /\ Fits(Bumped(h)) \/ Excused(Bumped(h))
  <1> DEFINE c == ver[def].has
             d == [c EXCEPT !.fol.hash = h]
  <1>1. def # 0 /\ def \in Versions /\ Exists(def) /\ c \in Contents
    BY Rows DEF BumpRaises
  <1>2. Bumped(h) = d
    BY DEF Bumped, BumpBase
  <1>3. /\ d \in Contents /\ d.prompt = c.prompt /\ d.own = c.own
        /\ d.fol.hash = h /\ d.fol.inline = c.fol.inline
    BY <1>1 DEF Contents, Refs, Hashes
  <1>4. LetRun(d.prompt)
    BY <1>1, <1>3 DEF Core, ReviewedInv
  <1>5. Fits(d) \/ Excused(d)
    <2>1. CASE c.fol.inline
      BY <2>1 DEF BumpRaises, Bumps, BumpBase
    <2>2. CASE ~c.fol.inline
      <3>1. Inlined(d) = Inlined(c) /\ (Fits(d) <=> Fits(c))
        BY <1>3, <2>2 DEF Inlined, Fits, Counted
      <3>2. ver[def].by \in {"rules", "copy", "person"}
        BY <1>1, Holds DEF Core, ReviewedInv, VersionRow
      <3>3. Fits(c) \/ Excused(c)
        BY <1>1, <3>2 DEF Core, AutomaticFits, Excused
      <3> QED
        BY <3>1, <3>3 DEF Excused
    <2> QED
      BY <2>1, <2>2
  <1> QED
    BY <1>2, <1>3, <1>4, <1>5

LEMMA BumpAdds ==
  ASSUME Core, CallStep, NEW h \in Hashes, ~BumpRaises(h), BumpFollowedSkill(h)
  PROVE  Core'
  <1>1. CASE ~Bumps(h)
    BY <1>1, Stays DEF BumpFollowedSkill
  <1>2. CASE Bumps(h)
    <2>1. Written(Bumped(h), "copy")
      BY <1>2 DEF BumpFollowedSkill
    <2> QED
      BY <1>2, <2>1, BumpedIsSound, WrittenAdds
  <1> QED
    BY <1>1, <1>2

\* The two versions of a switch that bumps and then changes the flag.
LEMMA BumpedAndSavedAdds ==
  ASSUME Core, CallStep, NEW h \in Hashes, ~BumpRaises(h), Bumps(h),
         NEW c \in Contents, BumpedAndSaved(h, c)
  PROVE  Core'
  <1> DEFINE r == NewRow(Bumped(h), "copy")
             s == NewRow(c, ByRules(c, public))
  <1>1. PICK v \in Versions :
          /\ NextVersion(v) /\ v + 1 \in Versions
          /\ ver' = [ver EXCEPT ![v] = r, ![v + 1] = s]
          /\ cur' = v + 1 /\ def' = IF Blocked(c, public) THEN v ELSE v + 1
    BY DEF BumpedAndSaved
  <1>2. Addable(r) /\ r.by = "copy"
    BY BumpedIsSound, RowAddable
  <1>3. /\ ByRules(c, public) \in {"none", "rules"}
        /\ ByRules(c, public) = "rules" => Fits(c)
        /\ ByRules(c, public) = "none" <=> Blocked(c, public)
    BY DEF ByRules, Blocked
  <1>4. Addable(s) /\ s.by = ByRules(c, public)
    BY <1>3, RowAddable
  <1>5. r \in VersionRow /\ s \in VersionRow
    BY <1>2, <1>4 DEF Addable
  <1>6. PICK t : t = [ver EXCEPT ![v] = r, ![v + 1] = s]
    OBVIOUS
  <1> HIDE DEF r, s
  <1>7. v + 1 # v /\ ~Exists(v) /\ ~Exists(v + 1)
    BY <1>1, SubAgentsAssumption DEF NextVersion, Versions
  <1>8. /\ t \in [Versions -> VersionRow \cup {NoVersion}] /\ t[v] = r /\ t[v + 1] = s
        /\ \A w \in Versions \ {v, v + 1} : t[w] = ver[w]
    BY <1>1, <1>5, <1>6, <1>7 DEF Core, VersionsInv
  <1>9. def' \in {v, v + 1} /\ t[def'].by # "none"
    BY <1>1, <1>2, <1>3, <1>4, <1>8
  <1>10. PICK new : new = {v, v + 1}
    OBVIOUS
  <1>11. /\ new \in SUBSET Versions
         /\ \A w \in new : ~Exists(w) /\ Addable(t[w])
         /\ \A w \in Versions \ new : t[w] = ver[w]
         /\ cur' \in new /\ (def' # def => def' \in new /\ t[def'].by # "none")
    BY <1>1, <1>2, <1>4, <1>7, <1>8, <1>9, <1>10
  <1>12. ver' = t
    BY <1>1, <1>6
  <1> QED
    BY <1>8, <1>11, <1>12, Adds

-----------------------------------------------------------------------------
(* The actions *)

\* What the requests and the creation may put where a skill is held.
LEMMA SomeRefs ==
  /\ NoRef \in Refs /\ Hashes \subseteq 0..MaxSkill
  /\ \A H, F : H \subseteq 0..MaxSkill /\ F \subseteq BOOLEAN => [hash : H, inline : F] \subseteq Refs
  <1>1. 0 \in 0..MaxSkill /\ Hashes \subseteq 0..MaxSkill
    BY SubAgentsAssumption DEF Hashes
  <1>2. ASSUME NEW H, NEW F, H \subseteq 0..MaxSkill, F \subseteq BOOLEAN,
               NEW r \in [hash : H, inline : F]
        PROVE  r \in Refs
    <2>1. r = [hash |-> r.hash, inline |-> r.inline] /\ r.hash \in H /\ r.inline \in F
      OBVIOUS
    <2>2. r.hash \in 0..MaxSkill /\ r.inline \in BOOLEAN
      BY <1>2, <2>1
    <2> QED
      BY <2>1, <2>2 DEF Refs
  <1> QED
    BY <1>1, <1>2 DEF NoRef, Refs

\* A save changes one part of a configuration, or none.
LEMMA EditsAreContents ==
  ASSUME NEW b \in Contents, NEW c \in Edits(b) PROVE c \in Contents
  <1>1. CASE c \in {[b EXCEPT !.prompt = q] : q \in Prompts}
    BY <1>1 DEF Contents
  <1>2. CASE c \in {[b EXCEPT !.own = r] : r \in {NoRef} \cup [hash : Hashes, inline : OwnFlags]}
    <2>1. {NoRef} \cup [hash : Hashes, inline : OwnFlags] \subseteq Refs
      BY SomeRefs, SubAgentsAssumption
    <2> QED
      BY <1>2, <2>1 DEF Contents
  <1>3. CASE c \in {[b EXCEPT !.fol = r] : r \in {NoRef} \cup [hash : NewPins, inline : BOOLEAN]}
    <2>1. {NoRef} \cup [hash : NewPins, inline : BOOLEAN] \subseteq Refs
      <3>1. NewPins \subseteq 0..MaxSkill
        BY SubAgentsAssumption
      <3> QED
        BY <3>1, SomeRefs
    <2> QED
      BY <1>3, <2>1 DEF Contents
  <1>4. CASE c \in {[b EXCEPT !.fol.inline = (b.fol.hash # 0 /\ ~b.fol.inline)]}
    <2>1. PICK e \in BOOLEAN : e = (b.fol.hash # 0 /\ ~b.fol.inline)
      OBVIOUS
    <2>2. PICK r : r = [b.fol EXCEPT !.inline = e]
      OBVIOUS
    <2>3. b.fol \in Refs
      BY DEF Contents
    <2>4. r \in Refs
      BY <2>2, <2>3 DEF Refs
    <2>5. c = [b EXCEPT !.fol = r]
      BY <1>4, <2>1, <2>2
    <2> QED
      BY <2>4, <2>5 DEF Contents
  <1> QED
    BY <1>1, <1>2, <1>3, <1>4 DEF Edits

LEMMA UpdateSubAgentInv == ASSUME Inv, UpdateSubAgent PROVE Inv'
  <1>1. PICK c \in Edits(ver[cur].has), p \in BOOLEAN :
          /\ Saved(c, p) /\ public' = p
          /\ row' \in {IF c.own.hash = 0 THEN row ELSE c.own.hash} \cup
                      (IF c.own.hash = ver[cur].has.own.hash THEN {row} ELSE {})
    BY DEF UpdateSubAgent
  <1>2. c \in Contents
    BY <1>1, Rows, EditsAreContents DEF Inv
  <1>3. CallStep
    BY CallStays DEF Inv, Core, UpdateSubAgent
  <1>4. Core'
    BY <1>1, <1>2, <1>3, SavedAdds DEF Inv
  <1>5. row' \in Hashes
    BY <1>1, <1>2 DEF Inv, Rest, Contents, Refs, Hashes
  <1>6. Rest'
    BY <1>1, <1>5 DEF Inv, Rest, UpdateSubAgent
  <1> QED
    BY <1>4, <1>6 DEF Inv

LEMMA SelfUpdateInv == ASSUME Inv, SelfUpdate PROVE Inv'
  <1> DEFINE c == [ver[cur].has EXCEPT !.fol.hash = pub]
  <1>1. c \in Contents
    BY Rows DEF Inv, Rest, Contents, Refs, Hashes
  <1>2. CallStep
    BY CallStays DEF Inv, Core, SelfUpdate
  <1>3. public \in BOOLEAN /\ Saved(c, public)
    BY DEF Inv, Rest, SelfUpdate
  <1>4. Core'
    <2> HIDE DEF c
    <2> QED
      BY <1>1, <1>2, <1>3, SavedAdds DEF Inv
  <1>5. Rest'
    BY DEF Inv, Rest, SelfUpdate
  <1> QED
    BY <1>4, <1>5 DEF Inv

LEMMA SetPublicInv == ASSUME Inv, SetPublic \/ DeleteBinding PROVE Inv'
  <1>1. CallStep
    BY CallStays DEF Inv, Core, SetPublic, DeleteBinding
  <1>2. Core'
    BY <1>1, Stays DEF Inv, SetPublic, DeleteBinding
  <1>3. Rest'
    BY DEF Inv, Rest, SetPublic, DeleteBinding
  <1> QED
    BY <1>2, <1>3 DEF Inv

LEMMA RestoredType ==
  ASSUME Rest, NEW c \in Contents, Restored(c) PROVE row' \in Hashes
  BY DEF Rest, Contents, Refs, Restored, Hashes

\* The default becomes a version that is approved, so reviewed.
LEMMA SetDefaultVersionInv == ASSUME Inv, SetDefaultVersion PROVE Inv'
  <1>1. PICK v \in Versions :
          Exists(v) /\ ver[v].status = "approved" /\ def' = v /\ Restored(ver[v].has)
    BY DEF SetDefaultVersion
  <1>2. CallStep
    BY CallStays DEF Inv, Core, SetDefaultVersion
  <1>3. ver' = ver /\ cur' = cur
    BY DEF SetDefaultVersion
  <1>4. cur' \in Versions /\ Exists(cur')
    BY <1>3, Rows DEF Inv
  <1>5. Core'
    BY <1>1, <1>2, <1>3, <1>4, Moves DEF Inv
  <1>6. Rest'
    BY <1>1, Holds, RestoredType DEF Inv, Rest, SetDefaultVersion
  <1> QED
    BY <1>5, <1>6 DEF Inv

LEMMA RevertToVersionInv == ASSUME Inv, RevertToVersion PROVE Inv'
  <1>1. PICK v \in Versions :
          /\ Exists(v) /\ cur < MaxVersions /\ ~Exists(cur + 1)
          /\ ver' = [ver EXCEPT ![cur + 1] = NewRow(ver[v].has, "none")]
          /\ cur' = cur + 1 /\ Restored(ver[v].has)
    BY DEF RevertToVersion
  <1> DEFINE r == NewRow(ver[v].has, "none")
  <1>2. ver[v].has \in Contents
    BY <1>1, Holds DEF Inv
  <1>3. Addable(r)
    BY <1>2, RowAddable
  <1>4. PICK w : w = cur + 1
    OBVIOUS
  <1>5. w \in Versions
    BY <1>1, <1>4, SubAgentsAssumption DEF Inv, Core, VersionsInv, Versions
  <1>6. PICK t : t = [ver EXCEPT ![w] = r]
    OBVIOUS
  <1>7. r \in VersionRow
    BY <1>3 DEF Addable
  <1> HIDE DEF r
  <1>8. /\ t \in [Versions -> VersionRow \cup {NoVersion}] /\ t[w] = r
        /\ \A u \in Versions \ {w} : t[u] = ver[u]
    BY <1>5, <1>6, <1>7 DEF Inv, Core, VersionsInv
  <1>9. ver' = t /\ cur' = w /\ ~Exists(w)
    BY <1>1, <1>4, <1>6 DEF r
  <1>10. CallStep /\ def' = def
    BY CallStays DEF Inv, Core, RevertToVersion
  <1>11. PICK new : new = {w}
    OBVIOUS
  <1>12. /\ new \in SUBSET Versions
         /\ \A u \in new : ~Exists(u) /\ Addable(t[u])
         /\ \A u \in Versions \ new : t[u] = ver[u]
         /\ cur' \in new /\ (def' # def => def' \in new /\ t[def'].by # "none")
    BY <1>3, <1>5, <1>8, <1>9, <1>10, <1>11
  <1>13. Core'
    BY <1>8, <1>9, <1>10, <1>12, Adds DEF Inv
  <1>14. Rest'
    BY <1>1, <1>2, RestoredType DEF Inv, Rest, RevertToVersion
  <1> QED
    BY <1>13, <1>14 DEF Inv

LEMMA PublishManagedVersionInv == ASSUME Inv, PublishManagedVersion PROVE Inv'
  <1>1. PICK p \in Prompts : Written([prompt |-> p, own |-> NoRef, fol |-> NoRef], "person")
    BY DEF PublishManagedVersion
  <1>2. [prompt |-> p, own |-> NoRef, fol |-> NoRef] \in Contents
    BY SubAgentsAssumption DEF Contents, Refs, NoRef
  <1>3. CallStep
    BY CallStays DEF Inv, Core, PublishManagedVersion
  <1>4. Core'
    BY <1>1, <1>2, <1>3, WrittenAdds DEF Inv
  <1>5. Rest'
    BY DEF Inv, Rest, PublishManagedVersion
  <1> QED
    BY <1>4, <1>5 DEF Inv

\* An edit builds on what runs, so that the prompt it keeps is reviewed; only
\* when nothing was approved yet does it build on the current version.
LEMMA EditOwnSkillInv == ASSUME Inv, EditOwnSkill PROVE Inv'
  <1>1. PICK h \in Hashes \ {row} :
          LET b == ver[Baseline].has
              c == ver[cur].has
              edited == [b EXCEPT !.own.hash = h]
              by == IF def # 0 /\ ~Blocked(edited, public) THEN "copy"
                    ELSE ByRules(edited, public)
          IN  /\ row' = h
              /\ \/ /\ b.own.hash \notin {0, h} /\ ~Refused(edited, public)
                    /\ Written(edited, by)
                 \/ /\ b.own.hash = h
                    /\ cur' = IF c.own.hash \in {0, h} THEN cur ELSE Baseline
                    /\ UNCHANGED <<ver, def>>
                 \/ /\ b.own.hash = 0 /\ cur # def /\ c.own.hash \notin {0, h}
                    /\ Written([c EXCEPT !.own.hash = h], "none")
                 \/ /\ b.own.hash = 0 /\ (cur = def \/ c.own.hash \in {0, h})
                    /\ UNCHANGED <<ver, cur, def>>
    BY DEF EditOwnSkill
  <1> DEFINE b == ver[Baseline].has
             c == ver[cur].has
             edited == [b EXCEPT !.own.hash = h]
             by == IF def # 0 /\ ~Blocked(edited, public) THEN "copy"
                   ELSE ByRules(edited, public)
  <1>2. CallStep
    BY CallStays DEF Inv, Core, EditOwnSkill
  <1>3. Baseline \in Versions /\ Exists(Baseline) /\ b \in Contents /\ c \in Contents
    BY Rows DEF Inv, Baseline
  <1>4. Core'
    <2>1. CASE Written(edited, by)
      <3>1. edited \in Contents /\ edited.prompt = b.prompt
        BY <1>3 DEF Contents, Refs, Hashes
      <3>2. by \in {"none", "rules", "copy"} /\ (by \in {"rules", "copy"} => Fits(edited))
        BY DEF Blocked, ByRules
      <3>3. by = "copy" => def # 0
        BY DEF ByRules
      <3>4. def # 0 => LetRun(b.prompt)
        BY Rows DEF Inv, Core, ReviewedInv, Baseline
      <3>5. by = "copy" => LetRun(edited.prompt)
        BY <3>1, <3>3, <3>4
      <3> HIDE DEF edited, by, b
      <3> QED
        BY <1>2, <2>1, <3>1, <3>2, <3>5, WrittenAdds DEF Inv
    <2>2. CASE /\ cur' = IF c.own.hash \in {0, h} THEN cur ELSE Baseline
               /\ UNCHANGED <<ver, def>>
      BY <1>2, <1>3, <2>2, Rows, Moves DEF Inv
    <2>3. CASE Written([c EXCEPT !.own.hash = h], "none")
      <3>1. [c EXCEPT !.own.hash = h] \in Contents
        BY <1>3 DEF Contents, Refs, Hashes
      <3> QED
        BY <1>2, <2>3, <3>1, WrittenAdds DEF Inv
    <2>4. CASE UNCHANGED <<ver, cur, def>>
      BY <1>2, <2>4, Stays DEF Inv
    <2> QED
      BY <1>1, <2>1, <2>2, <2>3, <2>4
  <1>5. Rest'
    BY <1>1 DEF Inv, Rest, EditOwnSkill
  <1> QED
    BY <1>4, <1>5 DEF Inv

LEMMA PublisherWritesInv == ASSUME Inv, PublisherWrites PROVE Inv'
  <1>1. CallStep
    BY CallStays DEF Inv, Core, PublisherWrites
  <1>2. PICK h \in Hashes :
          /\ pub' = h
          /\ IF act # "following" THEN UNCHANGED <<ver, cur, def, err>>
             ELSE IF BumpRaises(h) THEN err' = TRUE /\ UNCHANGED <<ver, cur, def>>
             ELSE err' = FALSE /\ BumpFollowedSkill(h)
    BY DEF PublisherWrites
  <1>3. Core'
    BY <1>1, <1>2, Stays, BumpAdds DEF Inv, PublisherWrites
  <1>4. Rest'
    BY <1>2 DEF Inv, Rest, PublisherWrites
  <1> QED
    BY <1>3, <1>4 DEF Inv

-----------------------------------------------------------------------------
(* Activations *)

LEMMA BeginActivateInv ==
  ASSUME Inv, NEW a \in Calls, BeginActivate(a) \/ BeginDeactivate(a) PROVE Inv'
  <1>1. PICK rec \in CallRec : rec.op \notin Reviews /\ Begin(a, rec) /\ raced' = raced
    <2>1. CASE BeginActivate(a)
      <3>1. PICK m \in {"pinned", "following"}, i \in Asked :
              Begin(a, [op |-> IF act = "none" THEN "activate"
                               ELSE IF m = act THEN "flag" ELSE "switch",
                        mode |-> m, hash |-> pub, inline |-> i])
        BY <2>1 DEF BeginActivate
      <3>2. pub \in Hashes
        BY DEF Inv, Rest
      <3> DEFINE rec == [op |-> IF act = "none" THEN "activate"
                                ELSE IF m = act THEN "flag" ELSE "switch",
                         mode |-> m, hash |-> pub, inline |-> i]
      <3>3. rec \in CallRec /\ rec.op \notin Reviews
        BY <3>2 DEF CallRec, Reviews
      <3> QED
        BY <2>1, <3>1, <3>3 DEF BeginActivate
    <2>2. CASE BeginDeactivate(a)
      <3> DEFINE rec == [op |-> "remove"]
      <3>1. rec \in CallRec /\ rec.op \notin Reviews
        BY DEF CallRec, Reviews
      <3> QED
        BY <2>2, <3>1 DEF BeginDeactivate
    <2> QED
      BY <2>1, <2>2
  <1>2. CallStep
    BY <1>1, CallMoves DEF Inv, Core, Begin
  <1>3. Core'
    BY <1>1, <1>2, Stays DEF Inv, Begin
  <1>4. Rest'
    BY <1>1 DEF Inv, Rest, Begin
  <1> QED
    BY <1>3, <1>4 DEF Inv

LEMMA WithSkillIsContents ==
  ASSUME NEW c \in Contents, NEW r, r.hash \in Hashes PROVE WithSkill(c, r) \in Contents
  <1>1. [hash |-> r.hash, inline |-> r.inline = "yes"] \in Refs
    BY SubAgentsAssumption DEF Refs, Hashes
  <1>2. [c EXCEPT !.fol = [hash |-> r.hash, inline |-> r.inline = "yes"]] \in Contents
    BY <1>1 DEF Contents
  <1>3. [c EXCEPT !.fol.inline = (r.inline = "yes")] \in Contents
    BY DEF Contents, Refs
  <1> QED
    BY <1>2, <1>3 DEF WithSkill

LEMMA AddSkillToConfigInv ==
  ASSUME Inv, NEW a \in Calls, AddSkillToConfig(a) PROVE Inv'
  <1> DEFINE c == WithSkill(ver[cur].has, call[a])
  <1>1. call[a].hash \in Hashes /\ call[a].mode \in {"pinned", "following"}
    BY DEF AddSkillToConfig, Inv, Core, CallsInv, CallRec, NoCall
  <1>2. c \in Contents
    BY <1>1, Rows, WithSkillIsContents DEF Inv
  <1>3. CallStep
    <2> DEFINE rec == [op |-> "insert", mode |-> call[a].mode]
    <2>1. rec \in CallRec /\ rec.op \notin Reviews
      BY <1>1 DEF CallRec, Reviews
    <2>2. call' = [call EXCEPT ![a] = rec] \/ Ends(a)
      BY DEF AddSkillToConfig
    <2> HIDE DEF rec
    <2> QED
      BY <2>1, <2>2, CallMoves, CallEnds DEF Inv, Core, AddSkillToConfig
  <1>4. public \in BOOLEAN
    BY DEF Inv, Rest
  <1>5. UNCHANGED <<ver, cur, def>> \/ Saved(c, public)
    BY DEF AddSkillToConfig
  <1>6. Core'
    <2> HIDE DEF c
    <2> QED
      BY <1>2, <1>3, <1>4, <1>5, Stays, SavedAdds DEF Inv
  <1>7. Rest'
    BY DEF Inv, Rest, AddSkillToConfig
  <1> QED
    BY <1>6, <1>7 DEF Inv

LEMMA InsertActivationInv ==
  ASSUME Inv, NEW a \in Calls, InsertActivation(a) \/ DeleteActivation(a) PROVE Inv'
  <1>1. CallStep
    BY CallEnds DEF Inv, Core, InsertActivation, DeleteActivation
  <1>2. Core'
    BY <1>1, Stays DEF Inv, InsertActivation, DeleteActivation
  <1>3. Rest'
    <2>1. call[a].op = "insert" => call[a].mode \in {"pinned", "following"}
      BY DEF Inv, Core, CallsInv, CallRec, NoCall
    <2> QED
      BY <2>1 DEF Inv, Rest, InsertActivation, DeleteActivation
  <1> QED
    BY <1>2, <1>3 DEF Inv

LEMMA SwitchModeInv == ASSUME Inv, NEW a \in Calls, SwitchMode(a) PROVE Inv'
  <1> DEFINE r       == call[a]
             follows == r.op = "switch" /\ r.mode = "following"
             bumps   == follows /\ Bumps(r.hash)
             c       == IF bumps THEN Bumped(r.hash) ELSE ver[cur].has
             d       == IF r.inline = "keep" THEN c ELSE WithSkill(c, r)
  <1>1. r.hash \in Hashes /\ r.mode \in {"pinned", "following"}
    BY DEF SwitchMode, Inv, Core, CallsInv, CallRec, NoCall
  <1>2. CallStep
    BY CallEnds DEF Inv, Core, SwitchMode
  <1>3. \/ UNCHANGED <<ver, cur, def>>
        \/ /\ ~(follows /\ BumpRaises(r.hash))
           /\ \/ bumps /\ d = c /\ Written(d, "copy")
              \/ ~bumps /\ Saved(d, public)
              \/ bumps /\ BumpedAndSaved(r.hash, d)
    BY DEF SwitchMode
  <1>4. public \in BOOLEAN
    BY DEF Inv, Rest
  <1>5. Core'
    <2>1. CASE UNCHANGED <<ver, cur, def>>
      BY <1>2, <2>1, Stays DEF Inv
    <2>2. CASE bumps /\ ~BumpRaises(r.hash) /\ d = c /\ Written(d, "copy")
      <3>1. d = Bumped(r.hash) /\ Bumps(r.hash)
        BY <2>2
      <3> HIDE DEF d
      <3> QED
        BY <1>1, <1>2, <2>2, <3>1, BumpedIsSound, WrittenAdds DEF Inv
    <2>3. CASE ~bumps /\ Saved(d, public)
      <3>1. d \in Contents
        BY <1>1, <2>3, Rows, WithSkillIsContents DEF Inv
      <3> HIDE DEF d
      <3> QED
        BY <1>2, <1>4, <2>3, <3>1, SavedAdds DEF Inv
    <2>4. CASE bumps /\ ~BumpRaises(r.hash) /\ BumpedAndSaved(r.hash, d)
      <3>1. d \in Contents /\ Bumps(r.hash)
        BY <1>1, <2>4, BumpedIsSound, WithSkillIsContents DEF Inv
      <3> HIDE DEF d
      <3> QED
        BY <1>1, <1>2, <2>4, <3>1, BumpedAndSavedAdds DEF Inv
    <2> QED
      BY <1>3, <2>1, <2>2, <2>3, <2>4
  <1>6. Rest'
    BY <1>1 DEF Inv, Rest, SwitchMode
  <1> QED
    BY <1>5, <1>6 DEF Inv

LEMMA RemoveSkillFromConfigInv ==
  ASSUME Inv, NEW a \in Calls, RemoveSkillFromConfig(a) PROVE Inv'
  <1> DEFINE c == [ver[cur].has EXCEPT !.fol = NoRef]
  <1>1. c \in Contents
    BY Rows, SomeRefs DEF Inv, Contents
  <1>2. CallStep
    <2> DEFINE rec == [op |-> "forget"]
    <2>1. rec \in CallRec /\ rec.op \notin Reviews
      BY DEF CallRec, Reviews
    <2>2. call[a] = [op |-> "remove"]
      BY DEF RemoveSkillFromConfig, Inv, Core, CallsInv, CallRec, NoCall
    <2>3. call' = [call EXCEPT ![a] = rec] \/ Ends(a)
      BY <2>2 DEF RemoveSkillFromConfig, Inv, Core, CallsInv
    <2> HIDE DEF rec
    <2> QED
      BY <2>1, <2>3, CallMoves, CallEnds DEF Inv, Core, RemoveSkillFromConfig
  <1>3. public \in BOOLEAN
    BY DEF Inv, Rest
  <1>4. UNCHANGED <<ver, cur, def>> \/ Saved(c, public)
    BY DEF RemoveSkillFromConfig
  <1>5. Core'
    <2> HIDE DEF c
    <2> QED
      BY <1>1, <1>2, <1>3, <1>4, Stays, SavedAdds DEF Inv
  <1>6. Rest'
    BY DEF Inv, Rest, RemoveSkillFromConfig
  <1> QED
    BY <1>5, <1>6 DEF Inv

-----------------------------------------------------------------------------
(* Reviews *)

LEMMA BeginReviewInv == ASSUME Inv, NEW a \in Calls, BeginReview(a) PROVE Inv'
  <1>1. PICK v \in Versions, op \in Reviews :
          /\ \/ op = "submit" /\ Submittable(v)
             \/ op = "approve" /\ Decidable(v)
             \/ op = "reject" /\ Decidable(v) /\ v \in Discardable
             \/ Deletable(v) /\ v \in Discardable /\ op = IF v = cur THEN "deleteCurrent" ELSE "delete"
          /\ Begin(a, [op |-> op, ver |-> v])
    BY DEF BeginReview
  <1> DEFINE rec == [op |-> op, ver |-> v]
  <1>2. rec \in CallRec /\ rec.op = op /\ rec.ver = v
    BY DEF CallRec, Reviews
  <1>3. /\ call' \in [Calls -> CallRec]
        /\ \A b \in Calls : call'[b] = IF b = a THEN rec ELSE call[b]
    BY <1>1, <1>2 DEF Inv, Core, CallsInv, Begin
  <1>4. /\ Exists(v)
        /\ op = "submit" => Submittable(v)
        /\ op \in {"approve", "reject"} => Decidable(v)
    BY <1>1 DEF Submittable, Decidable, Deletable, Exists, NoVersion
  <1> HIDE DEF rec
  <1>5. UNCHANGED <<kind, bound, public, ver, cur, def, row, pub, act, err>>
    BY <1>1 DEF Begin
  <1>6. raced' = (raced \/ \E b \in Calls : call[b].op \in Reviews)
    BY DEF BeginReview
  <1>7. VersionsInv' /\ ReviewedInv' /\ AutomaticFits' /\ Rest'
    BY <1>5 DEF Inv, Core, VersionsInv, ReviewedInv, AutomaticFits, Rest, Exists, LetRun,
                Fits, Inlined, Counted
  <1>8. CallsInv'
    BY <1>3, <1>6 DEF CallsInv, Inv, Core
  <1>9. ReadInv'
    BY <1>2, <1>3, <1>4, <1>5 DEF Inv, Core, ReadInv, Exists
  <1>10. LoneInv'
    <2> SUFFICES ASSUME ~raced' PROVE Lone'
      BY DEF LoneInv
    <2>1. ~raced /\ \A b \in Calls : call[b].op \notin Reviews
      BY <1>6
    <2>2. def' # 0 => ver'[def'].status = "approved"
      BY <1>5, <2>1 DEF Inv, Core, LoneInv, Lone
    <2>3. \A b \in Calls : call'[b].op \in Reviews => b = a
      BY <1>3, <2>1
    <2>4. \A b \in Calls :
            /\ call'[b].op = "submit" => ver'[call'[b].ver].status \in {"draft", "rejected"}
            /\ call'[b].op \in {"approve", "reject"} => ver'[call'[b].ver].status = "pending"
      BY <1>2, <1>3, <1>4, <1>5, <2>1 DEF Submittable, Decidable, Reviews
    <2> QED
      BY <2>2, <2>3, <2>4 DEF Lone, Submittable, Decidable
  <1> QED
    BY <1>7, <1>8, <1>9, <1>10 DEF Inv, Core

\* A request under way ends, and rewrites the row it read.
LEMMA Decides ==
  ASSUME Core, NEW a \in Calls, call[a].op \in Reviews, Ends(a), raced' = raced,
         NEW v \in Versions, v = call[a].ver, NEW r \in VersionRow,
         ver' = [ver EXCEPT ![v] = r], r.has = ver[v].has, r.by \in {ver[v].by, "person"},
         r.status = "approved" => ver[v].status = "approved" \/ r.by = "person",
         cur' \in Versions, ver[cur'] # NoVersion,
         def' = def \/ (def' = v /\ r.by = "person"),
         ~raced => (def' # 0 => ver'[def'].status = "approved")
  PROVE  Core'
  <1>1. PICK t : t = [ver EXCEPT ![v] = r]
    OBVIOUS
  <1>2. /\ ver' = t
        /\ \A w \in Versions : t[w] = IF w = v THEN r ELSE ver[w]
        /\ t \in [Versions -> VersionRow \cup {NoVersion}]
    BY <1>1 DEF Core, VersionsInv
  <1>3. r # NoVersion
    BY DEF VersionRow, NoVersion
  <1>4. def # 0 => def \in Versions /\ Exists(def)
    BY Rows
  <1>5. Exists(v)
    BY DEF Core, ReadInv
  <1>6. \A w \in Versions : Exists(w) <=> t[w] # NoVersion
    BY <1>2, <1>3, <1>5 DEF Exists
  <1>7. Kept
    BY <1>2, <1>6 DEF Kept
  <1>8. /\ \A p : LetRun(p) =>
             \E w \in Versions : /\ t[w] # NoVersion /\ t[w].by \in {"rules", "person"}
                                 /\ t[w].has.prompt = p
        /\ \A c : Excused(c) =>
             \E w \in Versions : /\ t[w] # NoVersion /\ t[w].by = "person"
                                 /\ Inlined(t[w].has) = Inlined(c)
    BY <1>2, <1>7, Remembered
  <1>9. VersionsInv'
    BY <1>2, <1>4, <1>5, <1>6 DEF Core, VersionsInv, Exists, Versions
  <1>10. ReviewedInv'
    <2>1. \A w \in Versions : t[w] # NoVersion /\ t[w].status = "approved" => t[w].by # "none"
      BY <1>2, <1>5, <1>6 DEF Core, ReviewedInv
    <2>2. ASSUME NEW w \in Versions, t[w] # NoVersion, t[w].by # "none"
          PROVE  \E u \in Versions : /\ t[u] # NoVersion /\ t[u].by \in {"rules", "person"}
                                     /\ t[u].has.prompt = t[w].has.prompt
      <3>1. CASE t[w].by = "person"
        BY <2>2, <3>1
      <3>2. CASE t[w].by # "person"
        <4>1. Exists(w) /\ ver[w].by # "none" /\ t[w].has = ver[w].has
          BY <1>2, <1>6, <2>2, <3>2
        <4> QED
          BY <1>8, <4>1 DEF Core, ReviewedInv
      <3> QED
        BY <3>1, <3>2
    <2>3. def' # 0 => t[def'].by # "none"
      BY <1>2, <1>4 DEF Core, ReviewedInv
    <2>4. ver' = t
      BY <1>2
    <2>5. \A w \in Versions : Exists(w)' => t[w] # NoVersion
      BY <2>4 DEF Exists
    <2>6. (\A w \in Versions : Exists(w) /\ ver[w].status = "approved" => ver[w].by # "none")'
      BY <2>1, <2>4, <2>5
    <2>7. (\A w \in Versions : Exists(w) /\ ver[w].by # "none" => LetRun(ver[w].has.prompt))'
      <3> SUFFICES ASSUME NEW w \in Versions, Exists(w)', ver'[w].by # "none"
                   PROVE  LetRun(ver[w].has.prompt)'
        OBVIOUS
      <3>1. t[w] # NoVersion /\ t[w].by # "none"
        BY <2>4, <2>5
      <3>2. PICK u \in Versions : /\ t[u] # NoVersion /\ t[u].by \in {"rules", "person"}
                                  /\ t[u].has.prompt = t[w].has.prompt
        BY <2>2, <3>1
      <3>3. /\ ver'[u] # NoVersion /\ ver'[u].by \in {"rules", "person"}
            /\ ver'[u].has.prompt = ver'[w].has.prompt
        BY <2>4, <3>2
      <3> QED
        BY <3>3 DEF LetRun, Exists
    <2>8. (def # 0 => ver[def].by # "none")'
      BY <2>3, <2>4
    <2> QED
      BY <2>6, <2>7, <2>8 DEF ReviewedInv
  <1>11. AutomaticFits'
    <2>1. ASSUME NEW w \in Versions, t[w] # NoVersion, t[w].by \in {"rules", "copy"}
          PROVE  \/ Fits(t[w].has)
                 \/ \E u \in Versions : /\ t[u] # NoVersion /\ t[u].by = "person"
                                        /\ Inlined(t[u].has) = Inlined(t[w].has)
      <3>1. Exists(w) /\ ver[w].by = t[w].by /\ t[w].has = ver[w].has
        BY <1>2, <1>6, <2>1
      <3>2. Fits(t[w].has) \/ Excused(t[w].has)
        BY <2>1, <3>1 DEF Core, AutomaticFits, Excused
      <3> QED
        BY <1>8, <3>2
    <2> QED
      BY <1>2, <2>1 DEF AutomaticFits, Exists, Fits, Inlined, Counted
  <1>12. /\ call' \in [Calls -> CallRec]
         /\ \A b \in Calls : call'[b] = IF b = a THEN NoCall ELSE call[b]
    BY DEF Ends, Core, CallsInv, CallRec
  <1>13. CallsInv'
    BY <1>12 DEF CallsInv, Core
  <1>14. NoCall.op \notin Reviews
    BY DEF NoCall, Reviews
  <1>15. ReadInv'
    <2> SUFFICES ASSUME NEW b \in Calls, call'[b].op \in Reviews
                 PROVE  ver'[call'[b].ver] # NoVersion
      BY DEF ReadInv, Exists
    <2>1. call'[b] = call[b] /\ call[b].op \in Reviews
      BY <1>12, <1>14
    <2>2. call[b].ver \in Versions /\ Exists(call[b].ver)
      BY <2>1 DEF Core, CallsInv, CallRec, NoCall, Reviews, ReadInv
    <2> QED
      BY <1>2, <1>6, <2>1, <2>2
  <1>16. LoneInv'
    <2> SUFFICES ASSUME ~raced PROVE Lone'
      BY DEF LoneInv
    <2>1. \A b \in Calls : call'[b].op \notin Reviews
      BY <1>12, <1>14 DEF Core, LoneInv, Lone
    <2> QED
      BY <2>1 DEF Lone, Reviews
  <1> QED
    BY <1>9, <1>10, <1>11, <1>13, <1>15, <1>16 DEF Core

\* What a request under way knows of the version it read.
LEMMA Read ==
  ASSUME Inv, NEW a \in Calls, call[a].op \in Reviews
  PROVE  /\ call[a].ver \in Versions /\ ver[call[a].ver] \in VersionRow
         /\ cur \in Versions /\ ver[cur] # NoVersion
         /\ ~raced /\ def # 0 => def \in Versions /\ ver[def].status = "approved"
  <1>1. call[a].ver \in Versions /\ Exists(call[a].ver)
    BY DEF Inv, Core, CallsInv, CallRec, NoCall, Reviews, ReadInv
  <1> QED
    BY <1>1, Rows, Holds DEF Inv, Core, LoneInv, Lone, Exists

LEMMA SubmitInv == ASSUME Inv, NEW a \in Calls, Submit(a) \/ Reject(a) PROVE Inv'
  <1> DEFINE v == call[a].ver
             st == IF call[a].op = "submit" THEN "pending" ELSE "rejected"
             r == [ver[v] EXCEPT !.status = st]
  <1>1. call[a].op \in {"submit", "reject"} /\ call[a].op \in Reviews
    BY DEF Submit, Reject, Reviews
  <1>2. v \in Versions /\ ver[v] \in VersionRow
    BY <1>1, Read
  <1>3. ver' = [ver EXCEPT ![v] = r]
    BY DEF Submit, Reject
  <1>4. r \in VersionRow /\ r.has = ver[v].has /\ r.by = ver[v].by /\ r.status # "approved"
    BY <1>2 DEF VersionRow, Statuses
  <1>5. UNCHANGED <<cur, def, raced>> /\ Ends(a)
    BY DEF Submit, Reject
  <1>6. ~raced /\ def # 0 => ver'[def].status = "approved"
    <2> SUFFICES ASSUME ~raced, def # 0 PROVE ver'[def].status = "approved"
      OBVIOUS
    <2>1. def \in Versions /\ ver[def].status = "approved"
      BY <1>1, Read
    <2>2. ver[v].status # "approved"
      BY <1>1 DEF Inv, Core, LoneInv, Lone, Submittable, Decidable
    <2> QED
      BY <1>2, <1>3, <2>1, <2>2 DEF Inv, Core, VersionsInv
  <1>7. cur \in Versions /\ ver[cur] # NoVersion
    BY <1>1, Read
  <1>8. Core'
    <2> HIDE DEF r
    <2> QED
      BY <1>1, <1>2, <1>3, <1>4, <1>5, <1>6, <1>7, Decides DEF Inv
  <1>9. Rest'
    BY DEF Inv, Rest, Submit, Reject
  <1> QED
    BY <1>8, <1>9 DEF Inv

LEMMA ApproveInv == ASSUME Inv, NEW a \in Calls, Approve(a) PROVE Inv'
  <1> DEFINE v == call[a].ver
             r == [ver[v] EXCEPT !.status = "approved", !.by = "person"]
  <1>1. call[a].op \in Reviews
    BY DEF Approve, Reviews
  <1>2. v \in Versions /\ ver[v] \in VersionRow
    BY <1>1, Read
  <1>3. ver' = [ver EXCEPT ![v] = r]
    BY DEF Approve
  <1>4. r \in VersionRow /\ r.has = ver[v].has /\ r.by = "person" /\ r.status = "approved"
    BY <1>2 DEF VersionRow, Statuses
  <1>5. UNCHANGED <<cur, raced>> /\ Ends(a) /\ def' = v
    BY DEF Approve
  <1>7. ver'[def'].status = "approved"
    BY <1>2, <1>3, <1>4, <1>5 DEF Inv, Core, VersionsInv
  <1>8. cur \in Versions /\ ver[cur] # NoVersion
    BY <1>1, Read
  <1>9. Core'
    <2> HIDE DEF r
    <2> QED
      BY <1>1, <1>2, <1>3, <1>4, <1>5, <1>7, <1>8, Decides DEF Inv
  <1>10. Rest'
    BY DEF Inv, Rest, Approve
  <1> QED
    BY <1>9, <1>10 DEF Inv

LEMMA DeleteVersionInv == ASSUME Inv, NEW a \in Calls, DeleteVersion(a) PROVE Inv'
  <1> DEFINE v == call[a].ver
             r == [ver[v] EXCEPT !.gone = TRUE]
  <1>1. call[a].op \in Reviews
    BY DEF DeleteVersion, Reviews
  <1>2. /\ v \in Versions /\ ver[v] \in VersionRow
        /\ cur \in Versions /\ ver[cur] # NoVersion
    BY <1>1, Read
  <1>3. UNCHANGED <<def, raced>> /\ Ends(a)
    BY DEF DeleteVersion
  <1>4. \/ UNCHANGED <<ver, cur>>
        \/ /\ ver' = [ver EXCEPT ![v] = r]
           /\ cur' \in Versions /\ ver[cur'] # NoVersion
    BY <1>2 DEF DeleteVersion, Exists
  <1>5. r \in VersionRow /\ r.has = ver[v].has /\ r.by = ver[v].by
          /\ r.status = ver[v].status
    BY <1>2 DEF VersionRow
  <1>6. CASE UNCHANGED <<ver, cur>>
    <2>1. CallStep
      BY <1>3, CallEnds DEF Inv, Core
    <2> QED
      BY <1>3, <1>6, <2>1, Stays DEF Inv, Rest, DeleteVersion
  <1>7. CASE /\ ver' = [ver EXCEPT ![v] = r]
             /\ cur' \in Versions /\ ver[cur'] # NoVersion
    <2>1. ~raced /\ def # 0 => ver'[def].status = "approved"
      <3> SUFFICES ASSUME ~raced, def # 0 PROVE ver'[def].status = "approved"
        OBVIOUS
      <3>1. def \in Versions /\ ver[def].status = "approved"
        BY <1>1, Read
      <3> QED
        BY <1>2, <1>5, <1>7, <3>1 DEF Inv, Core, VersionsInv
    <2>3. Core'
      <3> HIDE DEF r
      <3> QED
        BY <1>1, <1>2, <1>3, <1>5, <1>7, <2>1, Decides DEF Inv
    <2>4. Rest'
      BY DEF Inv, Rest, DeleteVersion
    <2> QED
      BY <2>3, <2>4 DEF Inv
  <1> QED
    BY <1>4, <1>6, <1>7

-----------------------------------------------------------------------------
(* The theorems *)

LEMMA InitInv == Init => Inv
  <1> SUFFICES ASSUME Init PROVE Inv
    OBVIOUS
  <1> DEFINE First == [prompt : FirstPrompts, own : [hash : FirstSkills, inline : OwnFlags],
                       fol : {s \in [hash : FirstPins, inline : FirstFlags] :
                                s.hash = 0 => s = NoRef}]
  <1>1. PICK c \in First :
          /\ ver = [v \in Versions |->
                      IF v = 1 THEN NewRow(c, ByRules(c, public)) ELSE NoVersion]
          /\ def = (IF Blocked(c, public) THEN 0 ELSE 1)
          /\ row = c.own.hash
    BY DEF Init
  <1>2. c \in Contents /\ c.own.hash \in Hashes
    <2>1. FirstPrompts \subseteq Prompts /\ FirstSkills \subseteq Hashes
      BY SubAgentsAssumption DEF Prompts, Hashes
    <2>2. /\ [hash : FirstSkills, inline : OwnFlags] \subseteq Refs
          /\ {s \in [hash : FirstPins, inline : FirstFlags] : s.hash = 0 => s = NoRef}
               \subseteq Refs
      <3>1. /\ FirstSkills \subseteq 0..MaxSkill /\ FirstPins \subseteq 0..MaxSkill
            /\ OwnFlags \subseteq BOOLEAN /\ FirstFlags \subseteq BOOLEAN
        BY SubAgentsAssumption
      <3>2. /\ [hash : FirstSkills, inline : OwnFlags] \subseteq Refs
            /\ [hash : FirstPins, inline : FirstFlags] \subseteq Refs
        BY <3>1 DEF Refs
      <3> QED
        BY <3>2
    <2>3. /\ c.prompt \in FirstPrompts
          /\ c.own \in [hash : FirstSkills, inline : OwnFlags]
          /\ c.fol \in {s \in [hash : FirstPins, inline : FirstFlags] : s.hash = 0 => s = NoRef}
          /\ c = [prompt |-> c.prompt, own |-> c.own, fol |-> c.fol]
      OBVIOUS
    <2>4. c.prompt \in Prompts /\ c.own \in Refs /\ c.fol \in Refs
      BY <2>1, <2>2, <2>3
    <2> HIDE DEF First
    <2>5. c \in Contents
      BY <2>3, <2>4 DEF Contents
    <2> QED
      BY <2>1, <2>3, <2>5
  <1> HIDE DEF First
  <1> DEFINE by == ByRules(c, public)
             r == NewRow(c, by)
  <1>3. /\ by \in {"none", "rules"} /\ (by = "rules" => Fits(c))
        /\ by = "none" <=> Blocked(c, public)
    BY DEF ByRules, Blocked
  <1>4. 1 \in Versions /\ 1 \in Hashes /\ 0 \notin Versions /\ 1 \in 0..MaxVersions
        /\ 0 \in 0..MaxVersions
    BY SubAgentsAssumption DEF Versions, Hashes
  <1>5. /\ r \in VersionRow /\ r # NoVersion /\ r.has = c /\ r.by = by
        /\ r.status = IF by = "none" THEN "draft" ELSE "approved"
    BY <1>2, <1>3 DEF NewRow, VersionRow, Statuses, NoVersion
  <1>6. /\ ver \in [Versions -> VersionRow \cup {NoVersion}]
        /\ \A v \in Versions : ver[v] = IF v = 1 THEN r ELSE NoVersion
    BY <1>1, <1>5
  <1>7. def = (IF by = "none" THEN 0 ELSE 1) /\ cur = 1
    BY <1>1, <1>3 DEF Init
  <1> HIDE DEF r, by
  <1>8. VersionsInv
    BY <1>3, <1>4, <1>5, <1>6, <1>7 DEF VersionsInv, Exists
  <1>9. ReviewedInv
    BY <1>3, <1>4, <1>5, <1>6, <1>7 DEF ReviewedInv, Exists, LetRun
  <1>10. AutomaticFits
    BY <1>3, <1>5, <1>6 DEF AutomaticFits, Exists
  <1>11. /\ call \in [Calls -> CallRec] /\ raced = FALSE
         /\ \A a \in Calls : call[a].op = "none"
    BY DEF Init, CallRec, NoCall
  <1>12. CallsInv /\ ReadInv
    BY <1>11 DEF CallsInv, ReadInv, Reviews
  <1>13. LoneInv
    BY <1>4, <1>5, <1>6, <1>7, <1>11 DEF LoneInv, Lone, Reviews
  <1>14. Rest
    BY <1>1, <1>2, <1>4 DEF Init, Rest
  <1> QED
    BY <1>8, <1>9, <1>10, <1>12, <1>13, <1>14 DEF Inv, Core

LEMMA NextInv == Inv /\ [Next]_vars => Inv'
  <1> SUFFICES ASSUME Inv, [Next]_vars PROVE Inv'
    OBVIOUS
  <1>1. CASE UNCHANGED vars
    <2>1. CallStep
      BY <1>1, CallStays DEF Inv, Core, vars
    <2> QED
      BY <1>1, <2>1, Stays DEF Inv, Rest, vars
  <1>2. CASE UpdateSubAgent \/ SelfUpdate \/ SetPublic \/ SetDefaultVersion \/ RevertToVersion
               \/ PublishManagedVersion \/ DeleteBinding \/ EditOwnSkill \/ PublisherWrites
    BY <1>2, UpdateSubAgentInv, SelfUpdateInv, SetPublicInv, SetDefaultVersionInv, RevertToVersionInv,
       PublishManagedVersionInv, EditOwnSkillInv, PublisherWritesInv
  <1>3. ASSUME NEW a \in Calls,
               \/ BeginActivate(a) \/ AddSkillToConfig(a) \/ InsertActivation(a)
               \/ SwitchMode(a) \/ BeginDeactivate(a) \/ RemoveSkillFromConfig(a)
               \/ DeleteActivation(a)
        PROVE  Inv'
    BY <1>3, BeginActivateInv, AddSkillToConfigInv, InsertActivationInv, SwitchModeInv,
       RemoveSkillFromConfigInv
  <1>4. ASSUME NEW a \in Calls,
               BeginReview(a) \/ Submit(a) \/ Approve(a) \/ Reject(a) \/ DeleteVersion(a)
        PROVE  Inv'
    BY <1>4, BeginReviewInv, SubmitInv, ApproveInv, DeleteVersionInv
  <1> QED
    BY <1>1, <1>2, <1>3, <1>4 DEF Next

LEMMA Invariance == Spec => []Inv
  BY InitInv, NextInv, PTL DEF Spec

\* Every state is well typed: in particular the current version and the
\* default always are versions that exist.
THEOREM TypeCorrect == Spec => []TypeOK
  <1>1. Inv => TypeOK
    BY DEF Inv, Core, VersionsInv, CallsInv, Rest, TypeOK, Exists
  <1> QED
    BY <1>1, Invariance, PTL

\* Whatever bumps, saves, reverts, syncs and reviews follow one another, however
\* many at once, the prompt that runs is one that was let run.
THEOREM OnlyReviewedRuns == Spec => []NothingRunsUnreviewed
  <1>1. Inv => NothingRunsUnreviewed
    BY Rows DEF Inv, Core, ReviewedInv, NothingRunsUnreviewed
  <1> QED
    BY <1>1, Invariance, PTL

\* No version that was approved automatically, be it by the rules on a save or
\* by a bump, is past the limit, unless it runs with a text that a person let
\* past it: what a bump of a skill that is not inlined copies.
THEOREM LimitIsKept == Spec => []AutomaticFits
  <1>1. Inv => AutomaticFits
    BY DEF Inv, Core
  <1> QED
    BY <1>1, Invariance, PTL

\* The default is an approved version, as long as no two reviews, submissions
\* or deletions overlapped.
THEOREM DefaultStaysApproved == Spec => []DefaultIsApproved
  <1>1. Inv => DefaultIsApproved
    BY DEF Inv, Core, LoneInv, Lone, DefaultIsApproved
  <1> QED
    BY <1>1, Invariance, PTL

-----------------------------------------------------------------------------
\* A bump that does not raise leaves a default that has the content, or that
\* does not hold the skill.
LEMMA BumpReaches ==
  ASSUME Core, NEW h \in Hashes, ~BumpRaises(h), BumpFollowedSkill(h)
  PROVE  ver'[def'].has.fol.hash \in {0, h}
  <1>1. CASE ~Bumps(h)
    BY <1>1 DEF BumpFollowedSkill, Bumps, BumpBase
  <1>2. CASE Bumps(h)
    <2> DEFINE d == Bumped(h)
               r == NewRow(d, "copy")
    <2>1. d.fol.hash = h /\ r.has = d
      BY <1>2, BumpedIsSound DEF NewRow
    <2>2. PICK v \in Versions : ver' = [ver EXCEPT ![v] = r] /\ def' = v
      BY <1>2 DEF BumpFollowedSkill, Written
    <2> HIDE DEF r, d
    <2>3. ver'[v] = r
      BY <2>2 DEF Core, VersionsInv
    <2> QED
      BY <2>1, <2>2, <2>3
  <1> QED
    BY <1>1, <1>2

\* The version that runs has the publisher's new content, does not hold the
\* skill, or the failure of the bump is recorded.
THEOREM FollowersAreTold == Spec => NoFollowerLeftBehind
  <1>1. ASSUME Inv, Next, pub' # pub, act = "following"
        PROVE  err' \/ ver'[def'].has.fol.hash \in {0, pub'}
    <2>1. PublisherWrites
      BY <1>1 DEF Next, UpdateSubAgent, SelfUpdate, SetPublic, SetDefaultVersion, RevertToVersion,
                  PublishManagedVersion, DeleteBinding, EditOwnSkill, BeginActivate,
                  AddSkillToConfig, InsertActivation, SwitchMode, BeginDeactivate,
                  RemoveSkillFromConfig, DeleteActivation, BeginReview, Submit, Approve,
                  Reject, DeleteVersion, Begin
    <2>2. PICK h \in Hashes :
            /\ pub' = h
            /\ BumpRaises(h) => err'
            /\ ~BumpRaises(h) => BumpFollowedSkill(h)
      BY <1>1, <2>1 DEF PublisherWrites
    <2> QED
      BY <1>1, <2>2, BumpReaches DEF Inv
  <1>2. Inv /\ [Next]_vars =>
          [pub' # pub /\ act = "following"
             => err' \/ ver'[def'].has.fol.hash \in {0, pub'}]_vars
    BY <1>1
  <1> QED
    BY <1>2, Invariance, PTL DEF Spec, NoFollowerLeftBehind
=============================================================================
