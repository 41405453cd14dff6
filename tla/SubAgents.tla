------------------------------ MODULE SubAgents ------------------------------
(***************************************************************************)
(* The configuration versions of one sub-agent: who writes them, which one *)
(* runs (the approved default), and how they move when a skill they hold   *)
(* is edited, be it the agent's own or one it references from a publisher. *)
(*                                                                         *)
(* A text is modelled by its length, which is what the auto-approve limit  *)
(* is about; texts of the same length are not told apart.  A skill's text  *)
(* is its content hash; a version holds a skill with the flag that inlines *)
(* it, and only what is inlined counts toward the limit.  The prompt       *)
(* stands for the rest of a configuration, a host's mirrored skills        *)
(* included.                                                               *)
(***************************************************************************)
EXTENDS Naturals

CONSTANTS
  Calls,       \* requests that read the agent without its row lock, at once
  MaxPrompt, MaxSkill,  \* the longest prompt and the longest skill
  FirstPrompts, FirstSkills, FirstPins, FirstFlags,  \* what an agent may be created with
  OwnFlags,    \* the inline flags its own skill may be given
  NewPins,     \* the publisher's content a save may pin by itself
  Asked,       \* what an activation may ask of the flag
  Limit,       \* max_system_prompt_length
  MaxVersions, Discardable  \* bounds: versions, and which may be rejected or deleted

ASSUME SubAgentsAssumption ==
  /\ MaxPrompt \in Nat \ {0} /\ MaxSkill \in Nat \ {0}
  /\ Limit \in Nat /\ MaxVersions \in Nat \ {0} /\ Discardable \subseteq Nat
  /\ FirstPrompts \subseteq 1..MaxPrompt /\ FirstSkills \subseteq 1..MaxSkill
  /\ FirstPins \subseteq 0..MaxSkill
  /\ FirstFlags \subseteq BOOLEAN /\ OwnFlags \subseteq BOOLEAN
  /\ NewPins \subseteq 1..MaxSkill /\ Asked \subseteq {"keep", "yes", "no"}

Versions == 1..MaxVersions
Prompts  == 1..MaxPrompt
Hashes   == 1..MaxSkill

VARIABLES
  kind,      \* type: local or automated
  bound,     \* a host publishes the agent's definition
  public,    \* is_public
  ver,       \* sub_agent_config_versions
  cur, def,  \* current_version and default_version (0: none yet)
  row,       \* content_hash of the agent's own skill in skill_registry
  pub,       \* content_hash of the publisher's skill
  act,       \* the activation of the publisher's skill
  err,       \* its last_bump_error is set
  call,      \* the requests under way
  raced      \* history: two reviews, submissions or deletions overlapped

vars == <<kind, bound, public, ver, cur, def, row, pub, act, err, call, raced>>

\* A reference to a skill (hash 0: the version does not hold it), and a
\* version's prompt, own skill and skill of the publisher.
Refs     == [hash : 0..MaxSkill, inline : BOOLEAN]
NoRef    == [hash |-> 0, inline |-> FALSE]
Contents == [prompt : Prompts, own : Refs, fol : Refs]

Statuses   == {"draft", "pending", "approved", "rejected"}
NoVersion  == [status |-> "none"]
\* by is history, what let the version run: the rules, the version it is a
\* copy of but for one skill, or a person (or a host), if only once.
VersionRow == [status : Statuses, gone : BOOLEAN, has : Contents,
               by : {"none", "rules", "copy", "person"}]

NoCall  == [op |-> "none"]
CallRec == {NoCall}
  \cup [op : {"submit", "approve", "reject", "delete", "deleteCurrent"}, ver : Versions]
  \cup [op : {"activate", "switch", "flag"}, mode : {"pinned", "following"}, hash : Hashes,
         inline : Asked]
  \cup [op : {"insert"}, mode : {"pinned", "following"}]
  \cup [op : {"remove", "forget"}]
Reviews == {"submit", "approve", "reject", "delete", "deleteCurrent"}

TypeOK ==
  /\ kind \in {"local", "automated"} /\ bound \in BOOLEAN /\ public \in BOOLEAN
  /\ ver \in [Versions -> VersionRow \cup {NoVersion}]
  /\ cur \in Versions /\ def \in 0..MaxVersions
  /\ ver[cur] # NoVersion /\ (def # 0 => ver[def] # NoVersion)
  /\ row \in Hashes /\ pub \in Hashes
  /\ act \in {"none", "pinned", "following"} /\ err \in BOOLEAN
  /\ call \in [Calls -> CallRec]
  /\ raced \in BOOLEAN

-----------------------------------------------------------------------------
(* Versions and the rules *)

Exists(v) == ver[v] # NoVersion
\* MAX(version) + 1: deleted versions keep their numbers.
NextVersion(v) == ~Exists(v) /\ \A w \in Versions : Exists(w) <=> w < v

\* _inlined_skills_length counts a skill only when it is inlined.
Counted(s) == IF s.inline THEN s.hash ELSE 0
Fits(c)    == c.prompt + Counted(c.own) + Counted(c.fol) <= Limit

\* _auto_approve_blockers
Blocked(c, p) == ~Fits(c) \/ p

\* _validate_automated_constraints raises.
Refused(c, p) == kind = "automated" /\ Blocked(c, p)

\* A new version: a draft, or approved.
NewRow(c, by) == [status |-> IF by = "none" THEN "draft" ELSE "approved",
                  gone |-> FALSE, has |-> c, by |-> by]
ByRules(c, p) == IF Blocked(c, p) THEN "none" ELSE "rules"

\* A sub-agent is created with one version, approved when the rules allow it;
\* its skill is written to the registry with it.  It may refer to the
\* publisher's, which it does not follow yet.
Init ==
  /\ kind \in {"local", "automated"} /\ public \in BOOLEAN /\ bound = FALSE
  /\ \E c \in [prompt : FirstPrompts,
              own : [hash : FirstSkills, inline : OwnFlags],
              fol : {s \in [hash : FirstPins, inline : FirstFlags] : s.hash = 0 => s = NoRef}] :
       /\ ~Refused(c, public)
       /\ ver = [v \in Versions |->
                   IF v = 1 THEN NewRow(c, ByRules(c, public)) ELSE NoVersion]
       /\ def = (IF Blocked(c, public) THEN 0 ELSE 1)
       /\ row = c.own.hash
  /\ cur = 1 /\ pub = 1 /\ act = "none" /\ err = FALSE
  /\ call = [c \in Calls |-> NoCall] /\ raced = FALSE

\* A new version becomes current, and the default when it is approved.
Written(c, by) ==
  \E v \in Versions :
    /\ NextVersion(v)
    /\ ver' = [ver EXCEPT ![v] = NewRow(c, by)]
    /\ cur' = v
    /\ def' = IF by = "none" THEN def ELSE v

\* The writing half of update_sub_agent: the version and, when nothing blocks
\* it, its approval.
Saved(c, p) == ~Refused(c, p) /\ Written(c, ByRules(c, p))

-----------------------------------------------------------------------------
(* Requests that hold the agent's row lock *)

\* What one save makes of a configuration: one of its parts is changed, or none.
Edits(c) == {[c EXCEPT !.prompt = p] : p \in Prompts}
              \cup {[c EXCEPT !.own = s] : s \in {NoRef} \cup [hash : Hashes, inline : OwnFlags]}
              \cup {[c EXCEPT !.fol = s] : s \in {NoRef} \cup [hash : NewPins, inline : BOOLEAN]}
              \cup {[c EXCEPT !.fol.inline = (c.fol.hash # 0 /\ ~c.fol.inline)]}

\* update_sub_agent builds on the current version.  A skill that comes as a
\* reference keeps its pin; one that comes with its text is written to its row.
\* A bound agent's prompt and skills are the host's.
UpdateSubAgent ==
  \E c \in Edits(ver[cur].has), p \in BOOLEAN :
    /\ bound => c = ver[cur].has
    /\ Saved(c, p)
    /\ public' = p
    /\ bound => row' = row
    /\ row' \in {IF c.own.hash = 0 THEN row ELSE c.own.hash} \cup
                (IF c.own.hash = ver[cur].has.own.hash THEN {row} ELSE {})
    /\ UNCHANGED <<kind, bound, pub, act, err, call, raced>>

\* self_update moves the agent's own pin after its tools edited the publisher's
\* skill.
SelfUpdate ==
  /\ act # "none" /\ ver[cur].has.fol.hash \notin {0, pub}
  /\ Saved([ver[cur].has EXCEPT !.fol.hash = pub], public)
  /\ UNCHANGED <<kind, bound, public, row, pub, act, err, call, raced>>

\* update_sub_agent with is_public alone writes no version and checks nothing.
SetPublic ==
  /\ public' = ~public
  /\ UNCHANGED <<kind, bound, ver, cur, def, row, pub, act, err, call, raced>>

\* _restore_own_skill_rows
Restored(c) == row' = IF c.own.hash # 0 THEN c.own.hash ELSE row

\* set_default_version asks for an approved version, deleted or not.
SetDefaultVersion ==
  /\ ~bound
  /\ \E v \in Versions :
       /\ Exists(v) /\ ver[v].status = "approved"
       /\ def' = v
       /\ Restored(ver[v].has)
  /\ UNCHANGED <<kind, bound, public, ver, cur, pub, act, err, call, raced>>

\* revert_to_version numbers its version current_version + 1, and fails when
\* there is one.
RevertToVersion ==
  /\ ~bound
  /\ \E v \in Versions :
       /\ Exists(v) /\ cur < MaxVersions /\ ~Exists(cur + 1)
       /\ ver' = [ver EXCEPT ![cur + 1] = NewRow(ver[v].has, "none")]
       /\ cur' = cur + 1
       /\ Restored(ver[v].has)
  /\ UNCHANGED <<kind, bound, public, def, pub, act, err, call, raced>>

\* sync_binding when the host's revision is new: approved on the spot.  Binding
\* a local agent starts with a sync.
PublishManagedVersion ==
  /\ kind = "local"
  /\ \E p \in Prompts : Written([prompt |-> p, own |-> NoRef, fol |-> NoRef], "person")
  /\ bound' = TRUE
  /\ UNCHANGED <<kind, public, row, pub, act, err, call, raced>>

DeleteBinding ==
  /\ bound /\ bound' = FALSE
  /\ UNCHANGED <<kind, public, ver, cur, def, row, pub, act, err, call, raced>>

\* Mutant: an edit builds on the current version.
Baseline_Current == cur

\* What runs; before anything was approved, the current version.
Baseline == IF def = 0 THEN cur ELSE def

\* bump_own_skill, from update_skill: an edit of the agent's own skill outside
\* a config save.
EditOwnSkill ==
  /\ ~bound
  /\ \E h \in Hashes \ {row} :
       LET b == ver[Baseline].has
           c == ver[cur].has
           edited == [b EXCEPT !.own.hash = h]
           by == IF def # 0 /\ ~Blocked(edited, public) THEN "copy"
                 ELSE ByRules(edited, public)
       IN  /\ row' = h
           /\ \/ \* the running version holds the skill
                 /\ b.own.hash \notin {0, h} /\ ~Refused(edited, public)
                 /\ Written(edited, by)
              \/ \* back to what runs: a current draft that pins other content is left
                 /\ b.own.hash = h
                 /\ cur' = IF c.own.hash \in {0, h} THEN cur ELSE Baseline
                 /\ UNCHANGED <<ver, def>>
              \/ \* only the current draft holds it: a draft again
                 /\ b.own.hash = 0 /\ cur # def /\ c.own.hash \notin {0, h}
                 /\ Written([c EXCEPT !.own.hash = h], "none")
              \/ \* no version to write
                 /\ b.own.hash = 0 /\ (cur = def \/ c.own.hash \in {0, h})
                 /\ UNCHANGED <<ver, cur, def>>
  /\ UNCHANGED <<kind, bound, public, pub, act, err, call, raced>>

-----------------------------------------------------------------------------
(* The publisher *)

\* Mutant: the bump builds on the current version.
BumpBase_Current == cur

\* Mutant: a bumped version may be as long as it gets.
BumpRaises_NoLimit(h) == def = 0 \/ bound

\* bump_followed_skill builds on the default.
BumpBase == def

\* Why it raises: nothing approved, a host's agent, or past the limit with a
\* skill that is inlined.
BumpRaises(h) ==
  \/ def = 0 \/ bound
  \/ LET c == ver[BumpBase].has IN
     c.fol.hash \notin {0, h} /\ c.fol.inline /\ ~Fits([c EXCEPT !.fol.hash = h])

Bumps(h)  == ver[BumpBase].has.fol.hash \notin {0, h}
Bumped(h) == [ver[BumpBase].has EXCEPT !.fol.hash = h]
BumpFollowedSkill(h) ==
  IF Bumps(h) THEN Written(Bumped(h), "copy") ELSE UNCHANGED <<ver, cur, def>>

\* The publisher writes its skill; bump_following_referrers runs in the same
\* transaction, and a bump that fails is recorded and skipped.
PublisherWrites ==
  /\ \E h \in Hashes \ {pub} :
       /\ pub' = h
       /\ IF act # "following" THEN UNCHANGED <<ver, cur, def, err>>
          ELSE IF BumpRaises(h) THEN err' = TRUE /\ UNCHANGED <<ver, cur, def>>
          ELSE err' = FALSE /\ BumpFollowedSkill(h)
  /\ UNCHANGED <<kind, bound, public, row, act, call, raced>>

-----------------------------------------------------------------------------
(* Activations.  What was read of the registry and of the activation is not *)
(* locked.                                                                  *)

Begin(a, rec) ==
  /\ call[a] = NoCall /\ call' = [call EXCEPT ![a] = rec]
  /\ UNCHANGED <<kind, bound, public, ver, cur, def, row, pub, act, err>>
Ends(a) == call' = [call EXCEPT ![a] = NoCall]

\* activate_with_outcome reads the registry entry and the activation.  A
\* host's agent neither follows a skill nor has its flag changed.
BeginActivate(a) ==
  /\ \E m \in {"pinned", "following"}, i \in Asked :
       /\ m = "following" \/ i # "keep" => ~bound
       /\ m # act \/ i # "keep"
       /\ Begin(a, [op |-> IF act = "none" THEN "activate" ELSE IF m = act THEN "flag" ELSE "switch",
                    mode |-> m, hash |-> pub, inline |-> i])
  /\ UNCHANGED raced

\* What add_skill_to_config makes of a configuration: the skill is added, or
\* its flag is changed.
WithSkill(c, r) ==
  IF c.fol.hash = 0 THEN [c EXCEPT !.fol = [hash |-> r.hash, inline |-> r.inline = "yes"]]
  ELSE IF r.inline = "keep" THEN c
  ELSE [c EXCEPT !.fol.inline = (r.inline = "yes")]

\* add_skill_to_config commits a version, unless the current one is as asked;
\* the request fails when that version is refused.
AddSkillToConfig(a) ==
  /\ call[a].op = "activate"
  /\ LET c == WithSkill(ver[cur].has, call[a]) IN
     \/ /\ c = ver[cur].has \/ ~Refused(c, public)
        /\ call' = [call EXCEPT ![a] = [op |-> "insert", mode |-> call[a].mode]]
        /\ IF c = ver[cur].has THEN UNCHANGED <<ver, cur, def>>
           ELSE Saved(c, public)
     \/ /\ c # ver[cur].has /\ Refused(c, public)
        /\ Ends(a) /\ UNCHANGED <<ver, cur, def>>
  /\ UNCHANGED <<kind, bound, public, row, pub, act, err, raced>>

\* The activation is inserted; a unique index refuses a second one.
InsertActivation(a) ==
  /\ call[a].op = "insert"
  /\ act' = IF act = "none" THEN call[a].mode ELSE act
  /\ Ends(a)
  /\ UNCHANGED <<kind, bound, public, ver, cur, def, row, pub, err, raced>>

\* A bump, and a save on top of it, in one transaction.
BumpedAndSaved(h, c) ==
  \E v \in Versions :
    /\ NextVersion(v) /\ v + 1 \in Versions
    /\ ver' = [ver EXCEPT ![v] = NewRow(Bumped(h), "copy"),
                          ![v + 1] = NewRow(c, ByRules(c, public))]
    /\ cur' = v + 1
    /\ def' = IF Blocked(c, public) THEN v ELSE v + 1

\* A switch to following bumps to the hash that was read; then the flag is
\* changed, when the request says so.  Whatever raises rolls all of it back.
SwitchMode(a) ==
  /\ call[a].op \in {"switch", "flag"}
  /\ LET r       == call[a]
         follows == r.op = "switch" /\ r.mode = "following"
         bumps   == follows /\ Bumps(r.hash)
         c       == IF bumps THEN Bumped(r.hash) ELSE ver[cur].has
         d       == IF r.inline = "keep" THEN c ELSE WithSkill(c, r)
     IN  IF (follows /\ BumpRaises(r.hash)) \/ (d # c /\ Refused(d, public))
         THEN UNCHANGED <<act, err, ver, cur, def>>
         ELSE /\ IF r.op = "flag" \/ act = "none" THEN UNCHANGED <<act, err>>
                 ELSE act' = r.mode /\ err' = FALSE
              /\ \/ ~bumps /\ d = c /\ UNCHANGED <<ver, cur, def>>
                 \/ bumps /\ d = c /\ Written(d, "copy")
                 \/ ~bumps /\ d # c /\ Saved(d, public)
                 \/ bumps /\ d # c /\ BumpedAndSaved(r.hash, d)
  /\ Ends(a)
  /\ UNCHANGED <<kind, bound, public, row, pub, raced>>

\* deactivate: the skill leaves the current version, then the activation goes.
BeginDeactivate(a) ==
  act # "none" /\ Begin(a, [op |-> "remove"]) /\ UNCHANGED raced

RemoveSkillFromConfig(a) ==
  /\ call[a].op = "remove"
  /\ LET c == [ver[cur].has EXCEPT !.fol = NoRef] IN
     \/ /\ c = ver[cur].has \/ ~Refused(c, public)
        /\ call' = [call EXCEPT ![a].op = "forget"]
        /\ IF c = ver[cur].has THEN UNCHANGED <<ver, cur, def>>
           ELSE Saved(c, public)
     \/ /\ c # ver[cur].has /\ Refused(c, public)
        /\ Ends(a) /\ UNCHANGED <<ver, cur, def>>
  /\ UNCHANGED <<kind, bound, public, row, pub, act, err, raced>>

DeleteActivation(a) ==
  /\ call[a].op = "forget"
  /\ act' = "none" /\ err' = FALSE
  /\ Ends(a)
  /\ UNCHANGED <<kind, bound, public, ver, cur, def, row, pub, raced>>

-----------------------------------------------------------------------------
(* Submissions, reviews and deletions: the status is read, then written      *)
(* whatever it has become.                                                   *)

\* Mutant: any version can be decided.
Decidable_Any(v) == Exists(v)

Submittable(v) == ver[v].status \in {"draft", "rejected"}
Decidable(v)   == ver[v].status = "pending"
HasPrevious(v) == \E w \in Versions : w < v /\ Exists(w) /\ ~ver[w].gone
Deletable(v)   == ~bound /\ Exists(v) /\ ver[v].status # "approved"
                    /\ (v = cur => HasPrevious(v))

BeginReview(a) ==
  /\ \E v \in Versions, op \in Reviews :
       /\ \/ op = "submit" /\ Submittable(v)
          \/ op = "approve" /\ Decidable(v)
          \/ op = "reject" /\ Decidable(v) /\ v \in Discardable
          \/ Deletable(v) /\ v \in Discardable /\ op = IF v = cur THEN "deleteCurrent" ELSE "delete"
       /\ Begin(a, [op |-> op, ver |-> v])
  /\ raced' = (raced \/ \E b \in Calls : call[b].op \in Reviews)

\* submit_version_for_approval
Submit(a) ==
  /\ call[a].op = "submit"
  /\ ver' = [ver EXCEPT ![call[a].ver].status = "pending"]
  /\ Ends(a)
  /\ UNCHANGED <<kind, bound, public, cur, def, row, pub, act, err, raced>>

\* approve_version: approved by a person, and the default.
Approve(a) ==
  /\ call[a].op = "approve"
  /\ LET v == call[a].ver IN
     /\ ver' = [ver EXCEPT ![v].status = "approved", ![v].by = "person"]
     /\ def' = v
  /\ Ends(a)
  /\ UNCHANGED <<kind, bound, public, cur, row, pub, act, err, raced>>

Reject(a) ==
  /\ call[a].op = "reject"
  /\ ver' = [ver EXCEPT ![call[a].ver].status = "rejected"]
  /\ Ends(a)
  /\ UNCHANGED <<kind, bound, public, cur, def, row, pub, act, err, raced>>

\* delete_version.  The current version falls back to the newest that is left;
\* when none is, current_version would be NULL and the deletion is rolled back.
DeleteVersion(a) ==
  /\ call[a].op \in {"delete", "deleteCurrent"}
  /\ LET v    == call[a].ver
         live == {w \in Versions \ {v} : Exists(w) /\ ~ver[w].gone}
     IN  \/ /\ call[a].op = "delete" \/ live # {}
            /\ ver' = [ver EXCEPT ![v].gone = TRUE]
            /\ IF call[a].op = "delete" THEN UNCHANGED cur
               ELSE \E w \in live : (\A u \in live : u <= w) /\ cur' = w
         \/ /\ call[a].op = "deleteCurrent" /\ live = {}
            /\ UNCHANGED <<ver, cur>>
  /\ Ends(a)
  /\ UNCHANGED <<kind, bound, public, def, row, pub, act, err, raced>>

Next ==
  \/ UpdateSubAgent \/ SelfUpdate \/ SetPublic \/ SetDefaultVersion \/ RevertToVersion
  \/ PublishManagedVersion \/ DeleteBinding \/ EditOwnSkill \/ PublisherWrites
  \/ \E a \in Calls :
       \/ BeginActivate(a) \/ AddSkillToConfig(a) \/ InsertActivation(a) \/ SwitchMode(a)
       \/ BeginDeactivate(a) \/ RemoveSkillFromConfig(a) \/ DeleteActivation(a)
       \/ BeginReview(a) \/ Submit(a) \/ Approve(a) \/ Reject(a) \/ DeleteVersion(a)

Spec == Init /\ [][Next]_vars

-----------------------------------------------------------------------------
(* Properties *)

\* The prompts that a person, the host or the rules let run.
LetRun(p) ==
  \E v \in Versions : /\ Exists(v) /\ ver[v].by \in {"rules", "person"}
                      /\ ver[v].has.prompt = p

\* "never a pending draft, which would otherwise be promoted unreviewed"
\* (bump_followed_skill, bump_own_skill): whatever bumps, saves, reverts and
\* reviews follow one another, the prompt that runs is one that was let run.
NothingRunsUnreviewed == def # 0 => LetRun(ver[def].has.prompt)

\* What the model runs with.
Inlined(c) == <<c.prompt, Counted(c.own), Counted(c.fol)>>

\* "An automatic version never goes past the auto-approve prompt limit"
\* (bump_followed_skill), by whatever path it was written, except that a bump
\* of a skill that is not inlined copies what a person let run past the limit:
\* it runs with that same text.
AutomaticFits ==
  \A v \in Versions : Exists(v) /\ ver[v].by \in {"rules", "copy"} =>
    \/ Fits(ver[v].has)
    \/ \E w \in Versions : /\ Exists(w) /\ ver[w].by = "person"
                            /\ Inlined(ver[w].has) = Inlined(ver[v].has)

\* "Only approved versions can be set as default" (set_default_version): what
\* runs is approved and stays so, unless two reviews, submissions or deletions
\* overlapped.
DefaultIsApproved == ~raced /\ def # 0 => ver[def].status = "approved"

\* A publisher's write leaves no follower behind in silence
\* (bump_following_referrers): the version that runs has the new content, does
\* not hold the skill, or the failure is recorded.
NoFollowerLeftBehind ==
  [][pub' # pub /\ act = "following"
       => err' \/ ver'[def'].has.fol.hash \in {0, pub'}]_vars
=============================================================================
