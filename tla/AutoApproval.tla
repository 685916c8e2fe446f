---------------------------- MODULE AutoApproval ----------------------------
(***************************************************************************)
(* Whether a proposal is put to a person.  Administrators store rules, set *)
(* a default and open windows; a proposal reads all three, one read after  *)
(* another, decides, and lands its approval in a later transaction.        *)
(*                                                                         *)
(* One proposal is in flight.  Rule ids and window ids are numbers.        *)
(***************************************************************************)
EXTENDS Integers, Sequences, FiniteSets

CONSTANTS
  Requests,       \* proposals: plugin, action, principal, declared, override, reversible
  RuleBooks,      \* rule sets that administrators try to store
  Stored,         \* rule sets a deployment may start with
  Ceilings,       \* values administrators give the host's default
  SchemaDefault,  \* its value when it is not stored or cannot be read
  Windows,        \* windows administrators try to open: plugin, ceiling, minutes
  MaxMinutes,     \* MaxBypassMinutes
  MaxTime,        \* bound: the clock stops here
  MaxEdits        \* bound: administrative acts

ASSUME BoundAssumption == MaxMinutes \in Nat \ {0} /\ MaxTime \in Nat /\ MaxEdits \in Nat

(* What the records hold.  Nothing is asked of a name or of a level: a rule *)
(* set that administrators try to store may say anything.                   *)
AutoApprovalRule == [id : Nat \ {0}, plugin : STRING, action : STRING, principal : STRING,
                     maxRisk : STRING]
AutoApprovalRequest == [plugin : STRING, action : STRING, principal : STRING,
                        declared : STRING, override : STRING, reversible : BOOLEAN]
Bypass == [id : Nat, plugin : STRING, ceiling : STRING, expiresAt : Int]

ASSUME RecordAssumption == /\ RuleBooks \cup Stored \subseteq Seq(AutoApprovalRule)
                           /\ Requests \subseteq AutoApprovalRequest
                           /\ Windows \subseteq [plugin : STRING, ceiling : STRING, minutes : Int]

(* The schema's options for the default, where "none" is stored for "".     *)
ASSUME CeilingAssumption == Ceilings \cup {SchemaDefault} \subseteq {"", "low", "medium", "high"}

VARIABLES
  rules, unmatched,  \* the stored policy
  windows,           \* approval_bypasses neither revoked nor forgotten
  now, edits,
  pc,                \* where the proposal is
  req, risk,         \* what it asks for and its final classification
  readRules, readUnmatched, readWindows,  \* what it has read of the policy
  unreadable,        \* the stored rules could not be read or did not validate
  decision, decidedAt,  \* what was decided, and when
  inForce            \* history: the rule sets in force since the proposal began to read

policy == <<rules, unmatched, windows>>
proposal == <<req, risk, readRules, readUnmatched, readWindows, unreadable>>
verdict == <<decision, decidedAt>>
vars == <<policy, now, edits, pc, proposal, verdict, inForce>>

-----------------------------------------------------------------------------
(* Risk levels.  "" is unspecified; a level this build does not know ranks  *)
(* above every level it knows.                                              *)
Rank(r) == IF r = "" THEN 0
           ELSE IF r = "low" THEN 1
           ELSE IF r = "medium" THEN 2
           ELSE IF r = "high" THEN 3
           ELSE IF r = "critical" THEN 4 ELSE 5

ValidRisk(r) == Rank(r) \in 1..4
AtLeast(a, b) == Rank(a) >= Rank(b)

MaxRisk(a, b) == LET top == IF Rank(b) > Rank(a) THEN b ELSE a
                 IN  IF top = "" THEN "low" ELSE top

-----------------------------------------------------------------------------
(* Rules *)

Covers(selector, value) == selector \in {"*", value}

Matches(r, q) == /\ Covers(r.plugin, q.plugin)
                 /\ Covers(r.action, q.action)
                 /\ Covers(r.principal, q.principal)

Weight(selector, w) == IF selector = "*" THEN 0 ELSE w

Specificity(r) == Weight(r.plugin, 4) + Weight(r.action, 2) + Weight(r.principal, 1)

AuthorisesNothing(r) == ~ValidRisk(r.maxRisk) \/ r.maxRisk = "critical"

(* Mutant of MoreSpecific: the first by name wins.                          *)
MutantMoreSpecific(a, b) == a.id < b.id

MoreSpecific(a, b) ==
  IF Specificity(a) # Specificity(b) THEN Specificity(a) > Specificity(b)
  ELSE IF Rank(a.maxRisk) # Rank(b.maxRisk) THEN Rank(a.maxRisk) < Rank(b.maxRisk)
  ELSE a.id < b.id

Scope(r) == <<r.plugin, r.action, r.principal>>

(* What NormaliseRules lets through, and the order it leaves. *)
Normalised(rs) ==
  /\ \A i \in DOMAIN rs : rs[i].maxRisk = "" \/ ~AuthorisesNothing(rs[i])
  /\ \A i, j \in DOMAIN rs : i # j => rs[i].id # rs[j].id /\ Scope(rs[i]) # Scope(rs[j])
  /\ \A i, j \in DOMAIN rs : i < j =>
       \/ Specificity(rs[i]) > Specificity(rs[j])
       \/ Specificity(rs[i]) = Specificity(rs[j]) /\ rs[i].id < rs[j].id

None == [id |-> 0]

(* match: one pass over the set, keeping the best rule of one kind. *)
Best(rs, q, excludes) ==
  LET best[i \in 0..Len(rs)] ==
        IF i = 0 THEN None
        ELSE IF /\ Matches(rs[i], q)
                /\ AuthorisesNothing(rs[i]) = excludes
                /\ best[i - 1] = None \/ MoreSpecific(rs[i], best[i - 1])
             THEN rs[i] ELSE best[i - 1]
  IN  best[Len(rs)]

Ask(by) == [approve |-> FALSE, by |-> by, id |-> 0]
Authorise(by, id) == [approve |-> TRUE, by |-> by, id |-> id]

(* Refusals that are properties of the change, then exclusions, then grants,*)
(* then the host's default.                                                 *)
Evaluate(rs, default, q, r) ==
  LET excluded == Best(rs, q, TRUE)
      grant == Best(rs, q, FALSE)
  IN  IF ~q.reversible \/ ~ValidRisk(r) THEN Ask("nobody")
      ELSE IF excluded # None THEN Ask("exclusion")
      ELSE IF grant = None
           THEN IF ~ValidRisk(default) \/ default = "critical" \/ ~AtLeast(default, r)
                THEN Ask("nobody")
                ELSE Authorise("default", 0)
      ELSE IF AtLeast(grant.maxRisk, r) THEN Authorise("rule", grant.id)
      ELSE Ask("rule")

(* Mutant of WindowCovers: a window that was open when it was read covers.  *)
MutantWindowCovers(w, q, r, t) ==
  /\ q.reversible
  /\ ValidRisk(r)
  /\ ValidRisk(w.ceiling) /\ w.ceiling # "critical"
  /\ w.plugin \in {"", q.plugin}
  /\ AtLeast(w.ceiling, r)

(* Bypass.Covers *)
WindowCovers(w, q, r, t) ==
  /\ t < w.expiresAt
  /\ q.reversible
  /\ ValidRisk(r)
  /\ ValidRisk(w.ceiling) /\ w.ceiling # "critical"
  /\ w.plugin \in {"", q.plugin}
  /\ AtLeast(w.ceiling, r)

(* The first window that covers the change decides; which one is first is   *)
(* a matter of presentation, so any of them may be.                         *)
ApplyBypass(d, ws, q, r, t) ==
  LET covering == {w \in ws : WindowCovers(w, q, r, t)}
  IN  IF d.approve \/ d.by = "exclusion" \/ covering = {} THEN {d}
      ELSE {Authorise("bypass", w.id) : w \in covering}

-----------------------------------------------------------------------------
Nothing == Ask("undecided")

TypeOK ==
  /\ rules \in Seq(AutoApprovalRule) /\ Normalised(rules)
  /\ readRules \in Seq(AutoApprovalRule)
  /\ windows \subseteq Bypass /\ readWindows \subseteq Bypass
  /\ unmatched \in Ceilings \cup {SchemaDefault}
  /\ \A w \in windows : ValidRisk(w.ceiling) /\ w.ceiling # "critical"
                          /\ w.expiresAt <= now + MaxMinutes
  /\ now \in 0..MaxTime
  /\ edits \in 0..MaxEdits
  /\ pc \in {"idle", "proposed", "rules", "default", "policy", "asked", "landing", "approved"}
  /\ req \in Requests
  /\ pc # "idle" => ValidRisk(risk)
  /\ decidedAt \in 0..now

Init ==
  /\ rules \in {rs \in Stored : Normalised(rs)}
  /\ unmatched = SchemaDefault
  /\ windows = {}
  /\ now = 0
  /\ edits = 0
  /\ pc = "idle"
  /\ req \in Requests
  /\ risk = ""
  /\ readRules = <<>>
  /\ readUnmatched = ""
  /\ readWindows = {}
  /\ unreadable = FALSE
  /\ decision = Nothing /\ decidedAt = 0
  /\ inForce = {}

Edit == edits < MaxEdits /\ edits' = edits + 1

(* A policy becomes visible to a proposal that is reading. *)
Seen == inForce' = IF pc \in {"proposed", "rules", "default"}
                   THEN inForce \cup {rules'}
                   ELSE inForce

StoreRules(rs) ==
  /\ Edit
  /\ Normalised(rs)
  /\ rules' = rs
  /\ UNCHANGED <<unmatched, windows, now, pc, proposal, verdict>>
  /\ Seen

(* The default is an ordinary setting, changed on its own form. *)
SetUnmatched(c) ==
  /\ Edit
  /\ unmatched' = c
  /\ UNCHANGED <<rules, windows, now, pc, proposal, verdict>>
  /\ Seen

(* BypassStore.Open *)
Open(w) ==
  /\ Edit
  /\ w.minutes \in 1..MaxMinutes
  /\ ValidRisk(w.ceiling) /\ w.ceiling # "critical"
  /\ windows' = windows \cup {[id |-> edits + 1, plugin |-> w.plugin, ceiling |-> w.ceiling,
                               expiresAt |-> now + w.minutes]}
  /\ UNCHANGED <<rules, unmatched, now, pc, proposal, verdict>>
  /\ Seen

RevokeAll ==
  /\ Edit
  /\ windows' = {w \in windows : w.expiresAt <= now}
  /\ UNCHANGED <<rules, unmatched, now, pc, proposal, verdict>>
  /\ Seen

(* Propose: the risk is the most severe of the declaration and the          *)
(* operator's override, and one this host does not know is refused.         *)
Propose ==
  /\ pc = "idle"
  /\ risk' = MaxRisk(req.declared, req.override)
  /\ ValidRisk(risk')
  /\ pc' = "proposed"
  /\ inForce' = {rules}
  /\ UNCHANGED <<policy, now, edits, req, readRules, readUnmatched, readWindows,
                 unreadable, verdict>>

(* approvalPolicy: the rules are read first, then the default, then the     *)
(* open windows.  Each read falls back on its own when it fails: to no      *)
(* rules, to the schema's default, to no window.                            *)
ReadRules ==
  /\ pc = "proposed"
  /\ \/ readRules' = rules /\ unreadable' = FALSE
     \/ readRules' = <<>> /\ unreadable' = TRUE
  /\ pc' = "rules"
  /\ UNCHANGED <<policy, now, edits, req, risk, readUnmatched, readWindows, verdict, inForce>>

ReadUnmatched ==
  /\ pc = "rules"
  /\ readUnmatched' \in {unmatched, SchemaDefault}
  /\ pc' = "default"
  /\ UNCHANGED <<policy, now, edits, req, risk, readRules, readWindows, unreadable, verdict,
                 inForce>>

ReadWindows ==
  /\ pc = "default"
  /\ readWindows' \in {{w \in windows : w.expiresAt > now}, {}}
  /\ pc' = "policy"
  /\ UNCHANGED <<policy, now, edits, req, risk, readRules, readUnmatched, unreadable, verdict,
                 inForce>>

Decide ==
  /\ pc = "policy"
  /\ decision' \in ApplyBypass(Evaluate(readRules, readUnmatched, req, risk),
                               readWindows, req, risk, now)
  /\ decidedAt' = now
  /\ pc' = IF decision'.approve THEN "landing" ELSE "asked"
  /\ UNCHANGED <<policy, now, edits, proposal, inForce>>

(* The transition commits, or somebody else's did first. *)
Land ==
  /\ pc = "landing"
  /\ pc' \in {"approved", "asked"}
  /\ UNCHANGED <<policy, now, edits, proposal, verdict, inForce>>

Tick ==
  /\ now < MaxTime
  /\ now' = now + 1
  /\ UNCHANGED <<policy, edits, pc, proposal, verdict, inForce>>

Next ==
  \/ \E rs \in RuleBooks : StoreRules(rs)
  \/ \E w \in Windows : Open(w)
  \/ \E c \in Ceilings : SetUnmatched(c)
  \/ RevokeAll
  \/ Propose \/ ReadRules \/ ReadUnmatched \/ ReadWindows \/ Decide \/ Land
  \/ Tick

Spec == Init /\ [][Next]_vars

-----------------------------------------------------------------------------
Read == {readRules[i] : i \in DOMAIN readRules}
Excluding == {r \in Read : Matches(r, req) /\ AuthorisesNothing(r)}
Granting == {r \in Read : Matches(r, req) /\ ~AuthorisesNothing(r)}

(* What approves a change unattended never reaches past its limits, whoever *)
(* decided: the change can be undone, it is not critical, its risk counts   *)
(* both the declaration and the override, and no rule that was read         *)
(* excludes it.  Nor was it excluded during all the time the policy was     *)
(* being read, unless the stored rules could not be read: then none was     *)
(* read, and the default or a window may approve what a stored rule         *)
(* excludes (App.autoApprovalRules; UnreadableRulesAskAPerson below).       *)
NothingReachesPastItsLimits ==
  pc = "approved" =>
    /\ req.reversible
    /\ risk # "critical"
    /\ AtLeast(risk, req.declared) /\ AtLeast(risk, req.override)
    /\ Excluding = {}
    /\ ~unreadable => \E rs \in inForce :
         \A i \in DOMAIN rs : Matches(rs[i], req) => ~AuthorisesNothing(rs[i])

(* The recorded authority explains the approval.  A rule is the narrowest   *)
(* grant that applies and reaches the risk, wherever it stands in the set;  *)
(* the default is used only when no rule applies; a window over the plugin  *)
(* reaches the risk and had not expired when the decision was made, however *)
(* long before that it was read (the approval itself commits later still,   *)
(* and asks about no window again: Service.autoApprove).                    *)
AuthorityExplains ==
  decision.approve =>
    CASE decision.by = "rule" ->
           \E r \in Granting : /\ r.id = decision.id
                               /\ AtLeast(r.maxRisk, risk)
                               /\ \A g \in Granting \ {r} : Specificity(g) <= Specificity(r)
      [] decision.by = "default" -> Granting = {} /\ AtLeast(readUnmatched, risk)
      [] decision.by = "bypass" ->
           \E w \in readWindows : /\ w.id = decision.id
                                  /\ decidedAt < w.expiresAt
                                  /\ w.plugin \in {"", req.plugin}
                                  /\ AtLeast(w.ceiling, risk)

(* An unattended approval is explained by the policy and stays within its   *)
(* limits, whatever an administrator changed while the policy was read.     *)
ApprovalsAreCovered ==
  TypeOK /\ NothingReachesPastItsLimits /\ AuthorityExplains

(* A person is asked only when nothing authorises the change: the one pass  *)
(* over the rules misses no grant, whatever order the set is in.            *)
AskedForAReason ==
  pc = "asked" /\ ~decision.approve /\ req.reversible /\ Excluding = {} =>
    /\ Granting = {} => ~AtLeast(readUnmatched, risk)
    /\ \A r \in Granting :
         (\A g \in Granting : Specificity(g) <= Specificity(r)) => ~AtLeast(r.maxRisk, risk)
    /\ \A w \in readWindows : now < w.expiresAt /\ w.plugin \in {"", req.plugin}
                                 => ~AtLeast(w.ceiling, risk)

(* "A rule set that cannot be read ... [leaves] the operation exactly where *)
(* Propose put it, awaiting a person" (Service.autoApprove).  The code does *)
(* otherwise: without rules the default applies, and it may approve.        *)
UnreadableRulesAskAPerson == unreadable => pc # "approved"

=============================================================================
