------------------------- MODULE AutoApprovalProofs -------------------------
(***************************************************************************)
(* For any rule sets, requests, defaults and windows, and however the      *)
(* policy changes while a proposal reads it: an unattended approval stays  *)
(* within its limits and is explained by its authority, and a person is    *)
(* asked only when nothing authorises the change.                          *)
(***************************************************************************)
EXTENDS AutoApproval, FiniteSetTheorems, WellFoundedInduction, TLAPS

-----------------------------------------------------------------------------
(* Induction over the natural numbers, for sets *)

(* A finite set of integers has a smallest element.                         *)
LEMMA Smallest ==
  ASSUME NEW S \in SUBSET Int, IsFiniteSet(S), S # {}
  PROVE  \E x \in S : \A y \in S : x <= y
<1> DEFINE UpTo(x) == {y \in S : y <= x}
           T == {UpTo(x) : x \in S}
<1>1. IsWellFoundedOn(StrictSubsetOrdering(S), FiniteSubsetsOf(S))
      BY FS_StrictSubsetOrderingWellFounded
<1>2. T \subseteq FiniteSubsetsOf(S)
      BY FS_FiniteSubsetsOfFinite
<1>3. T # {}
      OBVIOUS
<1>4. PICK t \in T : \A u \in T : ~ (<<u, t>> \in StrictSubsetOrdering(S))
      BY <1>1, <1>2, <1>3, WFMin, Zenon
<1>5. PICK x \in S : t = UpTo(x)
      OBVIOUS
<1>6. ASSUME NEW y \in S, ~(x <= y) PROVE FALSE
  <2>1. UpTo(y) \subseteq UpTo(x) /\ x \in UpTo(x) /\ x \notin UpTo(y)
    <3>1. x \in Int /\ y \in Int /\ \A z \in S : z \in Int
          BY <1>5
    <3>2. \A z \in S : z <= y => z <= x
          BY <1>6, <3>1
    <3>3. UpTo(y) \subseteq UpTo(x)
          BY <3>2
    <3>4. x \in UpTo(x)
          BY <3>1, <1>5
    <3>5. x \notin UpTo(y)
          BY <1>6
    <3>. QED BY <3>3, <3>4, <3>5
  <2>2. UpTo(y) \in T /\ UpTo(y) \in SUBSET S /\ UpTo(x) \in SUBSET S
        OBVIOUS
  <2>3. <<UpTo(y), UpTo(x)>> \in StrictSubsetOrdering(S)
        BY <2>1, <2>2 DEF StrictSubsetOrdering
  <2>. QED BY <1>4, <1>5, <2>2, <2>3
<1>. QED BY <1>6

(* What holds of 0 and passes from a number to the next holds of every one. *)
LEMMA EveryNumber ==
  ASSUME NEW S, 0 \in S, \A n \in Nat : n \in S => n + 1 \in S, NEW N \in Nat
  PROVE  N \in S
<1> DEFINE Missing == {n \in 0..N : n \notin S}
<1> SUFFICES ASSUME N \notin S PROVE FALSE
    OBVIOUS
<1>1. N \in Missing /\ Missing \in SUBSET Int
      OBVIOUS
<1>2. IsFiniteSet(Missing)
  <2>1. 0 \in Int /\ N \in Int OBVIOUS
  <2>2. IsFiniteSet(0..N) BY <2>1, FS_Interval
  <2>3. Missing \subseteq 0..N OBVIOUS
  <2>. QED BY <2>2, <2>3, FS_Subset
<1>3. PICK m \in Missing : \A n \in Missing : m <= n
      BY <1>1, <1>2, Smallest
<1>4. m # 0 /\ m - 1 \in 0..N /\ m - 1 \notin Missing
      BY <1>3
<1>5. m - 1 \in Nat /\ m - 1 \in S
      BY <1>4
<1>6. (m - 1) + 1 \in S
      BY <1>5
<1>. QED BY <1>3, <1>6

-----------------------------------------------------------------------------
(* One pass over the rules *)

(* What the pass does with the rule at i when it holds b. *)
Keep(rs, q, excludes, i, b) ==
  IF /\ Matches(rs[i], q)
     /\ AuthorisesNothing(rs[i]) = excludes
     /\ b = None \/ MoreSpecific(rs[i], b)
  THEN rs[i] ELSE b

(* What it holds after each of the first n rules. *)
IsPass(rs, q, excludes, n, f) ==
  f = [i \in 0..n |-> IF i = 0 THEN None ELSE Keep(rs, q, excludes, i, f[i - 1])]

(* The pass over any number of rules exists: the least number for which it  *)
(* did not would have a predecessor, whose pass one more rule extends.      *)
LEMMA PassExists ==
  ASSUME NEW rs, NEW q, NEW excludes, NEW N \in Nat
  PROVE  \E f : IsPass(rs, q, excludes, N, f)
<1> DEFINE P(n) == \E f : IsPass(rs, q, excludes, n, f)
<1>1. P(0)
  <2>1. IsPass(rs, q, excludes, 0, [i \in 0..0 |-> None])
        BY DEF IsPass
  <2>. QED BY <2>1
<1>2. ASSUME NEW n \in Nat, P(n) PROVE P(n + 1)
  <2>1. PICK f : IsPass(rs, q, excludes, n, f)
        BY <1>2
  <2> DEFINE g == [i \in 0..(n + 1) |->
                     IF i = 0 THEN None ELSE Keep(rs, q, excludes, i, f[i - 1])]
  <2>2. ASSUME NEW i \in 0..(n + 1), i # 0 PROVE f[i - 1] = g[i - 1]
        BY <2>1, <2>2 DEF IsPass
  <2>3. g = [i \in 0..(n + 1) |->
               IF i = 0 THEN None ELSE Keep(rs, q, excludes, i, g[i - 1])]
        BY <2>2
  <2>. QED BY <2>3 DEF IsPass
<1> DEFINE S == {n \in Nat : P(n)}
<1>3. 0 \in S /\ \A n \in Nat : n \in S => n + 1 \in S
      BY <1>1, <1>2
<1> HIDE DEF P
<1>4. N \in S
      BY <1>3, EveryNumber
<1>. QED BY <1>4 DEF P

(* The rule match keeps is what a pass holds in the end. *)
LEMMA BestIsAPass ==
  ASSUME NEW rs \in Seq(AutoApprovalRule), NEW q, NEW excludes
  PROVE  \E f : IsPass(rs, q, excludes, Len(rs), f) /\ Best(rs, q, excludes) = f[Len(rs)]
<1> DEFINE f == CHOOSE g : IsPass(rs, q, excludes, Len(rs), g)
<1>1. IsPass(rs, q, excludes, Len(rs), f)
      BY PassExists
<1>2. Best(rs, q, excludes) = f[Len(rs)]
      BY DEF Best, IsPass, Keep
<1>. QED BY <1>1, <1>2

(* A rule is not the absence of one, and its specificity is a number.       *)
LEMMA RuleFacts ==
  ASSUME NEW r \in AutoApprovalRule
  PROVE  r # None /\ Specificity(r) \in 0..7 /\ Rank(r.maxRisk) \in 0..5
<1>1. r.id \in Nat \ {0} BY DEF AutoApprovalRule
<1>2. r # None BY <1>1 DEF None
<1>3. /\ Weight(r.plugin, 4) \in {0, 4}
      /\ Weight(r.action, 2) \in {0, 2}
      /\ Weight(r.principal, 1) \in {0, 1}
      BY DEF Weight
<1>4. Specificity(r) \in 0..7
      BY <1>3 DEF Specificity
<1>5. Rank(r.maxRisk) \in 0..5
      BY DEF Rank
<1>. QED BY <1>2, <1>4, <1>5

(* The rule at i applies and is of the kind looked for. *)
Fits(rs, q, excludes, i) == Matches(rs[i], q) /\ AuthorisesNothing(rs[i]) = excludes

(* b is what one pass over the first n rules is for: a rule that applies    *)
(* and that none that applies is narrower than, or nothing if none applies. *)
Settles(rs, q, excludes, n, b) ==
  \/ b = None /\ \A i \in 1..n : ~Fits(rs, q, excludes, i)
  \/ \E i \in 1..n : /\ Fits(rs, q, excludes, i)
                     /\ b = rs[i]
                     /\ \A j \in 1..n : Fits(rs, q, excludes, j)
                                          => Specificity(rs[j]) <= Specificity(rs[i])

(* One more rule keeps it so. *)
LEMMA KeepSettles ==
  ASSUME NEW rs \in Seq(AutoApprovalRule), NEW q, NEW excludes \in BOOLEAN,
         NEW n \in Nat, n + 1 \in 1..Len(rs), NEW b, Settles(rs, q, excludes, n, b)
  PROVE  Settles(rs, q, excludes, n + 1, Keep(rs, q, excludes, n + 1, b))
<1> DEFINE c == Keep(rs, q, excludes, n + 1, b)
           F(i) == Fits(rs, q, excludes, i)
<1>1. 1..(n + 1) = 1..n \cup {n + 1}
      OBVIOUS
<1>2. \A i \in 1..(n + 1) : rs[i] \in AutoApprovalRule
      OBVIOUS
<1>3. \A i \in 1..(n + 1) : rs[i] # None /\ Specificity(rs[i]) \in Int
      BY <1>2, RuleFacts
<1>4. CASE ~F(n + 1)
  <2>1. c = b BY <1>4 DEF Keep, Fits
  <2>. QED BY <1>1, <1>4, <2>1 DEF Settles
<1>5. CASE F(n + 1) /\ b = None
  <2>1. c = rs[n + 1] BY <1>5 DEF Keep, Fits
  <2>2. \A i \in 1..n : ~F(i) BY <1>1, <1>3, <1>5 DEF Settles
  <2>3. \A j \in 1..(n + 1) : F(j) => Specificity(rs[j]) <= Specificity(rs[n + 1])
        BY <1>1, <1>3, <2>2
  <2>. QED BY <1>1, <1>5, <2>1, <2>3 DEF Settles
<1>6. CASE F(n + 1) /\ b # None
  <2>1. PICK i \in 1..n : /\ F(i)
                          /\ b = rs[i]
                          /\ \A j \in 1..n : F(j) => Specificity(rs[j]) <= Specificity(rs[i])
        BY <1>6 DEF Settles
  <2>2. CASE MoreSpecific(rs[n + 1], b)
    <3>1. c = rs[n + 1] BY <1>6, <2>2 DEF Keep, Fits
    <3>2. Specificity(rs[i]) <= Specificity(rs[n + 1])
          BY <2>1, <2>2, <1>1, <1>3 DEF MoreSpecific
    <3>3. \A j \in 1..(n + 1) : F(j) => Specificity(rs[j]) <= Specificity(rs[n + 1])
          BY <1>1, <1>3, <2>1, <3>2
    <3>. QED BY <1>1, <1>6, <3>1, <3>3 DEF Settles
  <2>3. CASE ~MoreSpecific(rs[n + 1], b)
    <3>1. c = b BY <1>6, <2>3 DEF Keep
    <3>2. Specificity(rs[n + 1]) <= Specificity(rs[i])
          BY <2>1, <2>3, <1>1, <1>3 DEF MoreSpecific
    <3>3. \A j \in 1..(n + 1) : F(j) => Specificity(rs[j]) <= Specificity(rs[i])
          BY <1>1, <1>3, <2>1, <3>2
    <3>. QED BY <1>1, <2>1, <3>1, <3>3 DEF Settles
  <2>. QED BY <2>2, <2>3
<1>. QED BY <1>4, <1>5, <1>6

(* match keeps the narrowest rule that applies, wherever it stands.         *)
LEMMA BestSettles ==
  ASSUME NEW rs \in Seq(AutoApprovalRule), NEW q, NEW excludes \in BOOLEAN
  PROVE  Settles(rs, q, excludes, Len(rs), Best(rs, q, excludes))
<1>1. PICK f : IsPass(rs, q, excludes, Len(rs), f) /\ Best(rs, q, excludes) = f[Len(rs)]
      BY BestIsAPass
<1> DEFINE S == {n \in Nat : n <= Len(rs) => Settles(rs, q, excludes, n, f[n])}
<1>2. Len(rs) \in Nat
      OBVIOUS
<1>3. 0 \in S
  <2>1. f[0] = None BY <1>1, <1>2 DEF IsPass
  <2>. QED BY <2>1 DEF Settles
<1>4. ASSUME NEW n \in Nat, n \in S PROVE n + 1 \in S
  <2> SUFFICES ASSUME n + 1 <= Len(rs) PROVE Settles(rs, q, excludes, n + 1, f[n + 1])
      BY DEF S
  <2>1. Settles(rs, q, excludes, n, f[n])
        BY <1>2, <1>4
  <2>2. f[n + 1] = Keep(rs, q, excludes, n + 1, f[n])
    <3>1. n + 1 \in 0..Len(rs) /\ n + 1 # 0 /\ (n + 1) - 1 = n BY <1>2
    <3>. QED BY <1>1, <3>1 DEF IsPass
  <2>3. n + 1 \in 1..Len(rs) BY <1>2
  <2>. QED BY <2>1, <2>2, <2>3, KeepSettles
<1> HIDE DEF S
<1>5. Len(rs) \in S
      BY <1>2, <1>3, <1>4, EveryNumber
<1>. QED BY <1>1, <1>2, <1>5 DEF S

(* Two rules that apply to one request and are as narrow as each other have *)
(* one scope: a rule set that NormaliseRules let through holds one of them. *)
LEMMA SameSpecificitySameRule ==
  ASSUME NEW rs, Normalised(rs), NEW q, NEW i \in DOMAIN rs, NEW j \in DOMAIN rs,
         Matches(rs[i], q), Matches(rs[j], q), Specificity(rs[i]) = Specificity(rs[j])
  PROVE  i = j
<1>1. /\ (rs[i].plugin = "*") = (rs[j].plugin = "*")
      /\ (rs[i].action = "*") = (rs[j].action = "*")
      /\ (rs[i].principal = "*") = (rs[j].principal = "*")
      BY DEF Specificity, Weight
<1>2. Scope(rs[i]) = Scope(rs[j])
      BY <1>1 DEF Matches, Covers, Scope
<1>. QED BY <1>2 DEF Normalised

-----------------------------------------------------------------------------
(* What a decision says *)

(* Every level has a rank, and only the critical one has that of critical.  *)
LEMMA Ranks == ASSUME NEW r PROVE Rank(r) \in 0..5 /\ (Rank(r) = 4 <=> r = "critical")
<1>1. Rank(r) \in 0..5 BY DEF Rank
<1>2. ASSUME r # "critical" PROVE Rank(r) # 4 BY <1>2 DEF Rank
<1>3. ASSUME r = "critical" PROVE Rank(r) = 4 BY <1>3 DEF Rank
<1>. QED BY <1>1, <1>2, <1>3

(* Some rule that applies to the request excludes it. *)
Excludes(rs, q) == \E i \in 1..Len(rs) : Fits(rs, q, TRUE, i)

(* No rule that applies to the request grants anything. *)
NoGrant(rs, q) == \A i \in 1..Len(rs) : ~Fits(rs, q, FALSE, i)

(* The rule at i is the narrowest grant that applies. *)
Narrowest(rs, q, i) ==
  /\ Fits(rs, q, FALSE, i)
  /\ \A j \in 1..Len(rs) : Fits(rs, q, FALSE, j) => Specificity(rs[j]) <= Specificity(rs[i])

(* The authority an approval names had it.                                  *)
Explained(rs, level, ws, q, r, t, d) ==
  /\ q.reversible /\ Rank(r) \in 1..3 /\ ~Excludes(rs, q)
  /\ \/ d.by = "rule" /\ \E i \in 1..Len(rs) : /\ Narrowest(rs, q, i)
                                               /\ d.id = rs[i].id
                                               /\ AtLeast(rs[i].maxRisk, r)
     \/ d.by = "default" /\ NoGrant(rs, q) /\ AtLeast(level, r)
     \/ d.by = "bypass" /\ \E w \in ws : /\ w.id = d.id
                                         /\ t < w.expiresAt
                                         /\ w.plugin \in {"", q.plugin}
                                         /\ AtLeast(w.ceiling, r)

(* No rule and no default authorises the change. *)
NoneGrants(rs, level, q, r) ==
  /\ NoGrant(rs, q) => ~AtLeast(level, r)
  /\ \A i \in 1..Len(rs) : Narrowest(rs, q, i) => ~AtLeast(rs[i].maxRisk, r)

(* What the rules and the default decide. *)
LEMMA Evaluated ==
  ASSUME NEW rs \in Seq(AutoApprovalRule), Normalised(rs), NEW q, NEW r,
         NEW level, Rank(level) \in 0..3, NEW ws, NEW t, NEW d,
         d = Evaluate(rs, level, q, r)
  PROVE  /\ d.approve \in BOOLEAN
         /\ d.approve => Explained(rs, level, ws, q, r, t, d)
         /\ ~d.approve /\ q.reversible /\ ValidRisk(r)
              => IF d.by = "exclusion" THEN Excludes(rs, q)
                                       ELSE ~Excludes(rs, q) /\ NoneGrants(rs, level, q, r)
<1> DEFINE excluded == Best(rs, q, TRUE)
           grant == Best(rs, q, FALSE)
<1>1. \A i \in 1..Len(rs) : rs[i] \in AutoApprovalRule /\ rs[i] # None
      BY RuleFacts
<1>2. excluded = None <=> ~Excludes(rs, q)
      BY <1>1, BestSettles DEF Settles, Excludes
<1>3. grant = None => NoGrant(rs, q)
      BY <1>1, BestSettles DEF Settles, NoGrant
<1>4. grant # None => ~NoGrant(rs, q) /\ \E i \in 1..Len(rs) : grant = rs[i] /\ Narrowest(rs, q, i)
      BY BestSettles DEF Settles, Narrowest, NoGrant
<1>5. Rank(r) \in 0..5 /\ Rank("critical") = 4
      BY Ranks
<1>6. CASE ~q.reversible \/ ~ValidRisk(r)
  <2>1. d = Ask("nobody") BY <1>6 DEF Evaluate
  <2>. QED BY <1>6, <2>1 DEF Ask
<1>7. CASE q.reversible /\ ValidRisk(r) /\ excluded # None
  <2>1. d = Ask("exclusion") BY <1>7 DEF Evaluate
  <2>2. d.approve = FALSE /\ d.by = "exclusion" BY <2>1 DEF Ask
  <2>. QED BY <1>2, <1>7, <2>2
<1>8. CASE q.reversible /\ ValidRisk(r) /\ excluded = None /\ grant = None
  <2>1. level # "critical" BY <1>5
  <2>2. d = IF ~ValidRisk(level) \/ ~AtLeast(level, r)
            THEN Ask("nobody") ELSE Authorise("default", 0)
        BY <1>8, <2>1 DEF Evaluate
  <2>3. ~Excludes(rs, q) /\ NoGrant(rs, q) BY <1>2, <1>3, <1>8
  <2>4. \A i \in 1..Len(rs) : ~Narrowest(rs, q, i) BY <2>3 DEF NoGrant, Narrowest
  <2>5. CASE ValidRisk(level) /\ AtLeast(level, r)
    <3>1. d.approve /\ d.by = "default" BY <2>2, <2>5 DEF Authorise
    <3>2. d.approve \in BOOLEAN BY <2>2, <2>5 DEF Authorise
    <3>3. Rank(r) \in 1..3 BY <1>5, <1>8, <2>5 DEF AtLeast, ValidRisk
    <3>. QED BY <1>8, <2>3, <2>5, <3>1, <3>2, <3>3 DEF Explained
  <2>6. CASE ~(ValidRisk(level) /\ AtLeast(level, r))
    <3>1. d = Ask("nobody") BY <2>2, <2>6
    <3>2. ~AtLeast(level, r) BY <1>5, <1>8, <2>6 DEF AtLeast, ValidRisk
    <3>. QED BY <2>3, <2>4, <3>1, <3>2 DEF Ask, NoneGrants
  <2>. QED BY <2>5, <2>6
<1>9. CASE q.reversible /\ ValidRisk(r) /\ excluded = None /\ grant # None
  <2>1. d = IF AtLeast(grant.maxRisk, r) THEN Authorise("rule", grant.id) ELSE Ask("rule")
        BY <1>9 DEF Evaluate
  <2>2. PICK i \in 1..Len(rs) : grant = rs[i] /\ Narrowest(rs, q, i)
        BY <1>4, <1>9
  <2>3. ~Excludes(rs, q) /\ ~NoGrant(rs, q) BY <1>2, <1>4, <1>9
  <2>4. \A j \in 1..Len(rs) : Narrowest(rs, q, j) => j = i
    <3> SUFFICES ASSUME NEW j \in 1..Len(rs), Narrowest(rs, q, j) PROVE j = i
        OBVIOUS
    <3>1. i \in DOMAIN rs /\ j \in DOMAIN rs OBVIOUS
    <3>2. Matches(rs[i], q) /\ Matches(rs[j], q) BY <2>2 DEF Narrowest, Fits
    <3>3. Specificity(rs[i]) \in 0..7 /\ Specificity(rs[j]) \in 0..7 BY <1>1, RuleFacts
    <3>4. /\ Specificity(rs[i]) <= Specificity(rs[j])
          /\ Specificity(rs[j]) <= Specificity(rs[i])
          BY <2>2 DEF Narrowest
    <3>5. Specificity(rs[i]) = Specificity(rs[j]) BY <3>3, <3>4
    <3>. QED BY <3>1, <3>2, <3>5, SameSpecificitySameRule
  <2>5. CASE AtLeast(grant.maxRisk, r)
    <3>1. d.approve = TRUE /\ d.by = "rule" /\ d.id = grant.id BY <2>1, <2>5 DEF Authorise
    <3>2. d.id = rs[i].id /\ AtLeast(rs[i].maxRisk, r) BY <2>2, <2>5, <3>1
    <3>3. Rank(rs[i].maxRisk) \in 1..3
      <4>1. ValidRisk(rs[i].maxRisk) /\ rs[i].maxRisk # "critical"
            BY <2>2 DEF Narrowest, Fits, AuthorisesNothing
      <4>2. Rank(rs[i].maxRisk) # 4 BY <4>1, Ranks
      <4>. QED BY <4>1, <4>2 DEF ValidRisk
    <3>4. Rank(r) \in 1..3
      <4>1. ValidRisk(r) BY <1>9
      <4>. QED BY <3>2, <3>3, <4>1 DEF AtLeast, ValidRisk
    <3>. QED BY <1>9, <2>2, <2>3, <3>1, <3>2, <3>4 DEF Explained
  <2>6. CASE ~AtLeast(grant.maxRisk, r)
    <3>1. d = Ask("rule") BY <2>1, <2>6
    <3>2. d.approve = FALSE /\ d.by = "rule" BY <3>1 DEF Ask
    <3>3. NoneGrants(rs, level, q, r) BY <2>2, <2>3, <2>4, <2>6 DEF NoneGrants
    <3>. QED BY <2>3, <3>2, <3>3
  <2>. QED BY <2>5, <2>6
<1>. QED BY <1>6, <1>7, <1>8, <1>9

(* What the open windows leave of it. *)
LEMMA Decided ==
  ASSUME NEW rs \in Seq(AutoApprovalRule), Normalised(rs), NEW q, NEW r,
         NEW level, Rank(level) \in 0..3, NEW ws, NEW t,
         \A w \in ws : ValidRisk(w.ceiling) /\ w.ceiling # "critical",
         NEW d \in ApplyBypass(Evaluate(rs, level, q, r), ws, q, r, t)
  PROVE  /\ d.approve \in BOOLEAN
         /\ d.approve => Explained(rs, level, ws, q, r, t, d)
         /\ ~d.approve /\ q.reversible /\ ValidRisk(r) /\ ~Excludes(rs, q)
              => /\ NoneGrants(rs, level, q, r)
                 /\ \A w \in ws : t < w.expiresAt /\ w.plugin \in {"", q.plugin}
                                    => ~AtLeast(w.ceiling, r)
<1> DEFINE e == Evaluate(rs, level, q, r)
           covering == {w \in ws : WindowCovers(w, q, r, t)}
<1>1. /\ e.approve \in BOOLEAN
      /\ e.approve => Explained(rs, level, ws, q, r, t, e)
      /\ ~e.approve /\ q.reversible /\ ValidRisk(r)
           => IF e.by = "exclusion" THEN Excludes(rs, q)
                                    ELSE ~Excludes(rs, q) /\ NoneGrants(rs, level, q, r)
      BY Evaluated
<1>2. CASE e.approve
  <2>1. d = e BY <1>2 DEF ApplyBypass
  <2>. QED BY <1>1, <1>2, <2>1
<1>3. CASE ~e.approve /\ (e.by = "exclusion" \/ covering = {})
  <2>1. d = e BY <1>3 DEF ApplyBypass
  <2>2. ASSUME q.reversible, ValidRisk(r), ~Excludes(rs, q)
        PROVE  /\ NoneGrants(rs, level, q, r)
               /\ \A w \in ws : t < w.expiresAt /\ w.plugin \in {"", q.plugin}
                                  => ~AtLeast(w.ceiling, r)
    <3>1. e.by # "exclusion" /\ NoneGrants(rs, level, q, r) BY <1>1, <1>3, <2>2
    <3>2. covering = {} BY <1>3, <3>1
    <3>. QED BY <2>2, <3>1, <3>2 DEF WindowCovers
  <2>. QED BY <1>1, <1>3, <2>1, <2>2
<1>4. CASE ~e.approve /\ e.by # "exclusion" /\ covering # {}
  <2>1. PICK w \in covering : d = Authorise("bypass", w.id)
        BY <1>4 DEF ApplyBypass
  <2>2. d.approve /\ d.by = "bypass" /\ d.id = w.id BY <2>1 DEF Authorise
  <2>3. d.approve \in BOOLEAN BY <2>1 DEF Authorise
  <2>4. /\ t < w.expiresAt
        /\ q.reversible /\ ValidRisk(r) /\ w.plugin \in {"", q.plugin} /\ AtLeast(w.ceiling, r)
        /\ ValidRisk(w.ceiling) /\ w.ceiling # "critical"
        BY DEF WindowCovers
  <2>5. ~Excludes(rs, q) BY <1>1, <1>4, <2>4
  <2>6. Rank(w.ceiling) \in 1..3
    <3>1. ValidRisk(w.ceiling) /\ w.ceiling # "critical" BY <2>4
    <3>2. Rank(w.ceiling) # 4 BY <3>1, Ranks
    <3>. QED BY <3>1, <3>2 DEF ValidRisk
  <2>7. Rank(r) \in 1..3
    <3>1. ValidRisk(r) /\ AtLeast(w.ceiling, r) BY <2>4
    <3>. QED BY <2>6, <3>1 DEF AtLeast, ValidRisk
  <2>. QED BY <2>2, <2>3, <2>4, <2>5, <2>7 DEF Explained
<1>. QED BY <1>2, <1>3, <1>4, <1>1

-----------------------------------------------------------------------------
(* The proposal and the administrators *)

(* What a proposal has read of the policy is a policy: the rules are a set  *)
(* that NormaliseRules let through, the default is one of its options, and  *)
(* no window reaches critical changes.                                      *)
ReadInv ==
  /\ Normalised(readRules)
  /\ readUnmatched \in {""} \cup Ceilings \cup {SchemaDefault}
  /\ \A w \in readWindows : ValidRisk(w.ceiling) /\ w.ceiling # "critical"

(* The risk counts the declaration and the operator's override.             *)
RiskInv == pc # "idle" => risk = MaxRisk(req.declared, req.override)

(* The rules a proposal reads are in force while it reads the policy.       *)
SeenInv ==
  /\ pc \in {"proposed", "rules", "default"} => rules \in inForce
  /\ pc \in {"rules", "default", "policy", "landing", "asked", "approved"} /\ ~unreadable
       => readRules \in inForce

(* The decisions possible at t on what has been read. *)
Decisions(t) ==
  ApplyBypass(Evaluate(readRules, readUnmatched, req, risk), readWindows, req, risk, t)

(* A proposal that has been decided was decided on what it had read, at the  *)
(* moment it recorded, and only an approval lands.                           *)
DecisionInv ==
  /\ pc \in {"idle", "proposed", "rules", "default", "policy"} => decision = Nothing
  /\ pc \in {"landing", "approved"} => decision.approve
  /\ pc \in {"asked", "landing", "approved"} => decision \in Decisions(decidedAt)

IInv == TypeOK /\ ReadInv /\ RiskInv /\ SeenInv /\ DecisionInv

(* No rules are a rule set. *)
LEMMA NoRules == <<>> \in Seq(AutoApprovalRule) /\ Normalised(<<>>)
BY DEF Normalised

(* Four numbers of 0..3. *)
LEMMA UpToThree == 0 \in 0..3 /\ 1 \in 0..3 /\ 2 \in 0..3 /\ 3 \in 0..3
OBVIOUS

(* The default stays below critical, whatever it was read as. *)
LEMMA CeilingRanks ==
  ASSUME NEW x \in {""} \cup Ceilings \cup {SchemaDefault}
  PROVE  Rank(x) \in 0..3
<1>1. Rank("") = 0 BY DEF Rank
<1>2. Rank("low") = 1 BY DEF Rank
<1>3. Rank("medium") = 2 BY DEF Rank
<1>4. Rank("high") = 3 BY DEF Rank
<1>5. x \in {"", "low", "medium", "high"} BY CeilingAssumption, Zenon
<1>. QED BY <1>1, <1>2, <1>3, <1>4, <1>5, UpToThree, Zenon

(* The initial states. *)
LEMMA InitInv == Init => IInv
<1> SUFFICES ASSUME Init PROVE IInv
    OBVIOUS
<1>1. TypeOK
  <2>1. rules \in Seq(AutoApprovalRule) /\ Normalised(rules)
        BY RecordAssumption DEF Init
  <2>2. readRules \in Seq(AutoApprovalRule) /\ windows = {} /\ readWindows = {}
        BY NoRules DEF Init
  <2>3. /\ unmatched \in Ceilings \cup {SchemaDefault} /\ req \in Requests
        /\ pc = "idle" /\ now = 0 /\ edits = 0 /\ decidedAt = 0
        BY DEF Init
  <2>. QED BY <2>1, <2>2, <2>3, BoundAssumption DEF TypeOK
<1>2. ReadInv
      BY NoRules DEF Init, ReadInv
<1>3. RiskInv /\ SeenInv /\ DecisionInv
      BY DEF Init, RiskInv, SeenInv, DecisionInv
<1>. QED BY <1>1, <1>2, <1>3 DEF IInv

(* An administrator's act is over with the policy, and no proposal notices  *)
(* more than that another set of rules is in force.                         *)
LEMMA ActKeeps ==
  ASSUME IInv, TypeOK', Seen, UNCHANGED <<now, pc, proposal, verdict>>
  PROVE  IInv'
<1>1. ReadInv' BY DEF IInv, ReadInv, proposal
<1>2. RiskInv' BY DEF IInv, RiskInv, proposal, TypeOK
<1>3. SeenInv' BY DEF IInv, SeenInv, Seen, proposal
<1>4. DecisionInv' BY DEF IInv, DecisionInv, Decisions, proposal, verdict
<1>. QED BY <1>1, <1>2, <1>3, <1>4 DEF IInv

(* Storing rules, a default or a window keeps the policy well formed.       *)
LEMMA ActTypes ==
  ASSUME TypeOK,
         \/ \E rs \in RuleBooks : StoreRules(rs)
         \/ \E w \in Windows : Open(w)
         \/ \E c \in Ceilings : SetUnmatched(c)
         \/ RevokeAll
  PROVE  TypeOK' /\ Seen /\ UNCHANGED <<now, pc, proposal, verdict>>
<1> USE BoundAssumption
<1>1. /\ edits' \in 0..MaxEdits /\ Seen
      /\ UNCHANGED <<now, pc, req, risk, readRules, readUnmatched, readWindows, unreadable,
                     decision, decidedAt>>
      BY DEF TypeOK, StoreRules, Open, SetUnmatched, RevokeAll, Edit, proposal, verdict
<1>2. rules' \in Seq(AutoApprovalRule) /\ Normalised(rules')
      BY RecordAssumption DEF TypeOK, StoreRules, Open, SetUnmatched, RevokeAll
<1>3. unmatched' \in Ceilings \cup {SchemaDefault}
      BY DEF TypeOK, StoreRules, Open, SetUnmatched, RevokeAll
<1>4. windows' \subseteq Bypass /\ \A w \in windows' : /\ ValidRisk(w.ceiling)
                                                       /\ w.ceiling # "critical"
                                                       /\ w.expiresAt <= now + MaxMinutes
  <2>1. CASE \E w \in Windows : Open(w)
    <3>1. PICK w \in Windows : Open(w) BY <2>1
    <3> DEFINE new == [id |-> edits + 1, plugin |-> w.plugin, ceiling |-> w.ceiling,
                       expiresAt |-> now + w.minutes]
    <3>2. windows' = windows \cup {new} BY <3>1 DEF Open
    <3>3. new \in Bypass BY <3>1, RecordAssumption DEF TypeOK, Bypass
    <3>4. /\ ValidRisk(new.ceiling) /\ new.ceiling # "critical"
          /\ new.expiresAt <= now + MaxMinutes
          BY <3>1, RecordAssumption DEF Open, TypeOK
    <3> HIDE DEF new
    <3>. QED BY <3>2, <3>3, <3>4 DEF TypeOK
  <2>2. CASE RevokeAll BY <2>2 DEF RevokeAll, TypeOK
  <2>3. CASE UNCHANGED windows BY <2>3 DEF TypeOK
  <2>. QED BY <2>1, <2>2, <2>3 DEF StoreRules, SetUnmatched
<1>. QED BY <1>1, <1>2, <1>3, <1>4 DEF TypeOK, proposal, verdict

(* Every step keeps the invariant. *)
LEMMA InvStep == IInv /\ [Next]_vars => IInv'
<1> SUFFICES ASSUME IInv, [Next]_vars PROVE IInv'
    OBVIOUS
<1> USE BoundAssumption
<1>0. TypeOK /\ ReadInv /\ RiskInv /\ SeenInv /\ DecisionInv
      BY DEF IInv
<1>1. CASE \/ \E rs \in RuleBooks : StoreRules(rs)
           \/ \E w \in Windows : Open(w)
           \/ \E c \in Ceilings : SetUnmatched(c)
           \/ RevokeAll
      BY <1>0, <1>1, ActTypes, ActKeeps
<1>2. CASE Propose
  <2>1. TypeOK' BY <1>0, <1>2 DEF Propose, TypeOK, policy, verdict
  <2>2. ReadInv' /\ RiskInv' /\ SeenInv'
        BY <1>0, <1>2 DEF Propose, ReadInv, RiskInv, SeenInv, policy
  <2>3. DecisionInv' BY <1>0, <1>2 DEF Propose, DecisionInv, verdict
  <2>. QED BY <2>1, <2>2, <2>3 DEF IInv
<1>3. CASE ReadRules
  <2>1. readRules' \in Seq(AutoApprovalRule) /\ Normalised(readRules')
        BY <1>0, <1>3, NoRules DEF ReadRules, TypeOK
  <2>2. TypeOK' BY <1>0, <1>3, <2>1 DEF ReadRules, TypeOK, policy, verdict
  <2>3. ReadInv' /\ RiskInv' BY <1>0, <1>3, <2>1 DEF ReadRules, ReadInv, RiskInv
  <2>4. SeenInv'
    <3>1. pc' = "rules" /\ rules' = rules /\ inForce' = inForce /\ rules \in inForce
          BY <1>0, <1>3 DEF ReadRules, SeenInv, policy
    <3>2. ~unreadable' => readRules' = rules BY <1>3 DEF ReadRules
    <3>. QED BY <3>1, <3>2 DEF SeenInv
  <2>5. DecisionInv' BY <1>0, <1>3 DEF ReadRules, DecisionInv, verdict
  <2>. QED BY <2>2, <2>3, <2>4, <2>5 DEF IInv
<1>4. CASE ReadUnmatched
  <2>1. TypeOK' BY <1>0, <1>4 DEF ReadUnmatched, TypeOK, policy, verdict
  <2>2. ReadInv' BY <1>0, <1>4 DEF ReadUnmatched, ReadInv, TypeOK
  <2>3. RiskInv' /\ SeenInv' BY <1>0, <1>4 DEF ReadUnmatched, RiskInv, SeenInv, policy
  <2>4. DecisionInv' BY <1>0, <1>4 DEF ReadUnmatched, DecisionInv, verdict
  <2>. QED BY <2>1, <2>2, <2>3, <2>4 DEF IInv
<1>5. CASE ReadWindows
  <2>1. readWindows' \subseteq windows BY <1>5 DEF ReadWindows
  <2>2. TypeOK' BY <1>0, <1>5, <2>1 DEF ReadWindows, TypeOK, policy, verdict
  <2>3. ReadInv' BY <1>0, <1>5, <2>1 DEF ReadWindows, ReadInv, TypeOK
  <2>4. RiskInv' /\ SeenInv' BY <1>0, <1>5 DEF ReadWindows, RiskInv, SeenInv, policy
  <2>5. DecisionInv' BY <1>0, <1>5 DEF ReadWindows, DecisionInv, verdict
  <2>. QED BY <2>2, <2>3, <2>4, <2>5 DEF IInv
<1>6. CASE Decide
  <2>1. /\ decision' \in Decisions(now) /\ decidedAt' = now
        /\ UNCHANGED <<policy, now, edits, proposal, inForce>>
        BY <1>6 DEF Decide, Decisions
  <2>2. pc' = IF decision'.approve THEN "landing" ELSE "asked"
        BY <1>6 DEF Decide
  <2>3. TypeOK' BY <1>0, <1>6, <2>1, <2>2 DEF Decide, TypeOK, policy, proposal
  <2>4. ReadInv' /\ RiskInv' BY <1>0, <1>6, <2>1 DEF Decide, ReadInv, RiskInv, proposal
  <2>5. SeenInv' BY <1>0, <1>6, <2>1, <2>2 DEF Decide, SeenInv, proposal, policy
  <2>6. DecisionInv'
    <3>1. decision' \in Decisions(decidedAt)' BY <2>1 DEF Decisions, proposal
    <3>. QED BY <2>2, <3>1 DEF DecisionInv
  <2>. QED BY <2>3, <2>4, <2>5, <2>6 DEF IInv
<1>7. CASE Land
  <2>1. TypeOK' BY <1>0, <1>7 DEF Land, TypeOK, policy, proposal, verdict
  <2>2. ReadInv' /\ RiskInv' /\ SeenInv'
        BY <1>0, <1>7 DEF Land, ReadInv, RiskInv, SeenInv, proposal
  <2>3. DecisionInv' BY <1>0, <1>7 DEF Land, DecisionInv, Decisions, proposal, verdict
  <2>. QED BY <2>1, <2>2, <2>3 DEF IInv
<1>8. CASE Tick
  <2>1. TypeOK'
    <3>1. \A w \in windows : w.expiresAt \in Int BY <1>0 DEF TypeOK, Bypass
    <3>2. now \in Nat /\ now' = now + 1 /\ now' \in 0..MaxTime BY <1>0, <1>8 DEF Tick, TypeOK
    <3>3. \A w \in windows : w.expiresAt <= now' + MaxMinutes BY <1>0, <3>1, <3>2 DEF TypeOK
    <3>. QED BY <1>0, <1>8, <3>2, <3>3 DEF Tick, TypeOK, policy, proposal, verdict
  <2>2. ReadInv' /\ RiskInv' /\ SeenInv'
        BY <1>0, <1>8 DEF Tick, ReadInv, RiskInv, SeenInv, proposal, policy
  <2>3. DecisionInv' BY <1>0, <1>8 DEF Tick, DecisionInv, Decisions, proposal, verdict
  <2>. QED BY <2>1, <2>2, <2>3 DEF IInv
<1>9. CASE UNCHANGED vars
  <2>1. TypeOK' BY <1>0, <1>9 DEF vars, policy, proposal, verdict, TypeOK
  <2>2. ReadInv' /\ RiskInv' /\ SeenInv'
        BY <1>0, <1>9 DEF vars, policy, proposal, ReadInv, RiskInv, SeenInv
  <2>3. DecisionInv' BY <1>0, <1>9 DEF vars, proposal, verdict, DecisionInv, Decisions
  <2>. QED BY <2>1, <2>2, <2>3 DEF IInv
<1>. QED BY <1>1, <1>2, <1>3, <1>4, <1>5, <1>6, <1>7, <1>8, <1>9 DEF Next

(* Whatever has been decided was decided on a well-formed policy.           *)
LEMMA DecisionsAreDecided ==
  ASSUME IInv, NEW t, decision \in Decisions(t)
  PROVE  /\ decision.approve \in BOOLEAN
         /\ decision.approve
              => Explained(readRules, readUnmatched, readWindows, req, risk, t, decision)
         /\ ~decision.approve /\ req.reversible /\ ValidRisk(risk) /\ ~Excludes(readRules, req)
              => /\ NoneGrants(readRules, readUnmatched, req, risk)
                 /\ \A w \in readWindows : t < w.expiresAt /\ w.plugin \in {"", req.plugin}
                                             => ~AtLeast(w.ceiling, risk)
<1>1. /\ readRules \in Seq(AutoApprovalRule) /\ Normalised(readRules)
      /\ Rank(readUnmatched) \in 0..3
      /\ \A w \in readWindows : ValidRisk(w.ceiling) /\ w.ceiling # "critical"
      BY CeilingRanks DEF IInv, TypeOK, ReadInv
<1>. QED BY <1>1, Decided DEF Decisions

(* The invariant holds in every reachable state. *)
THEOREM Inductive == Spec => []IInv
BY InitInv, InvStep, PTL DEF Spec

(* Every reachable state of the policy and the proposal is well typed.      *)
THEOREM TypeCorrect == Spec => []TypeOK
<1>1. IInv => TypeOK BY DEF IInv
<1>. QED BY Inductive, <1>1, PTL

(* What the rules read say of the request, in terms of their places.        *)
LEMMA ReadFacts ==
  ASSUME IInv
  PROVE  /\ Excluding = {} <=> ~Excludes(readRules, req)
         /\ Granting = {} <=> NoGrant(readRules, req)
         /\ \A i \in 1..Len(readRules) : /\ readRules[i] \in AutoApprovalRule
                                         /\ readRules[i] \in Read
         /\ \A r \in Granting : \E i \in 1..Len(readRules) :
              r = readRules[i] /\ Fits(readRules, req, FALSE, i)
         /\ \A i \in 1..Len(readRules) :
              Fits(readRules, req, FALSE, i) => readRules[i] \in Granting
<1>1. readRules \in Seq(AutoApprovalRule)
      BY DEF IInv, TypeOK
<1>2. DOMAIN readRules = 1..Len(readRules)
      BY <1>1
<1>3. \A i \in 1..Len(readRules) : readRules[i] \in AutoApprovalRule /\ readRules[i] \in Read
      BY <1>1, <1>2 DEF Read
<1>4. \A r \in Read : \E i \in 1..Len(readRules) : r = readRules[i]
      BY <1>2 DEF Read
<1>5. \A i : Fits(readRules, req, TRUE, i)
               <=> Matches(readRules[i], req) /\ AuthorisesNothing(readRules[i])
      BY DEF Fits, AuthorisesNothing
<1>6. \A i : Fits(readRules, req, FALSE, i)
               <=> Matches(readRules[i], req) /\ ~AuthorisesNothing(readRules[i])
      BY DEF Fits, AuthorisesNothing
<1>7. Excluding = {} <=> ~Excludes(readRules, req)
      BY <1>3, <1>4, <1>5 DEF Excluding, Excludes
<1>8. /\ \A r \in Granting : \E i \in 1..Len(readRules) :
           r = readRules[i] /\ Fits(readRules, req, FALSE, i)
      /\ \A i \in 1..Len(readRules) :
           Fits(readRules, req, FALSE, i) => readRules[i] \in Granting
      BY <1>3, <1>4, <1>6 DEF Granting
<1>9. Granting = {} <=> NoGrant(readRules, req)
      BY <1>8 DEF NoGrant
<1>. QED BY <1>3, <1>7, <1>8, <1>9

(* The risk is no less than the declaration and the override.               *)
LEMMA RiskCounts ==
  ASSUME NEW a, NEW b
  PROVE  AtLeast(MaxRisk(a, b), a) /\ AtLeast(MaxRisk(a, b), b)
<1>1. Rank(a) \in 0..5 /\ Rank(b) \in 0..5
      BY Ranks
<1>2. Rank("") = 0
      BY DEF Rank
<1>3. Rank("low") = 1
      BY DEF Rank
<1> DEFINE top == IF Rank(b) > Rank(a) THEN b ELSE a
<1>4. Rank(top) >= Rank(a) /\ Rank(top) >= Rank(b)
      BY <1>1
<1>5. MaxRisk(a, b) = IF top = "" THEN "low" ELSE top
      BY DEF MaxRisk
<1> HIDE DEF top
<1>6. CASE top = ""
  <2>1. Rank(top) = 0 BY <1>2, <1>6, Zenon
  <2>2. Rank(a) = 0 /\ Rank(b) = 0 BY <1>1, <1>4, <2>1
  <2>3. Rank(MaxRisk(a, b)) = 1 BY <1>3, <1>5, <1>6, Zenon
  <2>. QED BY <2>2, <2>3 DEF AtLeast
<1>7. CASE top # "" BY <1>4, <1>5, <1>7 DEF AtLeast
<1>. QED BY <1>6, <1>7

(* What is approved was decided on what was read, and says who decided.     *)
LEMMA ApprovedIsExplained ==
  ASSUME IInv, decision.approve
  PROVE  Explained(readRules, readUnmatched, readWindows, req, risk, decidedAt, decision)
<1>1. Nothing.approve = FALSE
      BY DEF Nothing, Ask
<1>2. decision # Nothing
      BY <1>1
<1>3. pc \in {"asked", "landing", "approved"}
      BY <1>2 DEF IInv, TypeOK, DecisionInv
<1>4. decision \in Decisions(decidedAt)
      BY <1>3 DEF IInv, DecisionInv
<1>. QED BY <1>4, DecisionsAreDecided

(* An unattended approval is explained by the policy that was read - a      *)
(* window, by one that had not expired when the decision was made - and     *)
(* stays within its limits, for any rules, defaults and windows, however    *)
(* an administrator changes them between the reads; a stored exclusion is   *)
(* kept unless the stored rules could not be read (Service.autoApprove).    *)
THEOREM ApprovalsCovered == Spec => []ApprovalsAreCovered
<1>1. IInv => ApprovalsAreCovered
  <2> SUFFICES ASSUME IInv PROVE ApprovalsAreCovered
      OBVIOUS
  <2> DEFINE explained == Explained(readRules, readUnmatched, readWindows, req, risk, decidedAt,
                                    decision)
  <2>1. decision.approve => explained
        BY ApprovedIsExplained
  <2>2. NothingReachesPastItsLimits
    <3> SUFFICES ASSUME pc = "approved"
                 PROVE  /\ req.reversible /\ risk # "critical"
                        /\ AtLeast(risk, req.declared) /\ AtLeast(risk, req.override)
                        /\ Excluding = {}
                        /\ ~unreadable => \E rs \in inForce : \A i \in DOMAIN rs :
                             Matches(rs[i], req) => ~AuthorisesNothing(rs[i])
        BY DEF NothingReachesPastItsLimits
    <3>1. explained BY <2>1 DEF IInv, DecisionInv
    <3>2. req.reversible /\ Rank(risk) \in 1..3 /\ ~Excludes(readRules, req)
          BY <3>1 DEF Explained
    <3>3. risk # "critical" BY <3>2, Ranks
    <3>4. AtLeast(risk, req.declared) /\ AtLeast(risk, req.override)
      <4>1. risk = MaxRisk(req.declared, req.override) BY DEF IInv, RiskInv
      <4>. QED BY <4>1, RiskCounts
    <3>5. Excluding = {} BY <3>2, ReadFacts
    <3>6. ~unreadable => \E rs \in inForce : \A i \in DOMAIN rs :
            Matches(rs[i], req) => ~AuthorisesNothing(rs[i])
      <4> SUFFICES ASSUME ~unreadable
                   PROVE  \E rs \in inForce : \A i \in DOMAIN rs :
                            Matches(rs[i], req) => ~AuthorisesNothing(rs[i])
          OBVIOUS
      <4>1. readRules \in inForce BY DEF IInv, SeenInv
      <4>2. \A i \in DOMAIN readRules : readRules[i] \in Read BY DEF Read
      <4>3. \A i \in DOMAIN readRules :
              Matches(readRules[i], req) => ~AuthorisesNothing(readRules[i])
            BY <3>5, <4>2 DEF Excluding
      <4>. QED BY <4>1, <4>3
    <3>. QED BY <3>2, <3>3, <3>4, <3>5, <3>6
  <2>3. AuthorityExplains
    <3> SUFFICES ASSUME decision.approve
                 PROVE  CASE decision.by = "rule" ->
                               \E r \in Granting :
                                 /\ r.id = decision.id
                                 /\ AtLeast(r.maxRisk, risk)
                                 /\ \A g \in Granting \ {r} : Specificity(g) <= Specificity(r)
                          [] decision.by = "default" ->
                               Granting = {} /\ AtLeast(readUnmatched, risk)
                          [] decision.by = "bypass" ->
                               \E w \in readWindows : /\ w.id = decision.id
                                                      /\ decidedAt < w.expiresAt
                                                      /\ w.plugin \in {"", req.plugin}
                                                      /\ AtLeast(w.ceiling, risk)
        BY DEF AuthorityExplains
    <3>1. explained BY <2>1
    <3>2. CASE decision.by = "rule"
      <4>1. PICK i \in 1..Len(readRules) : /\ Narrowest(readRules, req, i)
                                           /\ decision.id = readRules[i].id
                                           /\ AtLeast(readRules[i].maxRisk, risk)
            BY <3>1, <3>2 DEF Explained
      <4>2. readRules[i] \in Granting BY <4>1, ReadFacts DEF Narrowest
      <4>3. \A g \in Granting : Specificity(g) <= Specificity(readRules[i])
            BY <4>1, ReadFacts DEF Narrowest
      <4>4. \E r \in Granting : /\ r.id = decision.id
                                /\ AtLeast(r.maxRisk, risk)
                                /\ \A g \in Granting \ {r} : Specificity(g) <= Specificity(r)
            BY <4>1, <4>2, <4>3
      <4>. QED BY <3>2, <4>4
    <3>3. CASE decision.by = "default"
      <4>1. NoGrant(readRules, req) /\ AtLeast(readUnmatched, risk)
            BY <3>1, <3>3 DEF Explained
      <4>2. Granting = {} BY <4>1, ReadFacts
      <4>. QED BY <3>3, <4>1, <4>2
    <3>4. CASE decision.by = "bypass"
      <4>1. \E w \in readWindows : /\ w.id = decision.id
                                   /\ decidedAt < w.expiresAt
                                   /\ w.plugin \in {"", req.plugin}
                                   /\ AtLeast(w.ceiling, risk)
            BY <3>1, <3>4 DEF Explained
      <4>. QED BY <3>4, <4>1
    <3>5. decision.by \in {"rule", "default", "bypass"} BY <3>1 DEF Explained
    <3>. QED BY <3>2, <3>3, <3>4, <3>5
  <2>. QED BY <2>2, <2>3 DEF ApprovalsAreCovered, IInv
<1>. QED BY Inductive, <1>1, PTL

(* A person is asked only when nothing that was read authorises the change, *)
(* whatever order the rules are in: the narrowest grant, the default and    *)
(* every window all fall short (AutoApprovalPolicy.match, applyBypass).     *)
THEOREM PeopleAreAskedForAReason == Spec => []AskedForAReason
<1>1. IInv => AskedForAReason
  <2> SUFFICES ASSUME IInv, pc = "asked", ~decision.approve, req.reversible, Excluding = {}
               PROVE  /\ Granting = {} => ~AtLeast(readUnmatched, risk)
                      /\ \A r \in Granting :
                           (\A g \in Granting : Specificity(g) <= Specificity(r))
                             => ~AtLeast(r.maxRisk, risk)
                      /\ \A w \in readWindows :
                           now < w.expiresAt /\ w.plugin \in {"", req.plugin}
                             => ~AtLeast(w.ceiling, risk)
      BY DEF AskedForAReason
  <2>1. ValidRisk(risk) BY DEF IInv, TypeOK
  <2>2. ~Excludes(readRules, req) BY ReadFacts
  <2>3. decision \in Decisions(decidedAt) BY DEF IInv, DecisionInv
  <2>4. /\ NoneGrants(readRules, readUnmatched, req, risk)
        /\ \A w \in readWindows : decidedAt < w.expiresAt /\ w.plugin \in {"", req.plugin}
                                    => ~AtLeast(w.ceiling, risk)
        BY <2>1, <2>2, <2>3, DecisionsAreDecided
  <2>5. Granting = {} => ~AtLeast(readUnmatched, risk)
        BY <2>4, ReadFacts DEF NoneGrants
  <2>6. ASSUME NEW r \in Granting, \A g \in Granting : Specificity(g) <= Specificity(r)
        PROVE  ~AtLeast(r.maxRisk, risk)
    <3>1. PICK i \in 1..Len(readRules) : r = readRules[i] /\ Fits(readRules, req, FALSE, i)
          BY ReadFacts
    <3>2. Narrowest(readRules, req, i) BY <2>6, <3>1, ReadFacts DEF Narrowest
    <3>. QED BY <2>4, <3>1, <3>2 DEF NoneGrants
  <2>7. ASSUME NEW w \in readWindows, now < w.expiresAt, w.plugin \in {"", req.plugin}
        PROVE  ~AtLeast(w.ceiling, risk)
    <3>1. now \in Int /\ w.expiresAt \in Int /\ decidedAt \in Int /\ decidedAt <= now
          BY DEF IInv, TypeOK, Bypass
    <3>2. now < w.expiresAt BY <2>7
    <3>3. decidedAt < w.expiresAt BY <3>1, <3>2
    <3>. QED BY <2>4, <2>7, <3>3
  <2>. QED BY <2>5, <2>6, <2>7
<1>. QED BY Inductive, <1>1, PTL
=============================================================================
