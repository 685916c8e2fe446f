--------------------------- MODULE AccountsProofs ---------------------------
(* What holds of the accounts, the roles and the keys for any number of     *)
(* each, and any number of requests between two of their steps.             *)
EXTENDS Accounts, FiniteSetTheorems, TLAPS

PeopleOK ==
  /\ status \in [Users -> {"none", "pending", "active"}]
  /\ disabled \subseteq Accounts /\ lapsed \subseteq Accounts
  /\ role \in [Users -> Builtin \cup Custom \cup {NoRole}]
  /\ password \in [Users -> Hashes \cup {NoPassword}]
  /\ invite \in [Users -> Providers \cup {NoProvider}]

(* Every row that names an account names one there is: the foreign keys.    *)
IdentitiesOK ==
  /\ identities \subseteq Identity
  /\ \A i, j \in identities :
       i.provider = j.provider /\ (i.subject = j.subject \/ i.user = j.user) => i = j
  /\ \A i \in identities : i.user \in Accounts

OffersOK ==
  /\ offers \subseteq Offer
  /\ \A o, q \in offers : o.user = q.user => o = q
  /\ \A o \in offers : o.user \in Accounts

(* Nobody is signed in to an account whose invitation is open, and a        *)
(* session that was there at a switch is of an account that is still off.   *)
SessionsOK ==
  /\ sessions \subseteq Session
  /\ \A s \in sessions : /\ s.user \in Accounts /\ ~Invited(s.user)
                         /\ s.off => s.user \in disabled

RightsOK ==
  /\ custom \in [Custom -> {"none", "plain", "access"}]
  /\ groupRole \in [Groups -> Builtin \cup Custom \cup {NoRole, "none"}]
  /\ members \subseteq GroupsThere \X (Accounts \cup Keys)

KeyOK(k) ==
  /\ keyState[k] = "none" => secret[k] = 0 /\ previous[k] = 0
  /\ keyState[k] # "none" => previous[k] < secret[k]

KeysOK ==
  /\ keyState \in [Keys -> {"none", "live", "expired", "revoked"}]
  /\ DOMAIN keyRole = Keys /\ graceOver \subseteq Keys
  /\ secret \in [Keys -> Nat] /\ previous \in [Keys -> Nat]
  /\ \A k \in Keys : KeyOK(k)

(* A request that acts for an account acts for one that exists and has been *)
(* claimed; only such a one could have started it.                          *)
ForAnAccount == {"offering", "linking", "confirming", "opening"}

FlowSet ==
  [step : Steps, user : Users, provider : Providers \cup {NoProvider},
   subject : Subjects \cup {NoSubject}, hash : Hashes \cup {NoPassword}]

Good(f) ==
  /\ f \in FlowSet
  /\ f.step # "opening" => f.provider \in Providers /\ f.subject \in Subjects
  /\ f.step \in ForAnAccount => f.user \in Accounts /\ ~Invited(f.user)

Few == IsFiniteSet(flows) /\ Cardinality(flows) <= MaxFlows

FlowsOK == (\A f \in flows : Good(f)) /\ Few

IInv ==
  /\ PeopleOK /\ IdentitiesOK /\ OffersOK /\ SessionsOK /\ RightsOK
  /\ KeysOK /\ FlowsOK /\ HeldRolesExist /\ OneWayOrTheOther

-----------------------------------------------------------------------------
(* There is always a hash that no request has read.                         *)
LEMMA AHashIsNew ==
  ASSUME IInv, NEW u \in Users
  PROVE  NewHash(u) \in Hashes
<1> DEFINE H == {f.hash : f \in flows}
<1>1. IsFiniteSet(H) /\ Cardinality(H) <= Cardinality(flows)
  <2>1. IsFiniteSet(flows) BY DEF IInv, FlowsOK, Few
  <2>2. PICK n \in Nat : n = Cardinality(flows) BY <2>1, FS_CardinalityType
  <2> DEFINE hash == [f \in flows |-> f.hash]
  <2>3. hash \in Surjection(flows, H) BY Zenon DEF Surjection
  <2>. QED BY ONLY <2>1, <2>3, FS_Surjection
<1>2. \E h \in Hashes : h \notin H
  <2> SUFFICES ASSUME Hashes \subseteq H PROVE FALSE OBVIOUS
  <2>1. Cardinality(Hashes) <= Cardinality(H) BY <1>1, FS_Subset
  <2>2. Cardinality(H) \in Nat /\ Cardinality(Hashes) \in Nat /\ Cardinality(flows) \in Nat
        BY <1>1, FlowAssumption, FS_CardinalityType DEF IInv, FlowsOK, Few
  <2> HIDE DEF H
  <2>. QED BY <1>1, <2>1, <2>2, FlowAssumption DEF IInv, FlowsOK, Few
<1>. QED BY <1>2 DEF NewHash

(* How the number of requests under way changes.                            *)
LEMMA FewRemain ==
  ASSUME Few
  PROVE  /\ \A f : Begin(f) => Few'
         /\ \A f \in flows : \A g : Becomes(f, g) => Few'
         /\ flows' \subseteq flows => Few'
<1>0. Cardinality(flows) \in Nat BY FS_CardinalityType DEF Few
<1>1. ASSUME NEW f, Begin(f) PROVE Few'
  <2>1. /\ IsFiniteSet(flows \cup {f})
        /\ Cardinality(flows \cup {f}) =
             IF f \in flows THEN Cardinality(flows) ELSE Cardinality(flows) + 1
        BY FS_AddElement DEF Few
  <2>2. IsFiniteSet(flows') /\ Cardinality(flows') <= MaxFlows
        BY <1>0, <1>1, <2>1, FlowAssumption DEF Begin
  <2>. QED BY <2>2 DEF Few
<1>2. ASSUME NEW f \in flows, NEW g, Becomes(f, g) PROVE Few'
  <2>1. IsFiniteSet(flows \ {f}) /\ Cardinality(flows \ {f}) = Cardinality(flows) - 1
        BY FS_RemoveElement DEF Few
  <2> DEFINE rest == flows \ {f}
  <2>2. /\ IsFiniteSet(rest \cup {g})
        /\ Cardinality(rest \cup {g}) =
             IF g \in rest THEN Cardinality(rest) ELSE Cardinality(rest) + 1
        BY <2>1, FS_AddElement
  <2>3. IsFiniteSet(flows') /\ Cardinality(flows') <= Cardinality(flows)
        BY <1>0, <1>2, <2>1, <2>2 DEF Becomes
  <2>4. Cardinality(flows') \in Nat BY <2>3, FS_CardinalityType
  <2>5. Cardinality(flows) <= MaxFlows BY DEF Few
  <2>. QED BY <1>0, <2>3, <2>4, <2>5, FlowAssumption DEF Few
<1>3. ASSUME flows' \subseteq flows PROVE Few'
  <2>1. IsFiniteSet(flows') /\ Cardinality(flows') <= Cardinality(flows)
        BY <1>3, FS_Subset DEF Few
  <2>2. Cardinality(flows') \in Nat BY <2>1, FS_CardinalityType
  <2>. QED BY <1>0, <2>1, <2>2, FlowAssumption DEF Few
<1>. QED BY <1>1, <1>2, <1>3

(* What an action leaves alone stays as it should be.                       *)
LEMMA Frames ==
  ASSUME IInv
  PROVE  /\ UNCHANGED people => PeopleOK'
         /\ UNCHANGED <<status, identities>> => IdentitiesOK'
         /\ UNCHANGED <<status, offers>> => OffersOK'
         /\ UNCHANGED <<status, disabled, invite, sessions>> => SessionsOK'
         /\ UNCHANGED <<status, rights>> => RightsOK'
         /\ UNCHANGED keyVars => KeysOK'
         /\ UNCHANGED <<status, invite, flows>> => FlowsOK'
         /\ UNCHANGED <<status, role, custom, groupRole, keyState, keyRole>>
              => HeldRolesExist'
         /\ UNCHANGED <<status, invite, password, identities>> => OneWayOrTheOther'
<1>1. UNCHANGED people => PeopleOK' BY DEF IInv, PeopleOK, people, Accounts
<1>2. UNCHANGED <<status, identities>> => IdentitiesOK'
      BY DEF IInv, IdentitiesOK, Accounts
<1>3. UNCHANGED <<status, offers>> => OffersOK' BY DEF IInv, OffersOK, Accounts
<1>4. UNCHANGED <<status, disabled, invite, sessions>> => SessionsOK'
      BY DEF IInv, SessionsOK, Accounts, Invited
<1>5. UNCHANGED <<status, rights>> => RightsOK'
      BY DEF IInv, RightsOK, rights, Accounts, GroupsThere
<1>6. UNCHANGED keyVars => KeysOK' BY DEF IInv, KeysOK, keyVars, KeyOK
<1>7. UNCHANGED <<status, invite, flows>> => FlowsOK'
      BY DEF IInv, FlowsOK, Good, Few, Accounts, Invited
<1>8. UNCHANGED <<status, role, custom, groupRole, keyState, keyRole>> => HeldRolesExist'
      BY DEF IInv, HeldRolesExist, Accounts, GroupsThere, RoleExists, Revocable
<1>9. UNCHANGED <<status, invite, password, identities>> => OneWayOrTheOther'
      BY DEF IInv, OneWayOrTheOther, Accounts, Invited, HasPassword, IdentitiesOf
<1>. QED BY <1>1, <1>2, <1>3, <1>4, <1>5, <1>6, <1>7, <1>8, <1>9

(* The initial state.                                                       *)
LEMMA InitInv == Init => IInv
<1> SUFFICES ASSUME Init PROVE IInv OBVIOUS
<1> USE DEF Init, DirInit, KeyInit
<1>1. Accounts = {} /\ GroupsThere = {} BY DEF Accounts, GroupsThere
<1>2. PeopleOK BY DEF PeopleOK
<1>3. IdentitiesOK /\ OffersOK /\ SessionsOK BY DEF IdentitiesOK, OffersOK, SessionsOK
<1>4. RightsOK BY DEF RightsOK
<1>5. KeysOK BY DEF KeysOK, KeyOK
<1>6. FlowsOK BY FS_EmptySet, FlowAssumption DEF FlowsOK, Few
<1>7. HeldRolesExist BY <1>1 DEF HeldRolesExist, Revocable
<1>8. OneWayOrTheOther BY <1>1 DEF OneWayOrTheOther
<1>. QED BY <1>2, <1>3, <1>4, <1>5, <1>6, <1>7, <1>8 DEF IInv

-----------------------------------------------------------------------------
(* No account goes, and none that was claimed is up for claiming again.     *)
Remain == \A u \in Accounts : u \in Accounts' /\ (Invited(u)' => Invited(u))

LEMMA WhoeverRemains ==
  ASSUME IInv, Remain
  PROVE  /\ identities' \subseteq identities => IdentitiesOK'
         /\ offers' \subseteq offers => OffersOK'
         /\ sessions' \subseteq sessions /\ disabled \subseteq disabled' => SessionsOK'
         /\ UNCHANGED rights => RightsOK'
         /\ flows' \subseteq flows => FlowsOK'
         /\ \A f : Begin(f) /\ Good(f)' => FlowsOK'
         /\ \A f \in flows : \A g : Becomes(f, g) /\ Good(g)' => FlowsOK'
<1>1. identities' \subseteq identities => IdentitiesOK'
      BY DEF IInv, IdentitiesOK, Remain
<1>2. offers' \subseteq offers => OffersOK' BY DEF IInv, OffersOK, Remain
<1>3. sessions' \subseteq sessions /\ disabled \subseteq disabled' => SessionsOK'
      BY DEF IInv, SessionsOK, Remain
<1>4. UNCHANGED rights => RightsOK'
  <2> SUFFICES ASSUME UNCHANGED rights PROVE RightsOK' OBVIOUS
  <2>1. Accounts \subseteq Accounts' /\ GroupsThere' = GroupsThere
        BY DEF Remain, rights, GroupsThere
  <2>. QED BY <2>1 DEF IInv, RightsOK, rights
<1>5. \A f \in flows : Good(f)' BY DEF IInv, FlowsOK, Good, Remain
<1>6. Few BY DEF IInv, FlowsOK
<1>7. flows' \subseteq flows => FlowsOK' BY <1>5, <1>6, FewRemain DEF FlowsOK
<1>8. ASSUME NEW f, Begin(f), Good(f)' PROVE FlowsOK'
  <2>1. Few' BY <1>6, <1>8, FewRemain
  <2>2. \A g \in flows' : Good(g)' BY <1>5, <1>8 DEF Begin
  <2>. QED BY <2>1, <2>2 DEF FlowsOK
<1>9. ASSUME NEW f \in flows, NEW g, Becomes(f, g), Good(g)' PROVE FlowsOK'
  <2>1. Few' BY <1>6, <1>9, FewRemain
  <2>2. \A e \in flows' : Good(e)' BY <1>5, <1>9 DEF Becomes
  <2>. QED BY <2>1, <2>2 DEF FlowsOK
<1>. QED BY <1>1, <1>2, <1>3, <1>4, <1>7, <1>8, <1>9

(* A new account takes nothing over from anybody.                           *)
LEMMA ANewAccount ==
  ASSUME IInv, NEW u \in Users, NEW st \in {"pending", "active"},
         NEW r \in RolesThere, NEW h \in Hashes \cup {NoPassword},
         NEW p \in Providers \cup {NoProvider}, Insert(u, st, r, h, p),
         UNCHANGED <<custom, groupRole, keyVars>>
  PROVE  /\ u \notin Accounts /\ Accounts' = Accounts \cup {u} /\ Remain
         /\ PeopleOK' /\ KeysOK' /\ HeldRolesExist'
         /\ IdentitiesOf(u) = {}
         /\ \A v \in Accounts : /\ Invited(v)' = Invited(v)
                                /\ HasPassword(v)' = HasPassword(v)
         /\ Invited(u)' = (p # NoProvider) /\ HasPassword(u)' = (h # NoPassword)
<1>0. r \in Builtin \cup Custom /\ RoleExists(r) BY DEF RolesThere
<1>1. u \notin Accounts /\ Accounts' = Accounts \cup {u}
      BY DEF IInv, PeopleOK, Insert, Accounts
<1>2. \A v \in Accounts : /\ Invited(v)' = Invited(v) /\ HasPassword(v)' = HasPassword(v)
                          /\ role'[v] = role[v]
      BY <1>1 DEF IInv, PeopleOK, Insert, Accounts, Invited, HasPassword
<1>3. Invited(u)' = (p # NoProvider) /\ HasPassword(u)' = (h # NoPassword) /\ role'[u] = r
      BY DEF IInv, PeopleOK, Insert, Invited, HasPassword
<1>4. Remain BY <1>1, <1>2 DEF Remain
<1>5. PeopleOK'
  <2>1. disabled' \subseteq Accounts' /\ lapsed' \subseteq Accounts'
        BY <1>1 DEF IInv, PeopleOK, Insert
  <2>. QED BY <1>0, <2>1 DEF IInv, PeopleOK, Insert
<1>6. KeysOK' BY Frames
<1>7. HeldRolesExist'
  <2>1. \A q : RoleExists(q)' = RoleExists(q) BY DEF RoleExists
  <2>2. \A v \in Accounts' : RoleExists(role[v])'
        BY <1>0, <1>1, <1>2, <1>3, <2>1 DEF IInv, HeldRolesExist
  <2>3. /\ \A g \in GroupsThere' : groupRole'[g] = NoRole \/ RoleExists(groupRole[g])'
        /\ \A k \in Keys : Revocable(k)' => RoleExists(keyRole[k])'
        BY <2>1 DEF IInv, HeldRolesExist, GroupsThere, Revocable, keyVars
  <2>. QED BY <2>2, <2>3 DEF HeldRolesExist
<1>8. IdentitiesOf(u) = {} BY <1>1 DEF IInv, IdentitiesOK, IdentitiesOf
<1>. QED BY <1>1, <1>2, <1>3, <1>4, <1>5, <1>6, <1>7, <1>8

(* Memberships only of groups, accounts and keys there are.                 *)
LEMMA MembershipsAreOfSomebody ==
  ASSUME IInv, NEW gs \in SUBSET GroupsThere, NEW x, x \in Accounts' \cup Keys,
         Accounts \subseteq Accounts', UNCHANGED <<custom, groupRole>>,
         members' \subseteq members \cup (gs \X {x})
  PROVE  RightsOK'
<1>1. GroupsThere' = GroupsThere BY DEF GroupsThere
<1>2. members' \subseteq GroupsThere' \X (Accounts' \cup Keys)
      BY <1>1 DEF IInv, RightsOK
<1>. QED BY <1>2 DEF IInv, RightsOK

-----------------------------------------------------------------------------
(* Requests that have only read: what is stored stays as it is.             *)
LEMMA OnlyRequestsChange ==
  ASSUME IInv, UNCHANGED <<dirVars, keyVars>>
  PROVE  /\ FlowsOK' => IInv'
         /\ \A f : Begin(f) /\ Good(f) => IInv'
         /\ \A f \in flows : \A g : Becomes(f, g) /\ Good(g) => IInv'
         /\ flows' \subseteq flows => IInv'
<1> USE DEF dirVars
<1>1. Remain BY DEF Remain, people, Accounts, Invited
<1>2. \A f : Good(f) => Good(f)' BY DEF Good, people, Accounts, Invited
<1>3. FlowsOK' => IInv'
  <2>1. PeopleOK' /\ IdentitiesOK' /\ OffersOK' /\ SessionsOK' /\ RightsOK' /\ KeysOK'
        BY Frames DEF people, signs
  <2>2. HeldRolesExist' /\ OneWayOrTheOther'
        BY Frames DEF people, signs, rights, keyVars
  <2>. QED BY <2>1, <2>2 DEF IInv
<1>. QED BY <1>1, <1>2, <1>3, WhoeverRemains

(* A request on behalf of u, once it is known that it may be.               *)
LEMMA OpeningIsGood ==
  ASSUME NEW u \in Users, u \in Accounts, ~Invited(u)
  PROVE  Good(Opening(u))
BY DEF Good, FlowSet, Opening, Flow, Steps

LEMMA TheNextStepIsGood ==
  ASSUME NEW f, Good(f), NEW step \in Steps \ {"opening"}, f.step # "opening",
         step \in ForAnAccount => f.user \in Accounts /\ ~Invited(f.user)
  PROVE  Good(At(f, step))
<1>1. At(f, step) \in FlowSet BY DEF Good, FlowSet, At
<1>2. /\ At(f, step).step = step /\ At(f, step).user = f.user
      /\ At(f, step).provider = f.provider /\ At(f, step).subject = f.subject
      BY DEF Good, FlowSet, At
<1>. QED BY <1>1, <1>2 DEF Good

(* Whoever has a password or a provider has no invitation open.             *)
LEMMA ACredentialClosesTheInvitation ==
  ASSUME IInv, NEW u \in Accounts, HasPassword(u) \/ IdentitiesOf(u) # {}
  PROVE  ~Invited(u)
BY DEF IInv, OneWayOrTheOther

LEMMA AuthenticateInv ==
  ASSUME IInv, NEW u \in Users, Authenticate(u), UNCHANGED keyVars
  PROVE  IInv'
BY OnlyRequestsChange, OpeningIsGood, ACredentialClosesTheInvitation DEF Authenticate

LEMMA ArriveInv ==
  ASSUME IInv, NEW u \in Users, NEW p \in Providers, NEW s \in Subjects,
         Arrive(p, s, u), UNCHANGED keyVars
  PROVE  IInv'
<1>1. CASE Linked(p, s)
  <2>1. PICK i \in identities : i.user \notin disabled /\ Begin(Opening(i.user))
        BY <1>1 DEF Arrive
  <2>2. i.user \in Users /\ i.user \in Accounts BY DEF IInv, IdentitiesOK, Accounts
  <2>3. IdentitiesOf(i.user) # {} BY DEF IdentitiesOf
  <2>4. Good(Opening(i.user))
        BY <2>2, <2>3, OpeningIsGood, ACredentialClosesTheInvitation
  <2>. QED BY <2>1, <2>4, OnlyRequestsChange DEF Arrive
<1>2. CASE ~Linked(p, s)
  <2>1. Good(Flow("claiming", u, p, s, NoPassword))
        BY DEF Good, FlowSet, Flow, Steps, ForAnAccount
  <2>. QED BY <1>2, <2>1, OnlyRequestsChange DEF Arrive
<1>. QED BY <1>1, <1>2

(* Offering a link follows only for an account that is in use.              *)
LEMMA OfferedInv ==
  ASSUME IInv, NEW f \in flows, f.step \in {"unmatched", "registering"},
         f.user \in Accounts, Offered(f), UNCHANGED <<dirVars, keyVars>>
  PROVE  IInv'
<1>1. Good(f) BY DEF IInv, FlowsOK
<1>2. CASE MayOffer(f.user, f.provider)
  <2>1. Good(At(f, "offering"))
        BY <1>1, <1>2, TheNextStepIsGood DEF MayOffer, Steps
  <2>. QED BY <1>2, <2>1, OnlyRequestsChange DEF Offered
<1>3. CASE ~MayOffer(f.user, f.provider)
      BY <1>3, OnlyRequestsChange DEF Offered, Ends
<1>. QED BY <1>2, <1>3

LEMMA LookInv ==
  ASSUME IInv, NEW f \in flows, Look(f), UNCHANGED keyVars
  PROVE  IInv'
<1>1. CASE f.user \in Accounts BY <1>1, OfferedInv DEF Look
<1>2. CASE f.user \notin Accounts
  <2>1. Good(At(f, "registering"))
        BY TheNextStepIsGood DEF Look, IInv, FlowsOK, Steps, ForAnAccount
  <2>. QED BY <1>2, <2>1, OnlyRequestsChange DEF Look
<1>. QED BY <1>1, <1>2

LEMMA StartLinkInv ==
  ASSUME IInv, NEW s \in sessions, NEW p \in Providers, NEW sub \in Subjects,
         StartLink(s, p, sub), UNCHANGED keyVars
  PROVE  IInv'
<1>1. s.user \in Accounts /\ ~Invited(s.user) BY DEF IInv, SessionsOK
<1>2. Good(Flow("linking", s.user, p, sub, NoPassword))
      BY <1>1 DEF Good, FlowSet, Flow, Steps, Accounts
<1>. QED BY <1>2, OnlyRequestsChange DEF StartLink

LEMMA CompareInv ==
  ASSUME IInv, NEW o \in offers, Compare(o), UNCHANGED keyVars
  PROVE  IInv'
<1>1. o \in Offer /\ o.user \in Accounts /\ ~Invited(o.user)
      BY ACredentialClosesTheInvitation DEF IInv, OffersOK, Compare, MayConfirm
<1>2. o.user \in Users /\ password[o.user] \in Hashes \cup {NoPassword}
      BY <1>1 DEF IInv, PeopleOK, Accounts
<1>3. Good(Flow("confirming", o.user, o.provider, o.subject, password[o.user]))
      BY <1>1, <1>2 DEF Good, FlowSet, Flow, Steps, Offer
<1>. QED BY <1>3, OnlyRequestsChange DEF Compare

LEMMA RefuseArrivalInv ==
  ASSUME IInv, NEW f \in flows, RefuseArrival(f), UNCHANGED keyVars
  PROVE  IInv'
BY OnlyRequestsChange DEF RefuseArrival, Ends

-----------------------------------------------------------------------------
(* Accounts that come into being.                                           *)

(* A new account with a password or an invitation, not both.                *)
LEMMA NewAccountInv ==
  ASSUME IInv, NEW u \in Users, NEW st \in {"pending", "active"},
         NEW r \in RolesThere, NEW h \in Hashes \cup {NoPassword},
         NEW p \in Providers \cup {NoProvider}, (p = NoProvider) # (h = NoPassword),
         NEW gs \in SUBSET GroupsThere, members' \subseteq members \cup (gs \X {u}),
         Insert(u, st, r, h, p), UNCHANGED <<signs, custom, groupRole, keyVars>>,
         UNCHANGED flows \/ (h # NoPassword /\ Begin(Opening(u)))
  PROVE  IInv'
<1>1. /\ u \notin Accounts /\ Accounts' = Accounts \cup {u} /\ Remain
      /\ PeopleOK' /\ KeysOK' /\ HeldRolesExist' /\ IdentitiesOf(u) = {}
      /\ \A v \in Accounts : Invited(v)' = Invited(v) /\ HasPassword(v)' = HasPassword(v)
      /\ Invited(u)' = (p # NoProvider) /\ HasPassword(u)' = (h # NoPassword)
      BY ANewAccount
<1>2. IdentitiesOK' /\ OffersOK' BY <1>1, WhoeverRemains DEF signs
<1>3. SessionsOK' BY <1>1, WhoeverRemains DEF signs, Insert
<1>4. RightsOK' BY <1>1, MembershipsAreOfSomebody
<1>5. FlowsOK'
  <2>1. CASE UNCHANGED flows BY <1>1, <2>1, WhoeverRemains
  <2>2. CASE h # NoPassword /\ Begin(Opening(u))
    <3>1. u \in Accounts' /\ ~Invited(u)' BY <1>1, <2>2
    <3>2. Good(Opening(u))' BY <3>1 DEF Good, FlowSet, Opening, Flow, Steps
    <3>. QED BY <1>1, <2>2, <3>2, WhoeverRemains
  <2>. QED BY <2>1, <2>2
<1>6. OneWayOrTheOther'
  <2>1. \A v \in Users : IdentitiesOf(v)' = IdentitiesOf(v) BY DEF signs, IdentitiesOf
  <2>. QED BY <1>1, <2>1 DEF IInv, OneWayOrTheOther, Accounts
<1>. QED BY <1>1, <1>2, <1>3, <1>4, <1>5, <1>6 DEF IInv

LEMMA CreateInv ==
  ASSUME IInv, NEW u \in Users, NEW r \in RolesThere, NEW gs \in SUBSET GroupsThere,
         Create(u, r, NewHash(u), NoProvider, gs)
           \/ \E p \in Providers : Create(u, r, NoPassword, p, gs),
         UNCHANGED <<flows, keyVars>>
  PROVE  IInv'
<1>1. CASE Create(u, r, NewHash(u), NoProvider, gs)
      BY <1>1, AHashIsNew, NewAccountInv DEF Create
<1>2. ASSUME NEW p \in Providers, Create(u, r, NoPassword, p, gs) PROVE IInv'
      BY <1>2, NewAccountInv DEF Create
<1>. QED BY <1>1, <1>2

LEMMA TheBuiltinRolesExist == {Administrator, Operator} \subseteq RolesThere
BY DEF RolesThere, RoleExists, Builtin

LEMMA RegisterFirstInv ==
  ASSUME IInv, NEW u \in Users, RegisterFirst(u), UNCHANGED keyVars
  PROVE  IInv'
<1>1. NewHash(u) \in Hashes /\ NewHash(u) # NoPassword
      BY AHashIsNew, DirectoryAssumption
<1>2. members' \subseteq members \cup ({} \X {u}) /\ {} \in SUBSET GroupsThere
      BY DEF RegisterFirst, CreateFirst, rights
<1>. QED BY <1>1, <1>2, NewAccountInv, TheBuiltinRolesExist
         DEF RegisterFirst, CreateFirst, rights

LEMMA RegisterWithPasswordInv ==
  ASSUME IInv, NEW u \in Users, NEW approval \in BOOLEAN, NEW gs \in DefaultGroup,
         RegisterWithPassword(u, approval, gs), UNCHANGED keyVars
  PROVE  IInv'
<1>1. NewHash(u) \in Hashes /\ NewHash(u) # NoPassword
      BY AHashIsNew, DirectoryAssumption
<1>2. gs \in SUBSET GroupsThere BY DEF DefaultGroup
<1>. QED BY <1>1, <1>2, NewAccountInv, TheBuiltinRolesExist
         DEF RegisterWithPassword, StatusFor

LEMMA RegisterArrivalInv ==
  ASSUME IInv, NEW f \in flows, NEW approval \in BOOLEAN, NEW gs \in DefaultGroup,
         RegisterArrival(f, approval, gs), UNCHANGED keyVars
  PROVE  IInv'
<1> DEFINE u == f.user
           i == NewIdentity(u, f.provider, f.subject)
<1>0. Good(f) /\ f.step = "registering" BY DEF IInv, FlowsOK, RegisterArrival
<1>1. CASE u \in Accounts BY <1>1, OfferedInv, <1>0 DEF RegisterArrival
<1>2. CASE u \notin Accounts /\ (Accounts = {} \/ Linked(f.provider, f.subject))
      BY <1>2, OnlyRequestsChange DEF RegisterArrival, Ends
<1>3. CASE u \notin Accounts /\ ~(Accounts = {} \/ Linked(f.provider, f.subject))
  <2>1. /\ Insert(u, StatusFor(TRUE, approval), Operator, NoPassword, NoProvider)
        /\ identities' = identities \cup {i} /\ Becomes(f, Opening(u))
        /\ members' = members \cup (gs \X {u})
        /\ UNCHANGED <<offers, sessions, custom, groupRole>>
        BY <1>3 DEF RegisterArrival
  <2>2. u \in Users /\ f.provider \in Providers /\ f.subject \in Subjects
        BY <1>0 DEF Good, FlowSet
  <2>3. /\ u \notin Accounts /\ Accounts' = Accounts \cup {u} /\ Remain
        /\ PeopleOK' /\ KeysOK' /\ HeldRolesExist' /\ IdentitiesOf(u) = {}
        /\ \A v \in Accounts : Invited(v)' = Invited(v) /\ HasPassword(v)' = HasPassword(v)
        /\ ~Invited(u)' /\ ~HasPassword(u)'
        BY <2>1, <2>2, ANewAccount, TheBuiltinRolesExist DEF StatusFor
  <2>4. i \in Identity /\ i.user = u /\ i.provider = f.provider /\ i.subject = f.subject
        BY <2>2 DEF NewIdentity, Identity
  <2>5. IdentitiesOK'
    <3>1. \A j \in identities : j.user # u
                                /\ ~(j.provider = f.provider /\ j.subject = f.subject)
          BY <1>3, <2>3 DEF IInv, IdentitiesOK, Linked
    <3>. QED BY <2>1, <2>3, <2>4, <3>1 DEF IInv, IdentitiesOK
  <2>6. OffersOK' BY <2>1, <2>3, WhoeverRemains
  <2>7. SessionsOK' BY <2>1, <2>3, WhoeverRemains DEF Insert
  <2>8. RightsOK' BY <2>1, <2>2, <2>3, MembershipsAreOfSomebody DEF DefaultGroup
  <2>9. FlowsOK'
    <3>1. Good(Opening(u))' BY <2>2, <2>3 DEF Good, FlowSet, Opening, Flow, Steps
    <3>. QED BY <2>1, <2>3, <3>1, WhoeverRemains
  <2>10. OneWayOrTheOther'
    <3>1. IdentitiesOf(u)' # {} BY <2>1, <2>4 DEF IdentitiesOf
    <3>2. \A v \in Accounts : IdentitiesOf(v)' = IdentitiesOf(v)
          BY <2>1, <2>3, <2>4 DEF IdentitiesOf
    <3>. QED BY <2>3, <3>1, <3>2 DEF IInv, OneWayOrTheOther, Accounts
  <2>. QED BY <2>3, <2>5, <2>6, <2>7, <2>8, <2>9, <2>10 DEF IInv
<1>. QED BY <1>1, <1>2, <1>3

-----------------------------------------------------------------------------
(* Sessions, identities and offers that come and go.                        *)

(* The accounts and what they may do stay as they are.                      *)
LEMMA OnlySignsChange ==
  ASSUME IInv, UNCHANGED <<people, rights, keyVars>>, IdentitiesOK', OffersOK',
         SessionsOK', FlowsOK', OneWayOrTheOther'
  PROVE  IInv'
<1>1. PeopleOK' /\ RightsOK' /\ KeysOK' BY Frames DEF people
<1>2. HeldRolesExist' BY Frames DEF people, rights, keyVars
<1>. QED BY <1>1, <1>2 DEF IInv

LEMMA PeopleRemain == UNCHANGED people => Remain
BY DEF people, Remain, Accounts, Invited

LEMMA NewSessionInv ==
  ASSUME IInv, NEW f \in flows, NewSession(f), UNCHANGED keyVars
  PROVE  IInv'
<1>1. f.user \in Users /\ f.user \in Accounts /\ ~Invited(f.user)
      BY DEF IInv, FlowsOK, Good, FlowSet, ForAnAccount, NewSession
<1>2. Remain /\ UNCHANGED people BY PeopleRemain DEF NewSession
<1>3. IdentitiesOK' /\ OffersOK' /\ FlowsOK' BY <1>2, WhoeverRemains DEF NewSession, Ends
<1>4. SessionsOK'
  <2> DEFINE s == [user |-> f.user, off |-> f.user \in disabled]
  <2>0. s \in Session BY <1>1, SMT DEF Session
  <2>1. s.user = f.user /\ (s.off => f.user \in disabled) BY Zenon
  <2>2. sessions' = sessions \cup {s} BY DEF NewSession
  <2>3. /\ Accounts' = Accounts /\ disabled' = disabled
        /\ \A u : Invited(u)' = Invited(u)
        BY <1>2 DEF people, Accounts, Invited
  <2> HIDE DEF s
  <2>. QED BY <1>1, <2>0, <2>1, <2>2, <2>3 DEF IInv, SessionsOK
<1>5. OneWayOrTheOther' BY <1>2, Frames DEF NewSession, people
<1>. QED BY <1>2, <1>3, <1>4, <1>5, OnlySignsChange DEF NewSession

LEMMA SessionEndsInv ==
  ASSUME IInv, NEW s \in sessions, SessionEnds(s), UNCHANGED keyVars
  PROVE  IInv'
<1>1. Remain /\ UNCHANGED people BY PeopleRemain DEF SessionEnds
<1>2. IdentitiesOK' /\ OffersOK' /\ FlowsOK' /\ SessionsOK'
      BY <1>1, WhoeverRemains DEF SessionEnds, people
<1>3. OneWayOrTheOther' BY <1>1, Frames DEF SessionEnds, people
<1>. QED BY <1>1, <1>2, <1>3, OnlySignsChange DEF SessionEnds

(* A provider that is added to an account is new to it, and the account is  *)
(* somebody's already or becomes it with this.                              *)
LEMMA AnotherIdentity ==
  ASSUME IInv, NEW u \in Accounts, NEW p \in Providers, NEW s \in Subjects,
         MayInsert(u, p, s), status' = status,
         identities' = identities \cup {NewIdentity(u, p, s)}
  PROVE  /\ IdentitiesOK' /\ IdentitiesOf(u)' # {}
         /\ \A v \in Accounts \ {u} : IdentitiesOf(v)' = IdentitiesOf(v)
<1> DEFINE i == NewIdentity(u, p, s)
<1>1. i \in Identity /\ i.user = u /\ i.provider = p /\ i.subject = s
      BY DEF NewIdentity, Identity, Accounts
<1>2. \A j \in identities :
        ~(j.provider = p /\ j.subject = s) /\ ~(j.user = u /\ j.provider = p)
      BY DEF MayInsert, Linked, Has, IdentitiesOf
<1>3. identities' = identities \cup {i} OBVIOUS
<1>4. Accounts' = Accounts BY DEF Accounts
<1> HIDE DEF i
<1>5. IdentitiesOK' BY <1>1, <1>2, <1>3, <1>4 DEF IInv, IdentitiesOK
<1>6. IdentitiesOf(u)' # {} BY <1>1, <1>3 DEF IdentitiesOf
<1>7. \A v \in Accounts \ {u} : IdentitiesOf(v)' = IdentitiesOf(v)
      BY <1>1, <1>3 DEF IdentitiesOf
<1>. QED BY <1>5, <1>6, <1>7

LEMMA ClaimInviteInv ==
  ASSUME IInv, NEW f \in flows, ClaimInvite(f), UNCHANGED keyVars
  PROVE  IInv'
<1> DEFINE u == f.user
<1>0. /\ Good(f) /\ f.step = "claiming" /\ u \in Users
      /\ f.provider \in Providers /\ f.subject \in Subjects
      BY DEF IInv, FlowsOK, Good, FlowSet, ClaimInvite
<1>1. CASE InvitationOpen(u, f.provider) /\ ~Linked(f.provider, f.subject)
  <2>1. /\ invite' = [invite EXCEPT ![u] = NoProvider]
        /\ identities' = identities \cup {NewIdentity(u, f.provider, f.subject)}
        /\ Becomes(f, Opening(u))
        /\ UNCHANGED <<status, disabled, role, password, lapsed, offers, sessions, rights>>
        BY <1>1 DEF ClaimInvite
  <2>2. u \in Accounts /\ IdentitiesOf(u) = {} BY <1>1 DEF InvitationOpen
  <2>3. /\ Accounts' = Accounts /\ ~Invited(u)'
        /\ \A v \in Accounts \ {u} : Invited(v)' = Invited(v)
        BY <1>0, <2>1 DEF IInv, PeopleOK, Accounts, Invited
  <2>4. Remain BY <2>3 DEF Remain
  <2>5. /\ IdentitiesOK' /\ IdentitiesOf(u)' # {}
        /\ \A v \in Accounts \ {u} : IdentitiesOf(v)' = IdentitiesOf(v)
    <3>1. MayInsert(u, f.provider, f.subject) BY <1>1, <2>2 DEF MayInsert, Has
    <3>. QED BY <1>0, <2>1, <2>2, <3>1, AnotherIdentity
  <2>6. PeopleOK' BY <2>1, <2>3 DEF IInv, PeopleOK
  <2>7. OffersOK' /\ SessionsOK' /\ RightsOK' BY <2>1, <2>4, WhoeverRemains
  <2>8. KeysOK' /\ HeldRolesExist' BY <2>1, Frames DEF rights, keyVars
  <2>9. FlowsOK'
    <3>1. Good(Opening(u))' BY <1>0, <2>2, <2>3 DEF Good, FlowSet, Opening, Flow, Steps
    <3>. QED BY <2>1, <2>4, <3>1, WhoeverRemains
  <2>10. OneWayOrTheOther'
    <3>1. \A v \in Accounts : HasPassword(v)' = HasPassword(v) BY <2>1 DEF HasPassword
    <3>. QED BY <2>3, <2>5, <3>1 DEF IInv, OneWayOrTheOther
  <2>. QED BY <2>5, <2>6, <2>7, <2>8, <2>9, <2>10 DEF IInv
<1>2. CASE ~(InvitationOpen(u, f.provider) /\ ~Linked(f.provider, f.subject))
  <2>1. Ends(f) \/ Becomes(f, At(f, "unmatched")) BY <1>2 DEF ClaimInvite
  <2>2. UNCHANGED <<dirVars, keyVars>>
        BY <1>2 DEF ClaimInvite, dirVars, people, signs
  <2>3. Good(At(f, "unmatched"))
        BY <1>0, TheNextStepIsGood DEF Steps, ForAnAccount
  <2>. QED BY <2>1, <2>2, <2>3, OnlyRequestsChange DEF Ends
<1>. QED BY <1>1, <1>2

LEMMA OfferLinkInv ==
  ASSUME IInv, NEW f \in flows, OfferLink(f), UNCHANGED keyVars
  PROVE  IInv'
<1>1. /\ f.user \in Users /\ f.user \in Accounts
      /\ f.provider \in Providers /\ f.subject \in Subjects
      BY DEF IInv, FlowsOK, Good, FlowSet, ForAnAccount, OfferLink
<1>2. Remain /\ UNCHANGED people BY PeopleRemain DEF OfferLink
<1>3. IdentitiesOK' /\ FlowsOK' /\ SessionsOK'
      BY <1>2, WhoeverRemains DEF OfferLink, people
<1>4. OffersOK'
  <2> DEFINE o == [user |-> f.user, provider |-> f.provider,
                   subject |-> f.subject, failures |-> 0]
  <2>1. o \in Offer /\ o.user = f.user BY <1>1 DEF Offer
  <2>2. offers' = {q \in offers : q.user # f.user} \cup {o} BY DEF OfferLink
  <2>3. Accounts' = Accounts BY <1>2 DEF people, Accounts
  <2> HIDE DEF o
  <2>. QED BY <1>1, <2>1, <2>2, <2>3 DEF IInv, OffersOK
<1>5. OneWayOrTheOther' BY <1>2, Frames DEF OfferLink, people
<1>. QED BY <1>2, <1>3, <1>4, <1>5, OnlySignsChange DEF OfferLink

LEMMA LinkIdentityInv ==
  ASSUME IInv, NEW f \in flows, LinkIdentity(f), UNCHANGED keyVars
  PROVE  IInv'
<1>1. /\ f.user \in Accounts /\ ~Invited(f.user)
      /\ f.provider \in Providers /\ f.subject \in Subjects
      BY DEF IInv, FlowsOK, Good, FlowSet, ForAnAccount, LinkIdentity
<1>2. Remain /\ UNCHANGED people BY PeopleRemain DEF LinkIdentity
<1>3. OffersOK' /\ FlowsOK' /\ SessionsOK'
      BY <1>2, WhoeverRemains DEF LinkIdentity, people, Ends
<1>4. IdentitiesOK' /\ OneWayOrTheOther'
  <2>1. CASE UNCHANGED identities BY <1>2, <2>1, Frames DEF people
  <2>2. CASE MayInsert(f.user, f.provider, f.subject)
    <3>1. /\ IdentitiesOK' /\ IdentitiesOf(f.user)' # {}
          /\ \A v \in Accounts \ {f.user} : IdentitiesOf(v)' = IdentitiesOf(v)
          BY <1>1, <1>2, <2>2, AnotherIdentity DEF LinkIdentity, people
    <3>2. /\ Accounts' = Accounts
          /\ \A v : Invited(v)' = Invited(v) /\ HasPassword(v)' = HasPassword(v)
          BY <1>2 DEF people, Accounts, Invited, HasPassword
    <3>. QED BY <1>1, <3>1, <3>2 DEF IInv, OneWayOrTheOther
  <2>. QED BY <2>1, <2>2 DEF LinkIdentity
<1>. QED BY <1>2, <1>3, <1>4, OnlySignsChange DEF LinkIdentity

LEMMA UnlinkIdentityInv ==
  ASSUME IInv, NEW i \in identities, UnlinkIdentity(i), UNCHANGED keyVars
  PROVE  IInv'
<1>1. i.user \in Accounts /\ ~Invited(i.user)
  <2>1. i.user \in Accounts BY DEF IInv, IdentitiesOK
  <2>2. IdentitiesOf(i.user) # {} BY DEF IdentitiesOf
  <2>. QED BY <2>1, <2>2, ACredentialClosesTheInvitation
<1>2. Remain /\ UNCHANGED people BY PeopleRemain DEF UnlinkIdentity
<1>3. IdentitiesOK' /\ OffersOK' /\ FlowsOK' /\ SessionsOK'
      BY <1>2, WhoeverRemains DEF UnlinkIdentity, people
<1>4. OneWayOrTheOther'
  <2>1. /\ Accounts' = Accounts
        /\ \A v : Invited(v)' = Invited(v) /\ HasPassword(v)' = HasPassword(v)
        BY <1>2 DEF people, Accounts, Invited, HasPassword
  <2>2. \A v \in Accounts \ {i.user} : IdentitiesOf(v)' = IdentitiesOf(v)
        BY DEF UnlinkIdentity, IdentitiesOf
  <2>3. HasPassword(i.user) \/ IdentitiesOf(i.user)' # {}
        BY DEF UnlinkIdentity, NotTheOnlyWayIn, IdentitiesOf
  <2>. QED BY <1>1, <2>1, <2>2, <2>3 DEF IInv, OneWayOrTheOther
<1>. QED BY <1>2, <1>3, <1>4, OnlySignsChange DEF UnlinkIdentity

LEMMA MismatchInv ==
  ASSUME IInv, NEW o \in offers, Mismatch(o), UNCHANGED keyVars
  PROVE  IInv'
<1>1. Remain /\ UNCHANGED people BY PeopleRemain DEF Mismatch
<1>2. IdentitiesOK' /\ FlowsOK' /\ SessionsOK'
      BY <1>1, WhoeverRemains DEF Mismatch, people
<1>3. OffersOK'
  <2>1. CASE o.failures + 1 < MaxFailures
    <3> DEFINE q == [o EXCEPT !.failures = @ + 1]
    <3>1. o \in Offer /\ o.failures + 1 \in 0 .. 3
          BY <2>1, FlowAssumption DEF IInv, OffersOK, Offer
    <3>2. q \in Offer /\ q.user = o.user BY <3>1 DEF Offer
    <3>3. offers' = (offers \ {o}) \cup {q} BY <2>1 DEF Mismatch
    <3>4. Accounts' = Accounts BY <1>1 DEF people, Accounts
    <3> HIDE DEF q
    <3>. QED BY <3>2, <3>3, <3>4 DEF IInv, OffersOK
  <2>2. CASE ~(o.failures + 1 < MaxFailures)
        BY <1>1, <2>2, WhoeverRemains DEF Mismatch
  <2>. QED BY <2>1, <2>2
<1>4. OneWayOrTheOther' BY <1>1, Frames DEF Mismatch, people
<1>. QED BY <1>1, <1>2, <1>3, <1>4, OnlySignsChange DEF Mismatch

LEMMA ConfirmLinkInv ==
  ASSUME IInv, NEW f \in flows, ConfirmLink(f), UNCHANGED keyVars
  PROVE  IInv'
<1>1. /\ f.user \in Users /\ f.user \in Accounts /\ ~Invited(f.user)
      /\ f.provider \in Providers /\ f.subject \in Subjects
      BY DEF IInv, FlowsOK, Good, FlowSet, ForAnAccount, ConfirmLink
<1>2. Remain /\ UNCHANGED people BY PeopleRemain DEF ConfirmLink
<1>3. SessionsOK' BY <1>2, WhoeverRemains DEF ConfirmLink, people
<1>4. OffersOK' BY <1>2, WhoeverRemains DEF ConfirmLink
<1>5. IdentitiesOK' /\ OneWayOrTheOther' /\ FlowsOK'
  <2>1. CASE UNCHANGED identities /\ Ends(f)
        BY <1>2, <2>1, Frames, WhoeverRemains DEF people, Ends
  <2>2. CASE /\ MayInsert(f.user, f.provider, f.subject)
             /\ identities' = identities \cup {NewIdentity(f.user, f.provider, f.subject)}
             /\ Becomes(f, Opening(f.user))
    <3>1. /\ IdentitiesOK' /\ IdentitiesOf(f.user)' # {}
          /\ \A v \in Accounts \ {f.user} : IdentitiesOf(v)' = IdentitiesOf(v)
          BY <1>1, <1>2, <2>2, AnotherIdentity DEF people
    <3>2. /\ Accounts' = Accounts
          /\ \A v : Invited(v)' = Invited(v) /\ HasPassword(v)' = HasPassword(v)
          BY <1>2 DEF people, Accounts, Invited, HasPassword
    <3>3. OneWayOrTheOther' BY <1>1, <3>1, <3>2 DEF IInv, OneWayOrTheOther
    <3>4. Good(Opening(f.user))'
          BY <1>1, <3>2 DEF Good, FlowSet, Opening, Flow, Steps
    <3>. QED BY <1>2, <2>2, <3>1, <3>3, <3>4, WhoeverRemains
  <2>. QED BY <2>1, <2>2 DEF ConfirmLink
<1>. QED BY <1>2, <1>3, <1>4, <1>5, OnlySignsChange DEF ConfirmLink

LEMMA OfferEndsInv ==
  ASSUME IInv, NEW o \in offers, OfferEnds(o), UNCHANGED keyVars
  PROVE  IInv'
<1>1. Remain /\ UNCHANGED people BY PeopleRemain DEF OfferEnds
<1>2. IdentitiesOK' /\ OffersOK' /\ FlowsOK' /\ SessionsOK'
      BY <1>1, WhoeverRemains DEF OfferEnds, people
<1>3. OneWayOrTheOther' BY <1>1, Frames DEF OfferEnds, people
<1>. QED BY <1>1, <1>2, <1>3, OnlySignsChange DEF OfferEnds

LEMMA SignInInv == ASSUME IInv, SignInNext, UNCHANGED keyVars PROVE IInv'
BY AuthenticateInv, RegisterFirstInv, RegisterWithPasswordInv, ArriveInv, SessionEndsInv,
   StartLinkInv, UnlinkIdentityInv, CompareInv, MismatchInv, OfferEndsInv, NewSessionInv,
   ClaimInviteInv, LookInv, OfferLinkInv, RegisterArrivalInv, RefuseArrivalInv,
   LinkIdentityInv, ConfirmLinkInv DEF SignInNext

-----------------------------------------------------------------------------
(* What an administrator does to accounts.                                  *)

LEMMA UpdateInv ==
  ASSUME IInv, NEW u \in Users, UpdateUser(u), UNCHANGED keyVars
  PROVE  IInv'
<1>0. PICK edit \in Edit :
        \E r \in IF edit.rights THEN RolesThere ELSE {role[u]},
           on \in IF edit.on THEN BOOLEAN ELSE {u \notin disabled},
           p \in Providers \cup {NoProvider} : Update(u, edit, r, on, p) /\ UNCHANGED flows
      BY DEF UpdateUser
<1>1. PICK r \in IF edit.rights THEN RolesThere ELSE {role[u]},
           on \in IF edit.on THEN BOOLEAN ELSE {u \notin disabled},
           p \in Providers \cup {NoProvider} : Update(u, edit, r, on, p) /\ UNCHANGED flows
      BY <1>0
<1>2. u \in Accounts /\ RoleExists(r) /\ r \in Builtin \cup Custom \cup {NoRole}
  <2>1. u \in Accounts BY <1>1 DEF Update
  <2>2. RoleExists(role[u]) BY <2>1 DEF IInv, HeldRolesExist
  <2>3. RoleExists(r) BY <1>1, <2>2 DEF RolesThere
  <2>. QED BY <2>1, <2>3 DEF RoleExists
<1>3. Accounts' = Accounts /\ \A v \in Accounts : HasPassword(v)' = HasPassword(v)
      BY <1>1 DEF Update, Accounts, HasPassword
(* An invitation is written only to an account that has one open.           *)
<1>4. \A v \in Accounts : Invited(v)' = Invited(v)
  <2>1. CASE p = NoProvider BY <1>1, <2>1 DEF Update, Invited
  <2>2. CASE p # NoProvider
    <3>1. ~HasPassword(u) /\ IdentitiesOf(u) = {} /\ invite' = [invite EXCEPT ![u] = p]
          BY <1>1, <2>2 DEF Update, MayBeInvited
    <3>2. Invited(u) BY <1>2, <3>1 DEF IInv, OneWayOrTheOther
    <3>. QED BY <1>2, <2>2, <3>1, <3>2 DEF IInv, PeopleOK, Invited
  <2>. QED BY <2>1, <2>2
<1>5. Remain BY <1>3, <1>4 DEF Remain
<1>6. PeopleOK'
  <2>1. disabled' \subseteq Accounts' BY <1>1, <1>2, <1>3 DEF IInv, PeopleOK, Update
  <2>2. lapsed' \subseteq Accounts' /\ invite' \in [Users -> Providers \cup {NoProvider}]
        BY <1>1, <1>2, <1>3 DEF IInv, PeopleOK, Update
  <2>. QED BY <1>1, <1>2, <2>1, <2>2 DEF IInv, PeopleOK, Update
<1>7. IdentitiesOK' /\ OffersOK' /\ RightsOK' /\ FlowsOK'
      BY <1>1, <1>5, WhoeverRemains DEF Update
<1>8. SessionsOK'
  <2>1. CASE DropsSessions(edit)
    <3>1. sessions' = {s \in sessions : s.user # u} BY <1>1, <2>1 DEF Update
    <3>2. \A v \in Accounts \ {u} : v \in disabled => v \in disabled'
          BY <1>1 DEF Update
    <3>. QED BY <1>3, <1>4, <3>1, <3>2 DEF IInv, SessionsOK
  <2>2. CASE ~DropsSessions(edit)
    <3>1. on = (u \notin disabled) BY <1>1, <2>2 DEF DropsSessions
    <3>2. disabled' = disabled BY <1>1, <3>1 DEF Update
    <3>3. \A s \in sessions' : \E t \in sessions :
            s \in Session /\ s.user = t.user /\ (s.off => t.off \/ (t.user = u /\ ~on))
      <4> SUFFICES ASSUME NEW s \in sessions'
                   PROVE  \E t \in sessions : s \in Session /\ s.user = t.user
                            /\ (s.off => t.off \/ (t.user = u /\ ~on))
          OBVIOUS
      <4>1. PICK t \in sessions :
              s = IF t.user = u /\ ~on THEN [t EXCEPT !.off = TRUE] ELSE t
            BY <1>1, <2>2 DEF Update
      <4>2. t \in Session BY DEF IInv, SessionsOK
      <4>3. CASE t.user = u /\ ~on BY <4>1, <4>2, <4>3 DEF Session
      <4>4. CASE ~(t.user = u /\ ~on) BY <4>1, <4>2, <4>4
      <4>. QED BY <4>3, <4>4
    <3>4. ~on => u \in disabled BY <3>1
    <3>. QED BY <1>3, <1>4, <3>2, <3>3, <3>4 DEF IInv, SessionsOK
  <2>. QED BY <2>1, <2>2
<1>9. KeysOK' BY Frames
<1>10. HeldRolesExist'
  <2>1. \A q : RoleExists(q)' = RoleExists(q) BY <1>1 DEF Update, rights, RoleExists
  <2>2. \A v \in Accounts' : RoleExists(role[v])'
        BY <1>1, <1>2, <1>3, <2>1 DEF IInv, PeopleOK, HeldRolesExist, Update, Accounts
  <2>3. /\ \A g \in GroupsThere' : groupRole'[g] = NoRole \/ RoleExists(groupRole[g])'
        /\ \A k \in Keys : Revocable(k)' => RoleExists(keyRole[k])'
        BY <1>1, <2>1
        DEF IInv, HeldRolesExist, Update, rights, GroupsThere, Revocable, keyVars
  <2>. QED BY <2>2, <2>3 DEF HeldRolesExist
<1>11. OneWayOrTheOther'
  <2>1. \A v \in Accounts : IdentitiesOf(v)' = IdentitiesOf(v)
        BY <1>1 DEF Update, IdentitiesOf
  <2>. QED BY <1>3, <1>4, <2>1 DEF IInv, OneWayOrTheOther
<1>. QED BY <1>6, <1>7, <1>8, <1>9, <1>10, <1>11 DEF IInv

LEMMA SetPasswordInv ==
  ASSUME IInv, NEW u \in Users, SetPassword(u, NewHash(u)), UNCHANGED <<flows, keyVars>>
  PROVE  IInv'
<1>1. NewHash(u) \in Hashes /\ NewHash(u) # NoPassword
      BY AHashIsNew, DirectoryAssumption
<1>2. u \in Accounts /\ Accounts' = Accounts BY DEF SetPassword, Accounts
<1>3. /\ \A v \in Accounts \ {u} : Invited(v)' = Invited(v) /\ HasPassword(v)' = HasPassword(v)
      /\ ~Invited(u)' /\ HasPassword(u)'
      BY <1>1, <1>2 DEF IInv, PeopleOK, SetPassword, AnsweredInvitation, Invited,
                        HasPassword, Accounts
<1>4. Remain BY <1>2, <1>3 DEF Remain
<1>5. PeopleOK'
      BY <1>1, <1>2 DEF IInv, PeopleOK, SetPassword, AnsweredInvitation
<1>6. IdentitiesOK' /\ OffersOK' /\ SessionsOK' /\ RightsOK' /\ FlowsOK'
      BY <1>4, WhoeverRemains DEF SetPassword
<1>7. KeysOK' /\ HeldRolesExist' BY Frames DEF SetPassword, rights, keyVars
<1>8. OneWayOrTheOther'
  <2>1. \A v \in Accounts : IdentitiesOf(v)' = IdentitiesOf(v)
        BY DEF SetPassword, IdentitiesOf
  <2>. QED BY <1>2, <1>3, <2>1 DEF IInv, OneWayOrTheOther
<1>. QED BY <1>5, <1>6, <1>7, <1>8 DEF IInv

(* An account goes, and with it everything that names it.                   *)
LEMMA RemoveInv ==
  ASSUME IInv, NEW u \in Users, u \in Accounts, Remove(u), flows' = Orphaned(u),
         UNCHANGED keyVars
  PROVE  IInv'
<1>1. Accounts' = Accounts \ {u} BY DEF IInv, PeopleOK, Remove, Accounts
<1>2. \A v \in Accounts' : /\ Invited(v)' = Invited(v) /\ HasPassword(v)' = HasPassword(v)
                           /\ IdentitiesOf(v)' = IdentitiesOf(v) /\ role'[v] = role[v]
      BY <1>1 DEF IInv, PeopleOK, Remove, Accounts, Invited, HasPassword, IdentitiesOf
<1>3. PeopleOK' BY <1>1 DEF IInv, PeopleOK, Remove
<1>4. IdentitiesOK' BY <1>1 DEF IInv, IdentitiesOK, Remove, IdentitiesOf
<1>5. OffersOK' BY <1>1 DEF IInv, OffersOK, Remove
<1>6. SessionsOK' BY <1>1, <1>2 DEF IInv, SessionsOK, Remove
<1>7. RightsOK'
  <2>1. GroupsThere' = GroupsThere BY DEF Remove, GroupsThere
  <2>2. members' \subseteq GroupsThere' \X (Accounts' \cup Keys)
        BY <1>1, <2>1 DEF IInv, RightsOK, Remove
  <2>. QED BY <2>2 DEF IInv, RightsOK, Remove
<1>8. FlowsOK'
  <2>1. Few' BY FewRemain DEF IInv, FlowsOK, Orphaned
  <2>2. ASSUME NEW f \in flows' PROVE Good(f)'
    <3>1. Good(f) /\ (f.user # u \/ f.step \notin ForAnAccount)
          BY <2>2 DEF IInv, FlowsOK, Orphaned, ForAnAccount
    <3>. QED BY <1>1, <1>2, <3>1 DEF Good
  <2>. QED BY <2>1, <2>2 DEF FlowsOK
<1>9. KeysOK' BY Frames
<1>10. HeldRolesExist'
  <2>1. \A q : RoleExists(q)' = RoleExists(q) BY DEF Remove, RoleExists
  <2>. QED BY <1>1, <1>2, <2>1
           DEF IInv, HeldRolesExist, Remove, GroupsThere, Revocable, keyVars
<1>11. OneWayOrTheOther' BY <1>1, <1>2 DEF IInv, OneWayOrTheOther
<1>. QED BY <1>3, <1>4, <1>5, <1>6, <1>7, <1>8, <1>9, <1>10, <1>11 DEF IInv

LEMMA ApproveRegistrationInv ==
  ASSUME IInv, NEW u \in Users, NEW gs \in SUBSET GroupsThere,
         ApproveRegistration(u, gs), UNCHANGED <<flows, keyVars>>
  PROVE  IInv'
<1>1. u \in Accounts /\ Accounts' = Accounts
      BY DEF IInv, PeopleOK, ApproveRegistration, Accounts
<1>2. Remain BY <1>1 DEF Remain, ApproveRegistration, Invited
<1>3. PeopleOK' BY <1>1 DEF IInv, PeopleOK, ApproveRegistration
<1>4. IdentitiesOK' /\ OffersOK' /\ SessionsOK' /\ FlowsOK'
      BY <1>2, WhoeverRemains DEF ApproveRegistration, signs
<1>5. RightsOK' BY <1>1, MembershipsAreOfSomebody DEF ApproveRegistration
<1>6. KeysOK' BY Frames
<1>7. HeldRolesExist'
  <2>1. \A q : RoleExists(q)' = RoleExists(q) BY DEF ApproveRegistration, RoleExists
  <2>. QED BY <1>1, <2>1
           DEF IInv, HeldRolesExist, ApproveRegistration, GroupsThere, Revocable, keyVars
<1>8. OneWayOrTheOther'
      BY <1>1 DEF IInv, OneWayOrTheOther, ApproveRegistration, signs, Invited,
                  HasPassword, IdentitiesOf
<1>. QED BY <1>3, <1>4, <1>5, <1>6, <1>7, <1>8 DEF IInv

LEMMA InvitationLapsesInv ==
  ASSUME IInv, NEW u \in Users, InvitationLapses(u), UNCHANGED <<flows, keyVars>>
  PROVE  IInv'
<1>1. Accounts' = Accounts BY DEF InvitationLapses, Accounts
<1>2. PeopleOK' BY <1>1 DEF IInv, PeopleOK, InvitationLapses
<1>3. /\ IdentitiesOK' /\ OffersOK' /\ SessionsOK' /\ RightsOK' /\ KeysOK' /\ FlowsOK'
      /\ HeldRolesExist' /\ OneWayOrTheOther'
      BY Frames DEF InvitationLapses, signs, rights, keyVars
<1>. QED BY <1>2, <1>3 DEF IInv

LEMMA AccountInv == ASSUME IInv, AccountNext, UNCHANGED keyVars PROVE IInv'
<1>1. \A u \in Users : RejectRegistration(u) \/ Delete(u) => u \in Accounts /\ Remove(u)
      BY DEF RejectRegistration, Delete, Accounts
<1>. QED BY <1>1, CreateInv, UpdateInv, SetPasswordInv, RemoveInv,
            ApproveRegistrationInv, InvitationLapsesInv DEF AccountNext

-----------------------------------------------------------------------------
(* Roles, groups and keys.                                                  *)

(* Nobody's account or session is touched.                                  *)
LEMMA OnlyRightsChange ==
  ASSUME IInv, UNCHANGED <<people, signs, flows>>, RightsOK', KeysOK', HeldRolesExist'
  PROVE  IInv'
<1>1. PeopleOK' /\ IdentitiesOK' /\ OffersOK' /\ SessionsOK' BY Frames DEF people, signs
<1>2. FlowsOK' /\ OneWayOrTheOther' BY Frames DEF people, signs
<1>. QED BY <1>1, <1>2 DEF IInv

(* What an account, a group or a key holds goes on existing as long as the  *)
(* roles only grow.                                                         *)
LEMMA RolesOnlyGrow ==
  ASSUME IInv, UNCHANGED people, \A r : RoleExists(r) => RoleExists(r)',
         \A g \in GroupsThere' :
           \/ groupRole'[g] = NoRole \/ RoleExists(groupRole'[g])
           \/ g \in GroupsThere /\ groupRole'[g] = groupRole[g],
         \A k \in Keys : Revocable(k)' =>
           \/ RoleExists(keyRole'[k])
           \/ Revocable(k) /\ keyRole'[k] = keyRole[k]
  PROVE  HeldRolesExist'
<1>1. \A u \in Accounts' : RoleExists(role[u])'
      BY DEF IInv, HeldRolesExist, people, Accounts, RoleExists
<1>2. \A g \in GroupsThere' : groupRole'[g] = NoRole \/ RoleExists(groupRole[g])'
      BY DEF IInv, HeldRolesExist, RoleExists
<1>3. \A k \in Keys : Revocable(k)' => RoleExists(keyRole[k])'
      BY DEF IInv, HeldRolesExist, RoleExists
<1>. QED BY <1>1, <1>2, <1>3 DEF HeldRolesExist

LEMMA RoleEditInv ==
  ASSUME IInv, NEW r \in Custom, NEW writes \in {"plain", "access"},
         CreateRole(r, writes) \/ UpdateRole(r, writes), UNCHANGED <<keyVars, flows>>
  PROVE  IInv'
<1>1. /\ custom' = [custom EXCEPT ![r] = writes]
      /\ UNCHANGED <<people, signs, groupRole, members>>
      BY DEF CreateRole, UpdateRole
<1>2. Accounts' = Accounts /\ GroupsThere' = GroupsThere
      BY <1>1 DEF people, Accounts, GroupsThere
<1>3. RightsOK' BY <1>1, <1>2 DEF IInv, RightsOK
<1>4. KeysOK' BY Frames
<1>5. HeldRolesExist'
  <2>1. \A q : RoleExists(q) => RoleExists(q)'
        BY <1>1 DEF IInv, RightsOK, RoleExists
  <2>. QED BY <1>1, <1>2, <2>1, RolesOnlyGrow DEF Revocable, keyVars
<1>. QED BY <1>1, <1>3, <1>4, <1>5, OnlyRightsChange

LEMMA DeleteRoleInv ==
  ASSUME IInv, NEW r \in Custom, DeleteRole(r, HeldByAKey(r)), UNCHANGED <<keyVars, flows>>
  PROVE  IInv'
<1>1. /\ custom' = [custom EXCEPT ![r] = "none"]
      /\ UNCHANGED <<people, signs, groupRole, members>>
      BY DEF DeleteRole
<1>2. Accounts' = Accounts /\ GroupsThere' = GroupsThere
      BY <1>1 DEF people, Accounts, GroupsThere
<1>3. RightsOK' BY <1>1, <1>2 DEF IInv, RightsOK
<1>4. KeysOK' BY Frames
<1>5. HeldRolesExist'
  <2>1. \A q : RoleExists(q) /\ q # r => RoleExists(q)'
        BY <1>1 DEF IInv, RightsOK, RoleExists
  <2>2. \A u \in Accounts : role[u] # r BY DEF DeleteRole
  <2>3. \A g \in GroupsThere : groupRole[g] # r BY DEF DeleteRole, GroupsThere
  <2>4. \A k \in Keys : Revocable(k) => keyRole[k] # r BY DEF DeleteRole, HeldByAKey
  <2>5. \A u \in Accounts' : RoleExists(role[u])'
    <3>1. role' = role BY <1>1 DEF people
    <3>2. \A u \in Accounts : RoleExists(role[u])' <=> RoleExists(role[u])
          BY <1>1, <2>2, <3>1 DEF IInv, RightsOK, RoleExists
    <3>. QED BY <1>2, <3>2 DEF IInv, HeldRolesExist
  <2>6. \A g \in GroupsThere' : groupRole'[g] = NoRole \/ RoleExists(groupRole[g])'
    <3>1. \A g \in GroupsThere : RoleExists(groupRole[g])' <=> RoleExists(groupRole[g])
          BY <1>1, <2>3 DEF IInv, RightsOK, RoleExists
    <3>. QED BY <1>1, <1>2, <3>1 DEF IInv, HeldRolesExist
  <2>7. \A k \in Keys : Revocable(k)' => RoleExists(keyRole[k])'
    <3>1. \A k \in Keys : Revocable(k)' = Revocable(k) BY DEF Revocable, keyVars
    <3>2. keyRole' = keyRole BY DEF keyVars
    <3>3. \A k \in Keys : Revocable(k) => (RoleExists(keyRole[k])' <=> RoleExists(keyRole[k]))
          BY <1>1, <2>4, <3>2 DEF IInv, RightsOK, RoleExists
    <3>. QED BY <3>1, <3>3 DEF IInv, HeldRolesExist
  <2>. QED BY <2>5, <2>6, <2>7 DEF HeldRolesExist
<1>. QED BY <1>1, <1>3, <1>4, <1>5, OnlyRightsChange

LEMMA GroupEditInv ==
  ASSUME IInv, NEW g \in Groups, NEW r \in RolesThere \cup {NoRole},
         CreateGroup(g, r) \/ UpdateGroup(g, r), UNCHANGED <<keyVars, flows>>
  PROVE  IInv'
<1>1. /\ groupRole' = [groupRole EXCEPT ![g] = r] /\ (r = NoRole \/ RoleExists(r))
      /\ UNCHANGED <<people, signs, custom, members>>
      BY DEF CreateGroup, UpdateGroup
<1>2. r \in Builtin \cup Custom \cup {NoRole} /\ r # "none"
      BY DirectoryAssumption DEF RolesThere, Builtin, Administrator, Operator, NoRole
<1>3. Accounts' = Accounts /\ GroupsThere' = GroupsThere \cup {g}
      BY <1>1, <1>2 DEF IInv, RightsOK, people, Accounts, GroupsThere
<1>4. RightsOK' BY <1>1, <1>2, <1>3 DEF IInv, RightsOK
<1>5. KeysOK' BY Frames
<1>6. HeldRolesExist'
  <2>1. \A q : RoleExists(q) => RoleExists(q)' BY <1>1 DEF RoleExists
  <2>2. \A h \in GroupsThere' :
          \/ groupRole'[h] = NoRole \/ RoleExists(groupRole'[h])
          \/ h \in GroupsThere /\ groupRole'[h] = groupRole[h]
        BY <1>1, <1>3 DEF IInv, RightsOK
  <2>. QED BY <1>1, <2>1, <2>2, RolesOnlyGrow DEF Revocable, keyVars
<1>. QED BY <1>1, <1>4, <1>5, <1>6, OnlyRightsChange

LEMMA DeleteGroupInv ==
  ASSUME IInv, NEW g \in Groups, DeleteGroup(g), UNCHANGED <<keyVars, flows>>
  PROVE  IInv'
<1>1. /\ groupRole' = [groupRole EXCEPT ![g] = "none"]
      /\ members' = {m \in members : m[1] # g}
      /\ UNCHANGED <<people, signs, custom>>
      BY DEF DeleteGroup, MembersWithout
<1>2. Accounts' = Accounts /\ GroupsThere' = GroupsThere \ {g}
      BY <1>1 DEF IInv, RightsOK, people, Accounts, GroupsThere
<1>3. RightsOK'
  <2>1. members' \subseteq GroupsThere' \X (Accounts' \cup Keys)
        BY <1>1, <1>2 DEF IInv, RightsOK
  <2>. QED BY <1>1, <2>1 DEF IInv, RightsOK
<1>4. KeysOK' BY Frames
<1>5. HeldRolesExist'
  <2>1. \A q : RoleExists(q) => RoleExists(q)' BY <1>1 DEF RoleExists
  <2>2. \A h \in GroupsThere' : h \in GroupsThere /\ groupRole'[h] = groupRole[h]
        BY <1>1, <1>2 DEF IInv, RightsOK, GroupsThere
  <2>. QED BY <1>1, <2>1, <2>2, RolesOnlyGrow DEF Revocable, keyVars
<1>. QED BY <1>1, <1>3, <1>4, <1>5, OnlyRightsChange

LEMMA MembershipInv ==
  ASSUME IInv, NEW g \in Groups, NEW u \in Users, AddMember(g, u) \/ RemoveMember(g, u),
         UNCHANGED <<keyVars, flows>>
  PROVE  IInv'
<1>1. UNCHANGED <<people, signs, custom, groupRole>> BY DEF AddMember, RemoveMember
<1>2. Accounts' = Accounts /\ GroupsThere' = GroupsThere
      BY <1>1 DEF people, Accounts, GroupsThere
<1>3. RightsOK'
  <2>1. members' \subseteq GroupsThere' \X (Accounts' \cup Keys)
        BY <1>2 DEF IInv, RightsOK, AddMember, RemoveMember
  <2>. QED BY <1>1, <2>1 DEF IInv, RightsOK
<1>4. KeysOK' BY Frames
<1>5. HeldRolesExist' BY <1>1, Frames DEF people, keyVars
<1>. QED BY <1>1, <1>3, <1>4, <1>5, OnlyRightsChange

LEMMA RightsInv == ASSUME IInv, RightsNext, UNCHANGED <<keyVars, flows>> PROVE IInv'
BY RoleEditInv, DeleteRoleInv, GroupEditInv, DeleteGroupInv, MembershipInv DEF RightsNext

LEMMA KeyInv == ASSUME IInv, KeyNext, UNCHANGED flows PROVE IInv'
<1>0. PICK k \in Keys :
        \/ \E r \in RolesThere, gs \in SUBSET GroupsThere : CreateKey(k, r, gs)
        \/ \E r \in RolesThere \cup {keyRole[k]}, e \in BOOLEAN,
              gs \in SUBSET GroupsThere : UpdateKey(k, r, e, gs)
        \/ \E grace \in BOOLEAN : RotateKey(k, grace)
        \/ RevokeKey(k) \/ GraceEnds(k) \/ KeyExpires(k)
      BY DEF KeyNext
<1> USE DEF IInv, KeysOK, KeyOK
<1>1. ASSUME NEW r \in RolesThere, NEW gs \in SUBSET GroupsThere, CreateKey(k, r, gs)
      PROVE  IInv'
  <2>1. UNCHANGED <<people, signs, custom, groupRole>> BY <1>1 DEF CreateKey
  <2>2. Accounts' = Accounts BY <2>1 DEF people, Accounts
  <2>3. RightsOK' BY <1>1, <2>1, <2>2, MembershipsAreOfSomebody DEF CreateKey
  <2>4. KeysOK' BY <1>1 DEF CreateKey
  <2>5. HeldRolesExist'
    <3>1. \A q \in Keys : Revocable(q)' =>
            RoleExists(keyRole'[q]) \/ (Revocable(q) /\ keyRole'[q] = keyRole[q])
          BY <1>1 DEF CreateKey, Revocable
    <3>. QED BY <2>1, <3>1, RolesOnlyGrow DEF RoleExists, GroupsThere
  <2>. QED BY <2>1, <2>3, <2>4, <2>5, OnlyRightsChange
<1>2. ASSUME NEW r \in RolesThere \cup {keyRole[k]}, NEW e \in BOOLEAN,
             NEW gs \in SUBSET GroupsThere, UpdateKey(k, r, e, gs)
      PROVE  IInv'
  <2>1. UNCHANGED <<people, signs, custom, groupRole>> BY <1>2 DEF UpdateKey
  <2>2. Accounts' = Accounts BY <2>1 DEF people, Accounts
  <2>3. RightsOK' BY <1>2, <2>1, <2>2, MembershipsAreOfSomebody DEF UpdateKey
  <2>4. KeysOK' BY <1>2 DEF UpdateKey, Revocable
  <2>5. HeldRolesExist'
    <3>1. RoleExists(r) BY <1>2 DEF UpdateKey, HeldRolesExist
    <3>2. \A q \in Keys : Revocable(q)' =>
            RoleExists(keyRole'[q]) \/ (Revocable(q) /\ keyRole'[q] = keyRole[q])
          BY <1>2, <3>1 DEF UpdateKey, Revocable
    <3>. QED BY <2>1, <3>2, RolesOnlyGrow DEF RoleExists, GroupsThere
  <2>. QED BY <2>1, <2>3, <2>4, <2>5, OnlyRightsChange
<1>3. ASSUME NEW grace \in BOOLEAN, RotateKey(k, grace) PROVE IInv'
  <2>1. KeysOK' BY <1>3, KeyAssumption DEF RotateKey, Replaced, Revocable
  <2>2. RightsOK' /\ UNCHANGED <<people, signs>> BY <1>3, Frames DEF RotateKey, dirVars, people
  <2>3. HeldRolesExist' BY <1>3, Frames DEF RotateKey, dirVars, people, rights
  <2>. QED BY <2>1, <2>2, <2>3, OnlyRightsChange
<1>4. ASSUME RevokeKey(k) PROVE IInv'
  <2>1. KeysOK' BY <1>4 DEF RevokeKey, Revocable
  <2>2. RightsOK' /\ UNCHANGED <<people, signs>> BY <1>4, Frames DEF RevokeKey, dirVars, people
  <2>3. HeldRolesExist'
        BY <1>4, RolesOnlyGrow
        DEF RevokeKey, dirVars, rights, RoleExists, GroupsThere, Revocable
  <2>. QED BY <2>1, <2>2, <2>3, OnlyRightsChange
<1>5. ASSUME GraceEnds(k) PROVE IInv'
  <2>1. KeysOK' BY <1>5 DEF GraceEnds
  <2>2. RightsOK' /\ UNCHANGED <<people, signs>> BY <1>5, Frames DEF GraceEnds, dirVars, people
  <2>3. HeldRolesExist' BY <1>5, Frames DEF GraceEnds, dirVars, people, rights
  <2>. QED BY <2>1, <2>2, <2>3, OnlyRightsChange
<1>6. ASSUME KeyExpires(k) PROVE IInv'
  <2>1. KeysOK' BY <1>6 DEF KeyExpires
  <2>2. RightsOK' /\ UNCHANGED <<people, signs>> BY <1>6, Frames DEF KeyExpires, dirVars, people
  <2>3. HeldRolesExist'
        BY <1>6, RolesOnlyGrow
        DEF KeyExpires, dirVars, rights, RoleExists, GroupsThere, Revocable
  <2>. QED BY <2>1, <2>2, <2>3, OnlyRightsChange
<1>. QED BY <1>0, <1>1, <1>2, <1>3, <1>4, <1>5, <1>6

-----------------------------------------------------------------------------
LEMMA Inductive == ASSUME IInv, [Next]_vars PROVE IInv'
<1>1. CASE UNCHANGED vars
  <2>1. UNCHANGED <<dirVars, keyVars, flows>> BY <1>1 DEF vars
  <2>. QED BY <2>1, OnlyRequestsChange
<1>2. CASE Next BY <1>2, AccountInv, RightsInv, SignInInv, KeyInv DEF Next
<1>. QED BY <1>1, <1>2

LEMMA InvariantHolds == Spec => []IInv
<1>1. IInv /\ [Next]_vars => IInv' BY Inductive
<1>. QED BY InitInv, <1>1, PTL DEF Spec

(* Every table holds rows of its own kind and the keys the database has.    *)
THEOREM TypeCorrect == Spec => []TypeOK
<1>1. IInv => TypeOK
      BY DEF IInv, PeopleOK, IdentitiesOK, OffersOK, SessionsOK, RightsOK, KeysOK, KeyOK,
             FlowsOK, Good, FlowSet, TypeOK
<1>. QED BY InvariantHolds, <1>1, PTL

(* No account, group or key is left holding a role that was deleted         *)
(* (roles.Store.Delete), whatever was edited in which order.                *)
THEOREM RolesHeldAreThere == Spec => []HeldRolesExist
<1>1. IInv => HeldRolesExist BY DEF IInv
<1>. QED BY InvariantHolds, <1>1, PTL

(* Every account has exactly one kind of way in, and whoever counts as an   *)
(* administrator can sign in (registration.go, users.Store.Update).         *)
THEOREM NobodyIsLockedOut == Spec => []EveryAccountHasAWayIn
<1>1. IInv => EveryAccountHasAWayIn
  <2>1. OneWayOrTheOther => AnAdministratorCanSignIn
        BY DEF OneWayOrTheOther, AnAdministratorCanSignIn, Administrators, AdministratorsWith
  <2>. QED BY <2>1 DEF IInv, EveryAccountHasAWayIn
<1>. QED BY InvariantHolds, <1>1, PTL

(* A session that was there when its account was switched off never         *)
(* resolves again (users.Store.Update, ResolveSession).                     *)
THEOREM SwitchedOffIsSignedOut == Spec => []NoSessionOutlivesTheSwitch
<1>1. IInv => NoSessionOutlivesTheSwitch
      BY DEF IInv, SessionsOK, NoSessionOutlivesTheSwitch, Resolves
<1>. QED BY InvariantHolds, <1>1, PTL

-----------------------------------------------------------------------------
(* The last administrator.                                                  *)

(* Nobody who can manage access loses it as long as their account, its role *)
(* and their groups stay and the roles they hold go on writing access.      *)
LEMMA AdministratorsStay ==
  ASSUME \A u \in Accounts :
           /\ u \in Accounts' /\ (Invited(u)' => Invited(u))
           /\ status'[u] = "pending" => status[u] = "pending"
           /\ u \in disabled' => u \in disabled
           /\ role'[u] = role[u]
           /\ WritesAccess(role[u]) => WritesAccess(role[u])'
           /\ \A g \in GroupsThere : <<g, u>> \in members =>
                /\ g \in GroupsThere' /\ groupRole'[g] = groupRole[g]
                /\ <<g, u>> \in members'
                /\ WritesAccess(groupRole[g]) => WritesAccess(groupRole[g])'
  PROVE  Administrators # {} => Administrators' # {}
<1> SUFFICES ASSUME NEW u \in Administrators PROVE u \in Administrators' OBVIOUS
<1> USE DEF Administrators, AdministratorsWith
<1>1. /\ u \in Accounts /\ u \notin disabled /\ status[u] # "pending" /\ ~Invited(u)
      /\ u \in Accounts' /\ u \notin disabled' /\ status'[u] # "pending" /\ ~Invited(u)'
      OBVIOUS
<1>2. PICK r \in {role[u]} \cup GroupRolesOf(u) : WritesAccess(r) OBVIOUS
<1>3. \E q \in {role'[u]} \cup GroupRolesOf(u)' : WritesAccess(q)'
  <2>1. CASE r = role[u] BY <1>1, <1>2, <2>1 DEF WritesAccess
  <2>2. CASE r \in GroupRolesOf(u)
    <3>1. PICK g \in GroupsThere : <<g, u>> \in members /\ r = groupRole[g]
          BY <2>2 DEF GroupRolesOf
    <3>2. groupRole'[g] \in GroupRolesOf(u)' BY <1>1, <3>1 DEF GroupRolesOf
    <3>. QED BY <1>1, <1>2, <3>1, <3>2 DEF WritesAccess
  <2>. QED BY <1>2, <2>1, <2>2
<1>. QED BY <1>1, <1>3

(* No account's rights are touched.                                         *)
LEMMA NoRightsChange ==
  ASSUME UNCHANGED <<status, disabled, role, rights>>,
         \A u \in Accounts : Invited(u)' => Invited(u)
  PROVE  Administrators # {} => Administrators' # {}
BY AdministratorsStay DEF rights, Accounts, GroupsThere, WritesAccess

(* A new account takes nobody's place.                                      *)
LEMMA InsertTakesNobodysPlace ==
  ASSUME IInv, NEW u \in Users, NEW st, NEW r, NEW h, NEW p, Insert(u, st, r, h, p),
         st # "none", UNCHANGED <<custom, groupRole>>, members \subseteq members'
  PROVE  Administrators # {} => Administrators' # {}
<1>1. \A v \in Accounts :
        /\ v # u /\ v \in Accounts' /\ Invited(v)' = Invited(v)
        /\ status'[v] = status[v] /\ role'[v] = role[v]
      BY DEF IInv, PeopleOK, Insert, Accounts, Invited
<1>2. disabled' = disabled BY DEF Insert
<1>3. GroupsThere' = GroupsThere /\ \A q : WritesAccess(q)' = WritesAccess(q)
      BY DEF GroupsThere, WritesAccess
<1>. QED BY <1>1, <1>2, <1>3, AdministratorsStay

LEMMA AccountsKeepAnAdministrator ==
  ASSUME IInv, AccountNext
  PROVE  Administrators # {} => Administrators' # {}
<1>1. ASSUME NEW u \in Users, NEW r, NEW h, NEW p, NEW gs, Create(u, r, h, p, gs)
      PROVE  Administrators # {} => Administrators' # {}
      BY <1>1, InsertTakesNobodysPlace DEF Create
<1>2. ASSUME NEW u \in Users, UpdateUser(u)
      PROVE  Administrators # {} => Administrators' # {}
  <2>0. PICK edit \in Edit :
          \E r \in IF edit.rights THEN RolesThere ELSE {role[u]},
             on \in IF edit.on THEN BOOLEAN ELSE {u \notin disabled},
             p \in Providers \cup {NoProvider} : Update(u, edit, r, on, p)
        BY <1>2 DEF UpdateUser
  <2>1. PICK r \in IF edit.rights THEN RolesThere ELSE {role[u]},
             on \in IF edit.on THEN BOOLEAN ELSE {u \notin disabled},
             p \in Providers \cup {NoProvider} : Update(u, edit, r, on, p)
        BY <2>0
  <2>2. Administrators # {} => AdministratorsWith(disabled', role') # {}
        BY <2>1 DEF Update
  <2>3. \A v \in Accounts : Invited(v)' => Invited(v)
    <3>1. CASE p = NoProvider BY <2>1, <3>1 DEF Update, Invited
    <3>2. CASE p # NoProvider
      <4>1. Invited(u)
            BY <2>1, <3>2 DEF Update, MayBeInvited, IInv, OneWayOrTheOther
      <4>2. \A v \in Accounts \ {u} : invite'[v] = invite[v]
            BY <2>1, <3>2 DEF Update, IInv, PeopleOK, Accounts
      <4>. QED BY <4>1, <4>2 DEF Invited
    <3>. QED BY <3>1, <3>2
  <2>4. AdministratorsWith(disabled', role') \subseteq Administrators'
        BY <2>1, <2>3
        DEF Administrators, AdministratorsWith, Update, rights, Accounts, GroupRolesOf,
            GroupsThere, WritesAccess
  <2>. QED BY <2>2, <2>4
<1>3. ASSUME NEW u \in Users, NEW h, SetPassword(u, h)
      PROVE  Administrators # {} => Administrators' # {}
  <2>1. \A v \in Accounts : Invited(v)' => Invited(v)
        BY <1>3 DEF SetPassword, AnsweredInvitation, Invited, IInv, PeopleOK, Accounts
  <2>. QED BY <1>3, <2>1, NoRightsChange DEF SetPassword
<1>4. ASSUME NEW u \in Users, Delete(u)
      PROVE  Administrators # {} => Administrators' # {}
      BY <1>4 DEF Delete, GuardAdminRemains
<1>5. ASSUME NEW u \in Users, RejectRegistration(u)
      PROVE  Administrators # {} => Administrators' # {}
  <2>1. u \notin Administrators
        BY <1>5 DEF RejectRegistration, Administrators, AdministratorsWith
  <2> SUFFICES ASSUME NEW v \in Administrators PROVE v \in Administrators' OBVIOUS
  <2>2. v # u /\ v \in Accounts /\ v \in Users
        BY <2>1 DEF Administrators, AdministratorsWith, Accounts
  <2>3. /\ v \in Accounts' /\ Invited(v)' = Invited(v) /\ status'[v] = status[v]
        /\ role'[v] = role[v] /\ (v \in disabled' <=> v \in disabled)
        BY <1>5, <2>2 DEF RejectRegistration, Remove, IInv, PeopleOK, Accounts, Invited
  <2>4. \A g : <<g, v>> \in members => <<g, v>> \in members'
        BY <1>5, <2>2 DEF RejectRegistration, Remove
  <2>5. UNCHANGED <<custom, groupRole>> BY <1>5 DEF RejectRegistration, Remove
  <2>6. GroupRolesOf(v) \subseteq GroupRolesOf(v)'
        BY <2>4, <2>5 DEF GroupRolesOf, GroupsThere
  <2>7. v \notin disabled /\ status[v] # "pending" /\ ~Invited(v)
        BY DEF Administrators, AdministratorsWith
  <2>8. PICK r \in {role[v]} \cup GroupRolesOf(v) : WritesAccess(r)
        BY DEF Administrators, AdministratorsWith
  <2>9. \E q \in {role'[v]} \cup GroupRolesOf(v)' : WritesAccess(q)'
        BY <2>3, <2>5, <2>6, <2>8 DEF WritesAccess
  <2>. QED BY <2>3, <2>7, <2>9 DEF Administrators, AdministratorsWith
<1>6. ASSUME NEW u \in Users, NEW gs, ApproveRegistration(u, gs)
      PROVE  Administrators # {} => Administrators' # {}
  <2>1. \A v \in Accounts : /\ v \in Accounts'
                            /\ status'[v] = "pending" => status[v] = "pending"
        BY <1>6 DEF ApproveRegistration, IInv, PeopleOK, Accounts
  <2>2. members \subseteq members' /\ UNCHANGED <<disabled, role, invite, custom, groupRole>>
        BY <1>6 DEF ApproveRegistration
  <2>. QED BY <2>1, <2>2, AdministratorsStay DEF Invited, GroupsThere, WritesAccess
<1>7. ASSUME NEW u \in Users, InvitationLapses(u)
      PROVE  Administrators # {} => Administrators' # {}
      BY <1>7, NoRightsChange DEF InvitationLapses, Invited
<1>. QED BY <1>1, <1>2, <1>3, <1>4, <1>5, <1>6, <1>7 DEF AccountNext

LEMMA RightsKeepAnAdministrator ==
  ASSUME IInv, RightsNext
  PROVE  Administrators # {} => Administrators' # {}
<1>1. ASSUME NEW r \in Custom, NEW writes, CreateRole(r, writes)
      PROVE  Administrators # {} => Administrators' # {}
  <2>1. \A q : WritesAccess(q) => WritesAccess(q)'
        BY <1>1 DEF CreateRole, WritesAccess, IInv, RightsOK
  <2>. QED BY <1>1, <2>1, AdministratorsStay
           DEF CreateRole, people, Accounts, GroupsThere, Invited
<1>2. ASSUME NEW r \in Custom, NEW held, DeleteRole(r, held)
      PROVE  Administrators # {} => Administrators' # {}
  <2>1. \A q : q # r /\ WritesAccess(q) => WritesAccess(q)'
        BY <1>2 DEF DeleteRole, WritesAccess, IInv, RightsOK
  <2>2. /\ \A u \in Accounts : role[u] # r
        /\ \A g \in GroupsThere : groupRole[g] # r
        BY <1>2 DEF DeleteRole, GroupsThere
  <2>. QED BY <1>2, <2>1, <2>2, AdministratorsStay
           DEF DeleteRole, people, Accounts, GroupsThere, Invited
<1>3. ASSUME NEW g \in Groups, NEW r, r # "none", CreateGroup(g, r)
      PROVE  Administrators # {} => Administrators' # {}
  <2>1. \A h \in GroupsThere : h \in GroupsThere' /\ groupRole'[h] = groupRole[h]
        BY <1>3 DEF CreateGroup, GroupsThere, IInv, RightsOK
  <2>. QED BY <1>3, <2>1, AdministratorsStay
           DEF CreateGroup, people, Accounts, Invited, WritesAccess
<1>4. ASSUME NEW g, NEW u, AddMember(g, u)
      PROVE  Administrators # {} => Administrators' # {}
      BY <1>4, AdministratorsStay
      DEF AddMember, people, Accounts, GroupsThere, Invited, WritesAccess
<1>5. \A r \in RolesThere \cup {NoRole} : r # "none"
      BY DirectoryAssumption DEF RolesThere, Builtin, Administrator, Operator, NoRole
<1>. QED BY <1>1, <1>2, <1>3, <1>4, <1>5
         DEF RightsNext, UpdateRole, UpdateGroup, DeleteGroup, RemoveMember,
             GuardAdminRemains

LEMMA SigningInKeepsAnAdministrator ==
  ASSUME IInv, SignInNext
  PROVE  Administrators # {} => Administrators' # {}
<1>1. ASSUME UNCHANGED <<people, rights>>
      PROVE  Administrators # {} => Administrators' # {}
      BY <1>1, NoRightsChange DEF people, Invited
<1>2. ASSUME NEW u \in Users, RegisterFirst(u)
      PROVE  Administrators # {} => Administrators' # {}
      BY <1>2 DEF RegisterFirst, CreateFirst, Administrators, AdministratorsWith
<1>3. ASSUME NEW u \in Users, NEW approval, NEW gs, RegisterWithPassword(u, approval, gs)
      PROVE  Administrators # {} => Administrators' # {}
      BY <1>3, InsertTakesNobodysPlace DEF RegisterWithPassword, StatusFor
<1>4. ASSUME NEW f \in flows, ClaimInvite(f)
      PROVE  Administrators # {} => Administrators' # {}
  <2>1. \A v \in Accounts : Invited(v)' => Invited(v)
        BY <1>4 DEF ClaimInvite, Invited, IInv, PeopleOK, Accounts
  <2>. QED BY <1>4, <2>1, NoRightsChange DEF ClaimInvite
<1>5. ASSUME NEW f \in flows, NEW approval, NEW gs, RegisterArrival(f, approval, gs)
      PROVE  Administrators # {} => Administrators' # {}
  <2>1. CASE UNCHANGED dirVars BY <1>1, <2>1 DEF dirVars
  <2>2. CASE ~UNCHANGED dirVars
    <3>1. /\ Insert(f.user, StatusFor(TRUE, approval), Operator, NoPassword, NoProvider)
          /\ members' = members \cup (gs \X {f.user})
          /\ UNCHANGED <<custom, groupRole>>
          BY <1>5, <2>2 DEF RegisterArrival
    <3>2. f.user \in Users BY DEF IInv, FlowsOK, Good, FlowSet
    <3>. QED BY <3>1, <3>2, InsertTakesNobodysPlace DEF StatusFor
  <2>. QED BY <2>1, <2>2
<1>. QED BY <1>1, <1>2, <1>3, <1>4, <1>5
         DEF SignInNext, Authenticate, Arrive, SessionEnds, StartLink, UnlinkIdentity,
             Compare, Mismatch, OfferEnds, NewSession, Look, OfferLink, RefuseArrival,
             LinkIdentity, ConfirmLink, dirVars

LEMMA KeysKeepAnAdministrator ==
  ASSUME IInv, KeyNext
  PROVE  Administrators # {} => Administrators' # {}
<1>1. ASSUME UNCHANGED dirVars PROVE Administrators # {} => Administrators' # {}
      BY <1>1, NoRightsChange DEF dirVars, people, Invited
<1>2. ASSUME NEW k \in Keys, NEW r, NEW gs, CreateKey(k, r, gs)
      PROVE  Administrators # {} => Administrators' # {}
      BY <1>2, AdministratorsStay
      DEF CreateKey, people, Accounts, GroupsThere, Invited, WritesAccess
<1>3. ASSUME NEW k \in Keys, NEW r, NEW e, NEW gs, UpdateKey(k, r, e, gs)
      PROVE  Administrators # {} => Administrators' # {}
  <2>1. \A g : \A u \in Accounts : <<g, u>> \in members => <<g, u>> \in members'
        BY <1>3, DirectoryAssumption DEF UpdateKey, Accounts
  <2>. QED BY <1>3, <2>1, AdministratorsStay
           DEF UpdateKey, people, Accounts, GroupsThere, Invited, WritesAccess
<1>. QED BY <1>1, <1>2, <1>3 DEF KeyNext, RotateKey, RevokeKey, GraceEnds, KeyExpires

(* Once somebody can manage access somebody always can, for any number of   *)
(* accounts, roles, groups, keys and requests (roles.GuardAdminRemains).    *)
THEOREM SomebodyAlwaysAdministers == Spec => SomebodyAdministers
<1>1. IInv /\ [Next]_vars => [Administrators # {} => Administrators' # {}]_vars
      BY AccountsKeepAnAdministrator, RightsKeepAnAdministrator,
         SigningInKeepsAnAdministrator, KeysKeepAnAdministrator DEF Next
<1>. QED BY InvariantHolds, <1>1, PTL DEF Spec, SomebodyAdministers

-----------------------------------------------------------------------------
(* Who gains a provider.                                                    *)

\* What entitles the account of identity i to it.
Entitled(i) ==
  LET u == i.user
  IN  \/ u \notin Accounts
      \/ invite[u] = i.provider /\ u \notin lapsed /\ u \notin disabled
      \/ \E f \in flows :
            /\ f.user = u /\ f.provider = i.provider /\ f.subject = i.subject
            /\ \/ f.step = "linking"
               \/ /\ f.step = "confirming" /\ f.hash = password[u]
                  /\ u \notin disabled

LEMMA SigningInLinksNobodyElse ==
  ASSUME SignInNext
  PROVE  \A i \in identities' \ identities : Entitled(i)
<1>1. ASSUME identities' \subseteq identities
      PROVE  \A i \in identities' \ identities : Entitled(i)
      BY <1>1
<1>2. ASSUME NEW f \in flows,
             identities' = identities \cup {NewIdentity(f.user, f.provider, f.subject)},
             Entitled(NewIdentity(f.user, f.provider, f.subject))
      PROVE  \A i \in identities' \ identities : Entitled(i)
      BY <1>2
<1>3. ASSUME NEW f \in flows, ClaimInvite(f)
      PROVE  \A i \in identities' \ identities : Entitled(i)
  <2>1. CASE InvitationOpen(f.user, f.provider) /\ ~Linked(f.provider, f.subject)
    <3>1. identities' = identities \cup {NewIdentity(f.user, f.provider, f.subject)}
          BY <1>3, <2>1 DEF ClaimInvite
    <3>2. Entitled(NewIdentity(f.user, f.provider, f.subject))
          BY <2>1 DEF Entitled, NewIdentity, InvitationOpen
    <3>. QED BY <1>2, <3>1, <3>2
  <2>2. CASE ~(InvitationOpen(f.user, f.provider) /\ ~Linked(f.provider, f.subject))
        BY <1>1, <1>3, <2>2 DEF ClaimInvite
  <2>. QED BY <2>1, <2>2
<1>4. ASSUME NEW f \in flows, NEW approval, NEW gs, RegisterArrival(f, approval, gs)
      PROVE  \A i \in identities' \ identities : Entitled(i)
  <2>1. CASE UNCHANGED dirVars BY <1>1, <2>1 DEF dirVars, signs
  <2>2. CASE ~UNCHANGED dirVars
    <3>1. /\ f.user \notin Accounts
          /\ identities' = identities \cup {NewIdentity(f.user, f.provider, f.subject)}
          BY <1>4, <2>2 DEF RegisterArrival
    <3>2. Entitled(NewIdentity(f.user, f.provider, f.subject))
          BY <3>1 DEF Entitled, NewIdentity
    <3>. QED BY <1>2, <3>1, <3>2
  <2>. QED BY <2>1, <2>2
<1>5. ASSUME NEW f \in flows, LinkIdentity(f)
      PROVE  \A i \in identities' \ identities : Entitled(i)
  <2>1. Entitled(NewIdentity(f.user, f.provider, f.subject))
        BY <1>5 DEF LinkIdentity, Entitled, NewIdentity
  <2>. QED BY <1>1, <1>2, <1>5, <2>1 DEF LinkIdentity
<1>6. ASSUME NEW f \in flows, ConfirmLink(f)
      PROVE  \A i \in identities' \ identities : Entitled(i)
  <2>1. CASE UNCHANGED identities BY <1>1, <2>1
  <2>2. CASE ~UNCHANGED identities
    <3>1. /\ StillHolds(f)
          /\ identities' = identities \cup {NewIdentity(f.user, f.provider, f.subject)}
          BY <1>6, <2>2 DEF ConfirmLink
    <3>2. Entitled(NewIdentity(f.user, f.provider, f.subject))
          BY <1>6, <3>1 DEF ConfirmLink, StillHolds, Entitled, NewIdentity
    <3>. QED BY <1>2, <3>1, <3>2
  <2>. QED BY <2>1, <2>2
<1>. QED BY <1>1, <1>3, <1>4, <1>5, <1>6
         DEF SignInNext, Authenticate, RegisterFirst, CreateFirst, RegisterWithPassword,
             Arrive, SessionEnds, StartLink, UnlinkIdentity, Compare, Mismatch, OfferEnds,
             NewSession, Look, OfferLink, RefuseArrival, dirVars, signs

LEMMA RequestsLinkNobody ==
  ASSUME AccountNext \/ RightsNext \/ KeyNext \/ UNCHANGED vars
  PROVE  identities' \subseteq identities
<1>1. AccountNext => identities' \subseteq identities
      BY DEF AccountNext, Create, UpdateUser, Update, SetPassword, Delete,
             RejectRegistration, Remove, ApproveRegistration, InvitationLapses, signs
<1>2. RightsNext => identities' \subseteq identities
      BY DEF RightsNext, CreateRole, UpdateRole, DeleteRole, CreateGroup, UpdateGroup,
             DeleteGroup, AddMember, RemoveMember, signs
<1>3. KeyNext => identities' \subseteq identities
      BY DEF KeyNext, CreateKey, UpdateKey, RotateKey, RevokeKey, GraceEnds, KeyExpires,
             dirVars, signs
<1>4. UNCHANGED vars => identities' \subseteq identities BY DEF vars, dirVars, signs
<1>. QED BY <1>1, <1>2, <1>3, <1>4

(* An account gains a provider only from a session of its own, from the     *)
(* password it has at that moment or from its own open invitation, whatever *)
(* happens between the steps of any number of requests                      *)
(* (users.Store.ClaimInvite, LinkIdentity, ClaimPendingLink).               *)
THEOREM AnAddressOpensNoAccount == Spec => AnAddressIsNotAnAccount
<1>1. [Next]_vars => \A i \in identities' \ identities : Entitled(i)
      BY SigningInLinksNobodyElse, RequestsLinkNobody DEF Next
<1>2. [Next]_vars => [\A i \in identities' \ identities :
          LET u == i.user
          IN  \/ u \notin Accounts
              \/ invite[u] = i.provider /\ u \notin lapsed /\ u \notin disabled
              \/ \E f \in flows :
                    /\ f.user = u /\ f.provider = i.provider /\ f.subject = i.subject
                    /\ \/ f.step = "linking"
                       \/ /\ f.step = "confirming" /\ f.hash = password[u]
                          /\ u \notin disabled]_vars
      BY <1>1 DEF Entitled
<1>. QED BY <1>2, PTL DEF Spec, AnAddressIsNotAnAccount

-----------------------------------------------------------------------------
(* The secrets of a key.                                                    *)

\* What k opens with after the step it opened with before, a new secret aside.
NothingReopens(k) == \A s \in 1..secret[k] : s \in Opens(k)' => s \in Opens(k)

LEMMA KeysStayShut ==
  ASSUME IInv, KeyNext, NEW j \in Keys
  PROVE  NothingReopens(j)
<1> USE DEF NothingReopens, Opens
<1>0. /\ KeyOK(j) /\ secret[j] \in Nat /\ previous[j] \in Nat
      /\ DOMAIN keyState = Keys /\ DOMAIN secret = Keys /\ DOMAIN previous = Keys
      BY DEF IInv, KeysOK
<1>1. ASSUME NEW k \in Keys, NEW r, NEW gs, CreateKey(k, r, gs) PROVE NothingReopens(j)
      BY <1>0, <1>1 DEF CreateKey, KeyOK
<1>2. ASSUME NEW k \in Keys, NEW r, NEW e, NEW gs, UpdateKey(k, r, e, gs)
      PROVE  NothingReopens(j)
      BY <1>0, <1>2 DEF UpdateKey, Revocable
<1>3. ASSUME NEW k \in Keys, NEW grace \in BOOLEAN, RotateKey(k, grace)
      PROVE  NothingReopens(j)
  <2>1. CASE j = k
    <3>1. /\ secret'[k] = secret[k] + 1 /\ keyState'[k] = keyState[k]
          /\ previous'[k] = 0 \/ previous'[k] = secret[k]
          BY <1>0, <1>3 DEF RotateKey, Replaced
    <3>. QED BY <1>0, <1>3, <2>1, <3>1 DEF RotateKey, Revocable, KeyOK
  <2>2. CASE j # k BY <1>0, <1>3, <2>2 DEF RotateKey
  <2>. QED BY <2>1, <2>2
<1>4. ASSUME NEW k \in Keys, RevokeKey(k) PROVE NothingReopens(j)
      BY <1>0, <1>4 DEF RevokeKey, Revocable
<1>5. ASSUME NEW k \in Keys, GraceEnds(k) PROVE NothingReopens(j)
      BY <1>0, <1>5 DEF GraceEnds
<1>6. ASSUME NEW k \in Keys, KeyExpires(k) PROVE NothingReopens(j)
      BY <1>0, <1>6 DEF KeyExpires
<1>. QED BY <1>1, <1>2, <1>3, <1>4, <1>5, <1>6 DEF KeyNext

(* Once a secret has stopped opening its key it never does again, whatever  *)
(* rotations, revocations and edits follow (apikeys.Store.Rotate, Revoke,   *)
(* Update).                                                                 *)
THEOREM NoSecretComesBack == Spec => RetiredSecretsStayShut
<1>1. ASSUME IInv, [Next]_vars, NEW k \in Keys
      PROVE  NothingReopens(k)
  <2>1. UNCHANGED keyVars => NothingReopens(k)
        BY DEF keyVars, NothingReopens, Opens
  <2>. QED BY <1>1, <2>1, KeysStayShut DEF Next, vars
<1>2. IInv /\ [Next]_vars =>
        [\A k \in Keys : \A s \in 1..secret[k] : s \in Opens(k)' => s \in Opens(k)]_vars
      BY <1>1 DEF NothingReopens
<1>. QED BY InvariantHolds, <1>2, PTL DEF Spec, RetiredSecretsStayShut
=============================================================================
