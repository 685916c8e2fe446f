------------------------------ MODULE Accounts ------------------------------
(***************************************************************************)
(* Who may use and administer this host: the tables of Directory, the keys *)
(* of APIKeys and the requests of SignIn, running against each other.      *)
(*                                                                         *)
(* An administrator's request is allowed at any time: a token in the       *)
(* configuration file may hold every permission, so one needs no account.  *)
(***************************************************************************)
EXTENDS APIKeys, SignIn

vars == <<dirVars, keyVars, flows>>

Init == DirInit /\ KeyInit /\ flows = {}

\* What an edit names.  One that names the rights alone does what one does that
\* names the account being on as well, as it is.
Edit == {e \in [rights : BOOLEAN, on : BOOLEAN] : e.rights => e.on}

\* PATCH /api/users/{id}, the fields
UpdateUser(u) ==
    \E edit \in Edit :
       \E r \in IF edit.rights THEN RolesThere ELSE {role[u]},
          on \in IF edit.on THEN BOOLEAN ELSE {u \notin disabled},
          p \in Providers \cup {NoProvider} :
            Update(u, edit, r, on, p) /\ UNCHANGED flows

\* The administrator's requests about accounts.
AccountNext ==
    \/ \E u \in Users, r \in RolesThere, gs \in SUBSET GroupsThere :
          /\ \/ Create(u, r, NewHash(u), NoProvider, gs)
             \/ \E p \in Providers : Create(u, r, NoPassword, p, gs)
          /\ UNCHANGED flows
    \/ \E u \in Users : UpdateUser(u)
    \/ \E u \in Users : SetPassword(u, NewHash(u)) /\ UNCHANGED flows
    \/ \E u \in Users : Delete(u) /\ flows' = Orphaned(u)
    \/ \E u \in Users : RejectRegistration(u) /\ flows' = Orphaned(u)
    \/ /\ \E u \in Users :
             \/ \E gs \in SUBSET GroupsThere : ApproveRegistration(u, gs)
             \/ InvitationLapses(u)
       /\ UNCHANGED flows

\* The administrator's requests about roles and groups.
RightsNext ==
    \/ \E r \in Custom, writes \in {"plain", "access"} :
          CreateRole(r, writes) \/ UpdateRole(r, writes)
    \/ \E r \in Custom : DeleteRole(r, HeldByAKey(r))
    \/ \E g \in Groups :
          \/ \E r \in RolesThere \cup {NoRole} : CreateGroup(g, r) \/ UpdateGroup(g, r)
          \/ DeleteGroup(g)
          \/ \E u \in Users : AddMember(g, u) \/ RemoveMember(g, u)

Next ==
    \/ AccountNext /\ UNCHANGED keyVars
    \/ RightsNext /\ UNCHANGED <<keyVars, flows>>
    \/ SignInNext /\ UNCHANGED keyVars
    \/ KeyNext /\ UNCHANGED flows

Spec == Init /\ [][Next]_vars

-----------------------------------------------------------------------------

(* Every table holds rows of its own kind, one offer an account, and the   *)
(* keys the database has: (provider, subject) and (provider, user_id) are  *)
(* unique in user_identities.                                              *)
TypeOK ==
    /\ status \in [Users -> {"none", "pending", "active"}]
    /\ disabled \subseteq Accounts /\ lapsed \subseteq Accounts
    /\ role \in [Users -> Builtin \cup Custom \cup {NoRole}]
    /\ password \in [Users -> Hashes \cup {NoPassword}]
    /\ invite \in [Users -> Providers \cup {NoProvider}]
    /\ identities \subseteq Identity
    /\ \A i, j \in identities :
          i.provider = j.provider /\ (i.subject = j.subject \/ i.user = j.user)
              => i = j
    /\ offers \subseteq Offer /\ \A o, q \in offers : o.user = q.user => o = q
    /\ sessions \subseteq Session
    /\ custom \in [Custom -> {"none", "plain", "access"}]
    /\ groupRole \in [Groups -> Builtin \cup Custom \cup {NoRole, "none"}]
    /\ members \subseteq GroupsThere \X (Accounts \cup Keys)
    /\ keyState \in [Keys -> {"none", "live", "expired", "revoked"}]
    /\ \A k \in Keys : previous[k] < secret[k] \/ keyState[k] = "none"
    /\ \A f \in flows : f.step \in Steps /\ f.user \in Users

(* Once somebody can manage access to the host, somebody always can: no    *)
(* sequence of edits to accounts, roles, groups and memberships, of        *)
(* sign-ins, claims, invitations and deletions ends with nobody (roles.go  *)
(* 402-440, GuardAdminRemains).  What the guard does not look at has to    *)
(* keep out of its way: an invitation offered again is written after it.   *)
SomebodyAdministers == [][Administrators # {} => Administrators' # {}]_vars

(* Everybody who is counted as able to manage access can sign in: an       *)
(* administrator the guard leaves standing has a password or a provider    *)
(* (roles.go: "a subject who cannot sign in cannot put things right").     *)
AnAdministratorCanSignIn ==
    \A u \in Administrators : HasPassword(u) \/ IdentitiesOf(u) # {}

(* An account always has a way in -- a password, a provider, or an         *)
(* invitation that may yet be taken up or offered again -- and an open     *)
(* invitation is never beside a credential, where whoever holds the        *)
(* address at the provider could claim an account in use (users.go: "it    *)
(* has to be one or the other").                                           *)
OneWayOrTheOther ==
    \A u \in Accounts :
        Invited(u) <=> ~HasPassword(u) /\ IdentitiesOf(u) = {}

(* Nobody is locked out by what the host allowed, and nobody is let in: an  *)
(* account has exactly one kind of way in, and whoever is counted as able   *)
(* to put things right can come in to do it.                                *)
EveryAccountHasAWayIn == OneWayOrTheOther /\ AnAdministratorCanSignIn

(* An address is not an account: an account that somebody already has      *)
(* gains a provider only from the session that started the link, from the  *)
(* password the account has at that moment while it is switched on, or     *)
(* from an invitation that names the provider and has not lapsed --        *)
(* whatever was read earlier in the request and changed since              *)
(* (registration.go 425-441, 479-492, pendinglink.go 244-260).             *)
AnAddressIsNotAnAccount ==
    [][\A i \in identities' \ identities :
          LET u == i.user
          IN  \/ u \notin Accounts
              \/ invite[u] = i.provider /\ u \notin lapsed /\ u \notin disabled
              \/ \E f \in flows :
                    /\ f.user = u /\ f.provider = i.provider /\ f.subject = i.subject
                    /\ \/ f.step = "linking"
                       \/ /\ f.step = "confirming" /\ f.hash = password[u]
                          /\ u \notin disabled]_vars

(* A session that was there while its account was switched off is of no    *)
(* use ever after, the one a sign-in in flight wrote after the switch      *)
(* included, and also once the account is on again (store.go 492-494: an   *)
(* edit takes effect immediately, everywhere).                             *)
NoSessionOutlivesTheSwitch == \A s \in sessions : Resolves(s) => ~s.off

(* Whatever holds a role holds one that exists: an account, a group or a   *)
(* key that is not revoked never points at a deleted role (roles.go        *)
(* 352-400).                                                               *)
HeldRolesExist ==
    /\ \A u \in Accounts : RoleExists(role[u])
    /\ \A g \in GroupsThere : groupRole[g] = NoRole \/ RoleExists(groupRole[g])
    /\ \A k \in Keys : Revocable(k) => RoleExists(keyRole[k])

(* A secret that was replaced and stopped opening its key never opens it   *)
(* again, however the key is rotated, revoked, re-scoped or extended after *)
(* that (apikeys.go 483-492). Opens leaves the expiry of the key itself    *)
(* aside: extending an expired key opens it with the secrets it had.       *)
RetiredSecretsStayShut ==
    [][\A k \in Keys : \A s \in 1..secret[k] : s \in Opens(k)' => s \in Opens(k)]_vars
=============================================================================
