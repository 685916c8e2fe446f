----------------------------- MODULE Directory -----------------------------
(***************************************************************************)
(* The tables that say who may administer this host, and the transactions  *)
(* an administrator's request runs over them: accounts                     *)
(* (auth/users/store.go, auth/users/registration.go), roles                *)
(* (auth/roles/roles.go), groups and memberships (auth/groups/groups.go).  *)
(*                                                                         *)
(* Every write is one WriteTx on the process's single writer, so each is   *)
(* one step, and a transaction that returns an error rolled back: it is a  *)
(* step that is not enabled.  What is sought here needs several of them.   *)
(*                                                                         *)
(* An account is named by its address, which is unique among the accounts  *)
(* there are.  Names, grants and audit entries are left out; whether an    *)
(* edit names the grants is kept, because such an edit ends sessions.  A   *)
(* password stands for its bcrypt hash, which carries a salt: no two       *)
(* settings of a password have the same one.  A deadline is a moment that  *)
(* comes: `lapsed' holds the accounts whose invitation is past its expiry, *)
(* and an offer or a session past its own is a row no statement returns    *)
(* any more, so it is removed when that moment comes.                      *)
(***************************************************************************)
EXTENDS Naturals, FiniteSets

CONSTANTS
    Users,        \* the addresses an account can have
    Keys,         \* the API keys; here only as members of groups
    Groups,       \* the groups there can be
    Custom,       \* the roles an administrator can add
    Providers,    \* the single sign-on providers this build knows
    Subjects,     \* the accounts people have at a provider
    Hashes        \* the password hashes

Administrator == "administrator"
Operator == "operator"
Builtin == {Administrator, Operator}
NoRole == "no role"
NoProvider == "no provider"
NoPassword == 0

ASSUME DirectoryAssumption ==
    /\ NoProvider \notin Providers /\ NoPassword \notin Hashes
    /\ Users \cap Keys = {} /\ "none" \notin Custom

VARIABLES
    status,       \* [Users -> {"none", "pending", "active"}]
    disabled,     \* the accounts switched off
    role,         \* [Users -> the role of the account's own]
    password,     \* [Users -> the hash, or NoPassword]
    invite,       \* [Users -> the provider an open invitation names]
    lapsed,       \* the accounts whose invitation has expired
    identities,   \* the table user_identities
    offers,       \* the table sso_pending_links: one row per account
    sessions,     \* the table user_sessions
    custom,       \* [Custom -> {"none", "plain", "access"}]: the added roles
    groupRole,    \* [Groups -> "none", or the role the group hands out]
    members       \* the table group_members, as <<group, subject>>

people == <<status, disabled, role, password, invite, lapsed>>
signs == <<identities, offers, sessions>>
rights == <<custom, groupRole, members>>
dirVars == <<people, signs, rights>>

Identity == [provider : Providers, subject : Subjects, user : Users]
Offer == [user : Users, provider : Providers, subject : Subjects,
          failures : 0..3]
\* off: the account has been switched off while this row was there
Session == [user : Users, off : BOOLEAN]

Accounts == {u \in Users : status[u] # "none"}
GroupsThere == {g \in Groups : groupRole[g] # "none"}
RoleExists(r) == r \in Builtin \/ (r \in Custom /\ custom[r] # "none")
RolesThere == {r \in Builtin \cup Custom : RoleExists(r)}
WritesAccess(r) ==
    r = Administrator \/ (r \in Custom /\ custom[r] = "access")

IdentitiesOf(u) == {i \in identities : i.user = u}
HasPassword(u) == password[u] # NoPassword
Invited(u) == invite[u] # NoProvider
GroupRolesOf(u) == {groupRole[g] : g \in {h \in GroupsThere : <<h, u>> \in members}}

\* roles.CountAdministrators, as the set it counts, for the accounts switched
\* off and the roles given.
AdministratorsWith(off, own) ==
    {u \in Accounts : /\ u \notin off /\ status[u] # "pending"
                      /\ ~Invited(u)
                      /\ \E r \in {own[u]} \cup GroupRolesOf(u) : WritesAccess(r)}
Administrators == AdministratorsWith(disabled, role)

\* A plausible bug: the guard is asked before the write.
GuardLooksBack == Administrators # {} => Administrators # {}

\* roles.GuardAdminRemains: judged of the state the transaction would leave.
GuardAdminRemains == Administrators # {} => Administrators' # {}

DirInit ==
    /\ status = [u \in Users |-> "none"]
    /\ disabled = {}
    /\ role = [u \in Users |-> NoRole]
    /\ password = [u \in Users |-> NoPassword]
    /\ invite = [u \in Users |-> NoProvider]
    /\ lapsed = {}
    /\ identities = {} /\ offers = {} /\ sessions = {}
    /\ custom = [r \in Custom |-> "none"]
    /\ groupRole = [g \in Groups |-> "none"]
    /\ members = {}

-----------------------------------------------------------------------------
(* Accounts.                                                               *)

\* The row of a new account.
Insert(u, st, r, h, p) ==
    /\ status[u] = "none"
    /\ status' = [status EXCEPT ![u] = st]
    /\ role' = [role EXCEPT ![u] = r]
    /\ password' = [password EXCEPT ![u] = h]
    /\ invite' = [invite EXCEPT ![u] = p]
    /\ UNCHANGED <<disabled, lapsed>>

\* users.Store.Create: an invitation or a password, never both.
Create(u, r, h, p, gs) ==
    /\ RoleExists(r)
    /\ (p = NoProvider) # (h = NoPassword)
    /\ gs \subseteq GroupsThere
    /\ Insert(u, "active", r, h, p)
    /\ members' = members \cup (gs \X {u})
    /\ UNCHANGED <<signs, custom, groupRole>>

\* users.Store.CreateFirst: only while there is no account at all.
CreateFirst(u, h) ==
    /\ Accounts = {}
    /\ Insert(u, "active", Administrator, h, NoProvider)
    /\ UNCHANGED <<signs, rights>>

\* Whether the statement that offers an invitation again matches the row.
MayBeInvited(u) ==
    /\ ~HasPassword(u)
    /\ u \notin disabled'
    /\ IdentitiesOf(u) = {}

\* A plausible bug: switching an account leaves its sessions to the check that
\* resolves them.
DropsForRights(edit) == edit.rights

\* Which edit ends the account's sessions: one that names the role, the grants
\* or whether the account is on, whatever it sets them to.
DropsSessions(edit) == edit.rights \/ edit.on

\* users.Store.Update.  The guard is asked before the invitation is written.
\* `edit' says whether the request names the role or the grants, and whether it
\* names the account being on or off.
Update(u, edit, r, on, p) ==
    /\ u \in Accounts
    /\ r = role[u] \/ (edit.rights /\ RoleExists(r))
    /\ edit.on \/ on = (u \notin disabled)
    /\ role' = [role EXCEPT ![u] = r]
    /\ disabled' = IF on THEN disabled \ {u} ELSE disabled \cup {u}
    /\ UNCHANGED <<status, password, identities, offers, rights>>
    /\ Administrators # {} => AdministratorsWith(disabled', role') # {}
    /\ IF p = NoProvider
       THEN UNCHANGED <<invite, lapsed>>
       ELSE /\ MayBeInvited(u)
            /\ invite' = [invite EXCEPT ![u] = p]
            /\ lapsed' = lapsed \ {u}
    /\ sessions' = IF DropsSessions(edit)
                   THEN {s \in sessions : s.user # u}
                   ELSE {IF s.user = u /\ ~on THEN [s EXCEPT !.off = TRUE] ELSE s :
                            s \in sessions}

\* A plausible bug: the invitation stays open beside the password.
KeepsInvitation(u) == invite[u]
\* The provider an invitation names once the account has a password.
AnsweredInvitation(u) == NoProvider

\* users.Store.SetPassword: retires the invitation and ends every session.
SetPassword(u, h) ==
    /\ u \in Accounts
    /\ password' = [password EXCEPT ![u] = h]
    /\ invite' = [invite EXCEPT ![u] = AnsweredInvitation(u)]
    /\ lapsed' = lapsed \ {u}
    /\ sessions' = {s \in sessions : s.user # u}
    /\ UNCHANGED <<status, disabled, role, identities, offers, rights>>

\* The rows that go with an account; RejectRegistration leaves the sessions
\* and the offers to the foreign key.
Remove(u) ==
    /\ status' = [status EXCEPT ![u] = "none"]
    /\ disabled' = disabled \ {u}
    /\ role' = [role EXCEPT ![u] = NoRole]
    /\ password' = [password EXCEPT ![u] = NoPassword]
    /\ invite' = [invite EXCEPT ![u] = NoProvider]
    /\ lapsed' = lapsed \ {u}
    /\ identities' = identities \ IdentitiesOf(u)
    /\ offers' = {o \in offers : o.user # u}
    /\ sessions' = {s \in sessions : s.user # u}
    /\ members' = {m \in members : m[2] # u}
    /\ UNCHANGED <<custom, groupRole>>

\* users.Store.Delete
Delete(u) ==
    /\ u \in Accounts
    /\ Remove(u)
    /\ GuardAdminRemains

\* users.Store.ApproveRegistration, with the groups the decision assigns
ApproveRegistration(u, gs) ==
    /\ status[u] = "pending"
    /\ gs \subseteq GroupsThere
    /\ status' = [status EXCEPT ![u] = "active"]
    /\ members' = members \cup (gs \X {u})
    /\ UNCHANGED <<disabled, role, password, invite, lapsed, signs, custom, groupRole>>

\* users.Store.RejectRegistration: a pending account only
RejectRegistration(u) ==
    /\ status[u] = "pending"
    /\ Remove(u)

\* An invitation reaches its expiry (InviteTTL).
InvitationLapses(u) ==
    /\ u \in Accounts /\ Invited(u) /\ u \notin lapsed
    /\ lapsed' = lapsed \cup {u}
    /\ UNCHANGED <<status, disabled, role, password, invite, signs, rights>>

-----------------------------------------------------------------------------
(* Roles and groups.                                                       *)

\* roles.Store.Create
CreateRole(r, writes) ==
    /\ custom[r] = "none"
    /\ custom' = [custom EXCEPT ![r] = writes]
    /\ UNCHANGED <<people, signs, groupRole, members>>

\* roles.Store.Update: never a built-in one
UpdateRole(r, writes) ==
    /\ custom[r] # "none"
    /\ custom' = [custom EXCEPT ![r] = writes]
    /\ UNCHANGED <<people, signs, groupRole, members>>
    /\ GuardAdminRemains

\* roles.Store.Delete: only one that nothing holds; heldByAKey is what the
\* statement asks of api_keys, and the linked ChatGPT accounts it asks of too
\* (roles.go 383) are left out: they could only refuse more
DeleteRole(r, heldByAKey) ==
    /\ custom[r] # "none"
    /\ ~ \E u \in Accounts : role[u] = r
    /\ ~heldByAKey
    /\ ~ \E g \in Groups : groupRole[g] = r
    /\ custom' = [custom EXCEPT ![r] = "none"]
    /\ UNCHANGED <<people, signs, groupRole, members>>

\* groups.Store.Create: with a role, or with none
CreateGroup(g, r) ==
    /\ groupRole[g] = "none"
    /\ r = NoRole \/ RoleExists(r)
    /\ groupRole' = [groupRole EXCEPT ![g] = r]
    /\ UNCHANGED <<people, signs, custom, members>>

\* groups.Store.Update
UpdateGroup(g, r) ==
    /\ g \in GroupsThere
    /\ r = NoRole \/ RoleExists(r)
    /\ groupRole' = [groupRole EXCEPT ![g] = r]
    /\ UNCHANGED <<people, signs, custom, members>>
    /\ GuardAdminRemains

MembersWithout(g) == {m \in members : m[1] # g}

\* groups.Store.Delete: the memberships go with it
DeleteGroup(g) ==
    /\ g \in GroupsThere
    /\ groupRole' = [groupRole EXCEPT ![g] = "none"]
    /\ members' = MembersWithout(g)
    /\ UNCHANGED <<people, signs, custom>>
    /\ GuardAdminRemains

\* groups.Store.AddMember, for an account
AddMember(g, u) ==
    /\ g \in GroupsThere
    /\ u \in Accounts
    /\ members' = members \cup {<<g, u>>}
    /\ UNCHANGED <<people, signs, custom, groupRole>>

\* groups.Store.RemoveMember, for an account
RemoveMember(g, u) ==
    /\ <<g, u>> \in members
    /\ members' = members \ {<<g, u>>}
    /\ UNCHANGED <<people, signs, custom, groupRole>>
    /\ GuardAdminRemains
=============================================================================
