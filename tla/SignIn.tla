------------------------------- MODULE SignIn -------------------------------
(***************************************************************************)
(* How somebody comes to hold a session or a credential: the sign-in form  *)
(* (admin/session.go), the single sign-on callback                         *)
(* (admin/authentication.go), the registration form, and the offer to link *)
(* a provider to an account that already has the address                   *)
(* (admin/pendinglink.go, auth/users/pendinglink.go).                      *)
(*                                                                         *)
(* A request reads, decides and writes in transactions of its own, and     *)
(* anything may commit in between.  A flow is a request in that position:  *)
(* what it has read and what it does next.  Reads that follow each other   *)
(* with nothing decided between them are one step.  A request naming an    *)
(* account that is gone can only be refused (a foreign key, or no row), so *)
(* it is dropped when the account is.                                      *)
(***************************************************************************)
EXTENDS Directory

CONSTANTS
    MaxFlows,      \* requests between two of their steps at a time
    MaxFailures    \* users.MaxPendingLinkFailures

\* A salt is new to every request under way.
ASSUME FlowAssumption ==
    /\ MaxFlows \in Nat /\ MaxFailures \in 1..3
    /\ IsFiniteSet(Hashes) /\ MaxFlows < Cardinality(Hashes)

VARIABLE flows

Steps == {"claiming", "unmatched", "offering", "registering", "linking",
          "confirming", "opening"}
NoSubject == "no subject"

Flow(step, u, p, s, h) ==
    [step |-> step, user |-> u, provider |-> p, subject |-> s, hash |-> h]
Opening(u) == Flow("opening", u, NoProvider, NoSubject, NoPassword)
At(f, step) == [f EXCEPT !.step = step]

Begin(f) == Cardinality(flows) < MaxFlows /\ flows' = flows \cup {f}
Becomes(f, g) == flows' = (flows \ {f}) \cup {g}
Ends(f) == flows' = flows \ {f}

\* The hash of a password being set: no request has read it before.
NewHash(u) ==
    CHOOSE h \in Hashes : \A f \in flows : f.user = u => f.hash # h

Linked(p, s) == \E i \in identities : i.provider = p /\ i.subject = s
Has(u, p) == \E i \in IdentitiesOf(u) : i.provider = p
\* A plausible bug: nothing keeps an account to one identity of a provider.
MayInsertAnother(u, p, s) == ~Linked(p, s)
MayInsert(u, p, s) == ~Linked(p, s) /\ ~Has(u, p)
NewIdentity(u, p, s) == [provider |-> p, subject |-> s, user |-> u]

\* The requests that are left when an account is gone.
Orphaned(u) == {f \in flows : f.user # u \/ f.step \in
                                 {"claiming", "unmatched", "registering"}}

-----------------------------------------------------------------------------
(* Sessions.                                                               *)

\* users.Store.Authenticate: the password matched the hash just read.
Authenticate(u) ==
    /\ u \in Accounts \ disabled
    /\ HasPassword(u)
    /\ Begin(Opening(u))
    /\ UNCHANGED dirVars

\* users.Store.NewSession, whatever became of the account since
NewSession(f) ==
    /\ f.step = "opening"
    /\ sessions' = sessions \cup {[user |-> f.user, off |-> f.user \in disabled]}
    /\ Ends(f)
    /\ UNCHANGED <<people, identities, offers, rights>>

\* users.Store.ResolveSession
Resolves(s) == s \in sessions /\ s.user \in Accounts \ disabled

\* Signed out, past its ceiling, or idle for too long.
SessionEnds(s) ==
    /\ sessions' = sessions \ {s}
    /\ UNCHANGED <<people, identities, offers, rights, flows>>

\* POST /api/setup: the first account, signed straight in
RegisterFirst(u) ==
    /\ CreateFirst(u, NewHash(u))
    /\ Begin(Opening(u))

\* users.RegistrationPolicy.StatusFor: usable at once only with an address a
\* provider proved, on a host that does not ask for approval.
StatusFor(proved, approval) ==
    IF ~proved \/ approval THEN "pending" ELSE "active"

\* The default group, when the name in the settings is a group's.
DefaultGroup == {{}} \cup {{g} : g \in GroupsThere}

\* admin.handleRegister: a password, so nothing proves the address
RegisterWithPassword(u, approval, gs) ==
    /\ Accounts # {}
    /\ Insert(u, StatusFor(FALSE, approval), Operator, NewHash(u), NoProvider)
    /\ members' = members \cup (gs \X {u})
    /\ Begin(Opening(u))
    /\ UNCHANGED <<signs, custom, groupRole>>

-----------------------------------------------------------------------------
(* The callback of a provider.                                             *)

\* The provider proved the address u and names its subject; UserByIdentity is
\* read.
Arrive(p, s, u) ==
    /\ UNCHANGED dirVars
    /\ IF Linked(p, s)
       THEN \E i \in identities :
                /\ i.provider = p /\ i.subject = s
                /\ i.user \notin disabled
                /\ Begin(Opening(i.user))
       ELSE Begin(Flow("claiming", u, p, s, NoPassword))

\* The condition of the statement that retires an invitation.
InvitationOpen(u, p) ==
    /\ u \in Accounts
    /\ invite[u] = p
    /\ ~HasPassword(u)
    /\ u \notin disabled
    /\ u \notin lapsed
    /\ IdentitiesOf(u) = {}

\* users.Store.ClaimInvite
ClaimInvite(f) ==
    /\ f.step = "claiming"
    /\ LET u == f.user
           expired == u \in Accounts /\ invite[u] = f.provider /\ u \in lapsed
       IN  IF InvitationOpen(u, f.provider) /\ ~Linked(f.provider, f.subject)
           THEN /\ invite' = [invite EXCEPT ![u] = NoProvider]
                /\ identities' = identities \cup
                                   {NewIdentity(u, f.provider, f.subject)}
                /\ Becomes(f, Opening(u))
           ELSE /\ IF expired \/ InvitationOpen(u, f.provider)
                   THEN Ends(f) ELSE Becomes(f, At(f, "unmatched"))
                /\ UNCHANGED <<invite, identities>>
    /\ UNCHANGED <<status, disabled, role, password, lapsed, offers, sessions, rights>>

\* What offerLink asks of the account that has the address.
MayOffer(u, p) ==
    u \notin disabled /\ ~Invited(u) /\ HasPassword(u) /\ ~Has(u, p)
Offered(f) ==
    IF MayOffer(f.user, f.provider) THEN Becomes(f, At(f, "offering")) ELSE Ends(f)

\* ByEmail, and the reads of offerLink when it finds somebody
Look(f) ==
    /\ f.step = "unmatched"
    /\ IF f.user \in Accounts THEN Offered(f) ELSE Becomes(f, At(f, "registering"))
    /\ UNCHANGED dirVars

\* users.Store.OfferLink: one live offer per account, so a confirmation in
\* flight against the earlier one has nothing left to confirm.
OfferLink(f) ==
    /\ f.step = "offering"
    /\ offers' = {o \in offers : o.user # f.user} \cup
                   {[user |-> f.user, provider |-> f.provider,
                     subject |-> f.subject, failures |-> 0]}
    /\ flows' = {g \in flows \ {f} : g.user # f.user \/ g.step # "confirming"}
    /\ UNCHANGED <<people, identities, sessions, rights>>

\* users.Store.Register with the identity the provider proved.  The policy is
\* a setting: open or closed, and asking for approval or not.
RegisterArrival(f, approval, gs) ==
    /\ f.step = "registering"
    /\ IF f.user \in Accounts
       THEN Offered(f) /\ UNCHANGED dirVars
       ELSE IF Accounts = {} \/ Linked(f.provider, f.subject)
       THEN Ends(f) /\ UNCHANGED dirVars
       ELSE /\ Insert(f.user, StatusFor(TRUE, approval), Operator, NoPassword,
                      NoProvider)
            /\ identities' = identities \cup
                               {NewIdentity(f.user, f.provider, f.subject)}
            /\ members' = members \cup (gs \X {f.user})
            /\ Becomes(f, Opening(f.user))
            /\ UNCHANGED <<offers, sessions, custom, groupRole>>

\* The policy closes registration, or the domain is not allowed.
RefuseArrival(f) ==
    /\ f.step = "registering"
    /\ Ends(f)
    /\ UNCHANGED dirVars

-----------------------------------------------------------------------------
(* Linking a provider to an account that exists.                           *)

\* admin.completeLink: the flow was started by this account, and the browser
\* still holds a session of it.
StartLink(s, p, sub) ==
    /\ Resolves(s)
    /\ Begin(Flow("linking", s.user, p, sub, NoPassword))
    /\ UNCHANGED dirVars

\* users.Store.LinkIdentity; the primary key and UNIQUE (provider, user_id)
\* refuse the rest
LinkIdentity(f) ==
    /\ f.step = "linking"
    /\ IF MayInsert(f.user, f.provider, f.subject)
       THEN identities' = identities \cup {NewIdentity(f.user, f.provider, f.subject)}
       ELSE UNCHANGED identities
    /\ Ends(f)
    /\ UNCHANGED <<people, offers, sessions, rights>>

\* Dropping i leaves the account a way in.
NotTheOnlyWayIn(i) ==
    HasPassword(i.user) \/ IdentitiesOf(i.user) # {i}

\* users.Store.UnlinkIdentity, asked by the signed-in account
UnlinkIdentity(i) ==
    /\ \E s \in sessions : Resolves(s) /\ s.user = i.user
    /\ NotTheOnlyWayIn(i)
    /\ identities' = identities \ {i}
    /\ UNCHANGED <<people, offers, sessions, rights, flows>>

\* The conditions ClaimPendingLink reads an offer under.
MayConfirm(o) ==
    /\ o.failures < MaxFailures
    /\ o.user \notin disabled
    /\ HasPassword(o.user)
    /\ ~Has(o.user, o.provider)

\* users.Store.ClaimPendingLink as far as the password: it matched the hash
\* that was read.
Compare(o) ==
    /\ MayConfirm(o)
    /\ Begin(Flow("confirming", o.user, o.provider, o.subject, password[o.user]))
    /\ UNCHANGED dirVars

\* It did not match: users.Store.recordLinkFailure.
Mismatch(o) ==
    /\ MayConfirm(o)
    /\ offers' = (offers \ {o}) \cup
                   (IF o.failures + 1 < MaxFailures
                    THEN {[o EXCEPT !.failures = @ + 1]} ELSE {})
    /\ UNCHANGED <<people, identities, sessions, rights, flows>>

\* A plausible bug: the comparison is trusted whatever the password is by now.
StillOn(f) == f.user \notin disabled

\* What the claim restates: the account is on, and its password is the one
\* that was compared.
StillHolds(f) == f.user \notin disabled /\ password[f.user] = f.hash

\* users.Store.ClaimPendingLink, its transaction
ConfirmLink(f) ==
    /\ f.step = "confirming"
    /\ LET mine == {o \in offers : o.user = f.user}
       IN  IF /\ mine # {}
              /\ StillHolds(f)
              /\ MayInsert(f.user, f.provider, f.subject)
           THEN /\ offers' = offers \ mine
                /\ identities' = identities \cup
                                   {NewIdentity(f.user, f.provider, f.subject)}
                /\ Becomes(f, Opening(f.user))
           ELSE Ends(f) /\ UNCHANGED <<offers, identities>>
    /\ UNCHANGED <<people, sessions, rights>>

\* users.Store.DiscardPendingLink, or PendingLinkTTL is over
OfferEnds(o) ==
    /\ offers' = offers \ {o}
    /\ UNCHANGED <<people, identities, sessions, rights, flows>>

SignInNext ==
    \/ \E u \in Users :
          \/ Authenticate(u)
          \/ RegisterFirst(u)
          \/ \E approval \in BOOLEAN, gs \in DefaultGroup :
                RegisterWithPassword(u, approval, gs)
          \/ \E p \in Providers, s \in Subjects : Arrive(p, s, u)
    \/ \E s \in sessions :
          \/ SessionEnds(s)
          \/ \E p \in Providers, sub \in Subjects : StartLink(s, p, sub)
    \/ \E i \in identities : UnlinkIdentity(i)
    \/ \E o \in offers : Compare(o) \/ Mismatch(o) \/ OfferEnds(o)
    \/ \E f \in flows :
          \/ NewSession(f)
          \/ ClaimInvite(f)
          \/ Look(f)
          \/ OfferLink(f)
          \/ \E approval \in BOOLEAN, gs \in DefaultGroup :
                RegisterArrival(f, approval, gs)
          \/ RefuseArrival(f)
          \/ LinkIdentity(f)
          \/ ConfirmLink(f)
=============================================================================
