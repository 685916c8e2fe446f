------------------------------ MODULE APIKeys ------------------------------
(***************************************************************************)
(* The keys programs present (auth/apikeys/apikeys.go): issued with a role *)
(* and memberships, re-scoped, rotated with a grace for the secret that is *)
(* replaced, revoked, and expiring on their own.                           *)
(*                                                                         *)
(* A key's secrets are numbered in the order they were issued.  As in      *)
(* Directory a deadline is a moment that comes: the end of a grace, the    *)
(* expiry of a key.                                                        *)
(***************************************************************************)
EXTENDS Directory

CONSTANT MaxSecrets   \* the secrets one key is ever given

ASSUME KeyAssumption == MaxSecrets \in Nat

VARIABLES
    keyState,     \* [Keys -> {"none", "live", "expired", "revoked"}]
    keyRole,      \* [Keys -> its own role]
    secret,       \* [Keys -> the current secret, 0 before the first]
    previous,     \* [Keys -> the secret it was rotated away from, or 0]
    graceOver     \* the keys whose previous secret has had its grace

keyVars == <<keyState, keyRole, secret, previous, graceOver>>

KeyInit ==
    /\ keyState = [k \in Keys |-> "none"]
    /\ keyRole = [k \in Keys |-> NoRole]
    /\ secret = [k \in Keys |-> 0]
    /\ previous = [k \in Keys |-> 0]
    /\ graceOver = {}

Revocable(k) == keyState[k] \in {"live", "expired"}
\* A plausible bug: an expired key, which may be extended, is not asked about.
HeldByALiveKey(r) == \E k \in Keys : keyState[k] = "live" /\ keyRole[k] = r
HeldByAKey(r) == \E k \in Keys : Revocable(k) /\ keyRole[k] = r

\* apikeys.Store.Create
CreateKey(k, r, gs) ==
    /\ keyState[k] = "none"
    /\ RoleExists(r)
    /\ gs \subseteq GroupsThere
    /\ keyState' = [keyState EXCEPT ![k] = "live"]
    /\ keyRole' = [keyRole EXCEPT ![k] = r]
    /\ secret' = [secret EXCEPT ![k] = 1]
    /\ members' = members \cup (gs \X {k})
    /\ UNCHANGED <<previous, graceOver, people, signs, custom, groupRole>>

\* apikeys.Store.Update: refused on a revoked key.  It may move the expiry,
\* which is how an expired key comes back; the memberships, when given, are
\* the key's memberships afterwards.
UpdateKey(k, r, expiry, gs) ==
    /\ Revocable(k)
    /\ RoleExists(r) \/ r = keyRole[k]
    /\ gs \subseteq GroupsThere
    /\ keyRole' = [keyRole EXCEPT ![k] = r]
    /\ keyState' = IF expiry THEN [keyState EXCEPT ![k] = "live"] ELSE keyState
    /\ members' = {m \in members : m[2] # k} \cup (gs \X {k})
    /\ UNCHANGED <<secret, previous, graceOver, people, signs, custom, groupRole>>

\* A plausible bug: a secret already waiting out its grace keeps the place.
KeepsTheOldest(k, grace) ==
    IF ~grace THEN 0 ELSE IF previous[k] # 0 THEN previous[k] ELSE secret[k]

\* What the replaced secret becomes: with a grace it goes on opening the key,
\* in place of the one an earlier rotation left there; without, nothing does.
Replaced(k, grace) == IF grace THEN secret[k] ELSE 0

\* apikeys.Store.Rotate
RotateKey(k, grace) ==
    /\ Revocable(k)
    /\ secret[k] < MaxSecrets
    /\ secret' = [secret EXCEPT ![k] = @ + 1]
    /\ previous' = [previous EXCEPT ![k] = Replaced(k, grace)]
    /\ graceOver' = graceOver \ {k}
    /\ UNCHANGED <<keyState, keyRole, dirVars>>

\* apikeys.Store.Revoke: the row stays, and the old secret dies with it.
RevokeKey(k) ==
    /\ Revocable(k)
    /\ keyState' = [keyState EXCEPT ![k] = "revoked"]
    /\ previous' = [previous EXCEPT ![k] = 0]
    /\ graceOver' = graceOver \ {k}
    /\ UNCHANGED <<keyRole, secret, dirVars>>

\* The grace of a rotation is over, or the key reaches its expiry.
GraceEnds(k) ==
    /\ previous[k] # 0 /\ k \notin graceOver
    /\ graceOver' = graceOver \cup {k}
    /\ UNCHANGED <<keyState, keyRole, secret, previous, dirVars>>
KeyExpires(k) ==
    /\ keyState[k] = "live"
    /\ keyState' = [keyState EXCEPT ![k] = "expired"]
    /\ UNCHANGED <<keyRole, secret, previous, graceOver, dirVars>>

\* The secrets apikeys.Store.Verify accepts for a key, its expiry aside.
Opens(k) ==
    IF secret[k] = 0 \/ keyState[k] = "revoked" THEN {}
    ELSE {secret[k]} \cup
           (IF previous[k] = 0 \/ k \in graceOver THEN {} ELSE {previous[k]})

KeyNext ==
    \E k \in Keys :
        \/ \E r \in RolesThere, gs \in SUBSET GroupsThere : CreateKey(k, r, gs)
        \/ \E r \in RolesThere \cup {keyRole[k]}, e \in BOOLEAN,
              gs \in SUBSET GroupsThere : UpdateKey(k, r, e, gs)
        \/ \E grace \in BOOLEAN : RotateKey(k, grace)
        \/ RevokeKey(k)
        \/ GraceEnds(k)
        \/ KeyExpires(k)
=============================================================================
