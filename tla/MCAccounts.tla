----------------------------- MODULE MCAccounts -----------------------------
(***************************************************************************)
(* Two instances in one: accounts that come and go and sign in, without    *)
(* groups, roles of their own or keys, and all of those with nobody        *)
(* signing in.  What the guard of the last administrator looks at is the   *)
(* same state in both.                                                     *)
(***************************************************************************)
EXTENDS Accounts, TLC

Alike == Permutations(Users) \cup Permutations(Subjects)

\* A hash matters only to the request that read it.
Seen == <<status, disabled, role, invite, lapsed, signs, rights, keyVars, flows,
          [u \in Users |-> IF \E f \in flows : f.user = u /\ f.step = "confirming"
                           THEN <<"read", password[u]>>
                           ELSE <<"unread", HasPassword(u)>>]>>

OnlyAccounts == /\ \A k \in Keys : keyState[k] = "none"
                /\ GroupsThere = {}
                /\ \A r \in Custom : custom[r] = "none"

NobodySignsIn ==
    /\ flows = {} /\ sessions = {} /\ identities = {} /\ offers = {}
    /\ \A u \in Users : invite[u] = NoProvider /\ status[u] # "pending"

OneHalf == OnlyAccounts \/ NobodySignsIn
=============================================================================
