----------------------------- MODULE MCProposals -----------------------------
(***************************************************************************)
(* What a proposal leaves in the store: the idempotency record and the     *)
(* operation it stands for, the verdict of the auto-approval policy, and   *)
(* the rows of the audit chain.  The three share no state: a behaviour     *)
(* moves one of them, so that each is explored in full and none is         *)
(* multiplied by the others.                                               *)
(***************************************************************************)
EXTENDS MCAutoApproval, AuditChain, Idempotency, TLC

VARIABLE moves

CONSTANTS c1, c2, c3, deploy, resize

MCActionOf == [p \in Payloads |-> p]
Symmetry == Permutations(Calls) \cup Permutations(Writers)

storeVars == <<vars, auditVars, proposeVars, moves>>

\* One policy stands still as well as another.
MCInit ==
  /\ Init /\ AuditInit /\ ProposeInit
  /\ moves \in {"policy", "audit", "calls"}
  /\ moves = "policy" \/ (rules = <<>> /\ req = Request("nas", "low", "", TRUE))

MCNext ==
  /\ UNCHANGED moves
  /\ \/ moves = "policy" /\ Next /\ UNCHANGED <<auditVars, proposeVars>>
     \/ moves = "audit" /\ AuditNext /\ UNCHANGED <<vars, proposeVars>>
     \/ moves = "calls" /\ ProposeNext /\ UNCHANGED <<vars, auditVars>>

MCSpec == MCInit /\ [][MCNext]_storeVars
=============================================================================
