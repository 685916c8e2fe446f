-------------------------- MODULE OperationsProofs --------------------------
(* Proofs about the approval engine, for every set of operations, every TTL *)
(* and any number of faults.                                                *)
EXTENDS Operations, TLAPS

(* The initial state is well typed.                                         *)
LEMMA TypeInit == Init => TypeOK
  BY DEF Init, TypeOK, Actor, PC, State, Workers, Outcome

(* Every step of the service, the workers, the reaper and a fault keeps the types. *)
LEMMA TypeStep == TypeOK /\ [Next]_vars => TypeOK'
<1> USE DEF rows, locals, executor, others
<1> SUFFICES ASSUME TypeOK, [Next]_vars PROVE TypeOK'
  OBVIOUS
<1> USE DEF TypeOK
<1>1. ASSUME NEW o \in Ops, Propose(o) PROVE TypeOK'
  BY <1>1, TTLAssumption DEF Propose, State
<1>2. ASSUME NEW o \in Ops, NEW by \in Approvers \cup {Policy}, Approve(o, by) PROVE TypeOK'
  BY <1>2, TTLAssumption DEF Approve, Decide, Decision, Actor
<1>3. ASSUME NEW o \in Ops, Reject(o) PROVE TypeOK'
  BY <1>3 DEF Reject, Decide, Decision, Actor
<1>4. ASSUME NEW o \in Ops, Cancel(o) PROVE TypeOK'
  BY <1>4 DEF Cancel, Decide, Decision, Actor
<1>5. ASSUME NEW d \in decisions, Commit(d) PROVE TypeOK'
  BY <1>5 DEF Commit, Transition, Decision, State, Settled, Terminal, Refused
<1>6. CASE Scan
  BY <1>6 DEF Scan, Claimable
<1>7. ASSUME NEW w \in Workers, NEW o \in Ops, Load(w, o) PROVE TypeOK'
  BY <1>7 DEF Load, Goto, PC, Actor
<1>8. ASSUME NEW w \in Workers, NEW sound \in BOOLEAN, NEW risk \in {"same", "raised"},
             Plan(w, sound, risk)
      PROVE TypeOK'
  BY <1>8 DEF Plan, PlanIf, Goto, PC
<1>9. ASSUME NEW w \in Workers, Refuse(w) PROVE TypeOK'
  BY <1>9 DEF Refuse, Transition, Leave, Goto, PC, State, Settled, Terminal, Actor, Outcome
<1>10. ASSUME NEW w \in Workers, Claim(w) PROVE TypeOK'
  <2>1. CASE state[job[w]] = "approved" /\ approvalExpiresAt[job[w]] > readAt[w]
    <3>1. job[w] \in Ops
      BY <1>10 DEF Claim, ClaimIf
    <3>2. readAt[w] + LeaseTTL \in Nat /\ attempts[job[w]] + 1 \in Nat
      BY <3>1, TTLAssumption
    <3> QED
      BY <1>10, <2>1, <3>1, <3>2 DEF Claim, ClaimIf, Goto, PC, State, Claimed
  <2>2. CASE ~(state[job[w]] = "approved" /\ approvalExpiresAt[job[w]] > readAt[w])
    BY <1>10, <2>2 DEF Claim, ClaimIf, Leave, Goto, PC, Actor, Outcome
  <2> QED
    BY <2>1, <2>2
<1>11. ASSUME NEW w \in Workers, NEW result \in ApplyOutcome, Apply(w, result) PROVE TypeOK'
  BY <1>11 DEF Apply, ApplyOutcome, Goto, PC, Outcome, Claimed
<1>12. ASSUME NEW w \in Workers, NEW agrees \in BOOLEAN, Verify(w, agrees) PROVE TypeOK'
  BY <1>12 DEF Verify, Goto, PC, Outcome, Claimed
<1>13. ASSUME NEW w \in Workers, Settle(w) PROVE TypeOK'
  BY <1>13 DEF Settle, SettleRow, Leave, Goto, PC, State, Settled, Terminal, Actor, Outcome
<1>14. ASSUME NEW w \in Workers, Return(w) PROVE TypeOK'
  BY <1>14 DEF Return, Goto, PC
<1>15. CASE Sweep
  BY <1>15 DEF Sweep, Due
<1>16. ASSUME NEW r \in reaping, Reap(r) PROVE TypeOK'
  BY <1>16 DEF Reap, SettleRow, Transition, State, Settled, Terminal, Refused
<1>17. CASE Tick
  BY <1>17 DEF Tick
<1>18. ASSUME NEW w \in Workers, StoreError(w) PROVE TypeOK'
  BY <1>18 DEF StoreError, Fault, Leave, Goto, PC, Actor, Outcome
<1>19. ASSUME NEW r \in reaping, ReapError(r) PROVE TypeOK'
  BY <1>19 DEF ReapError, Fault
<1>20. CASE Crash
  BY <1>20 DEF Crash, Fault, PC, Actor, Outcome
<1>21. CASE UNCHANGED vars
  BY <1>21 DEF vars
<1> QED
  BY <1>1, <1>2, <1>3, <1>4, <1>5, <1>6, <1>7, <1>8, <1>9, <1>10, <1>11, <1>12, <1>13, <1>14,
     <1>15, <1>16, <1>17, <1>18, <1>19, <1>20, <1>21
     DEF Next, ServiceNext, WorkerNext, ReaperNext, FaultNext

(* Every variable keeps its type, in every behaviour of the engine.         *)
THEOREM TypeCorrect == Spec => []TypeOK
  BY TypeInit, TypeStep, PTL DEF Spec

-----------------------------------------------------------------------------
(* The inductive invariant.                                                 *)

Decided(o) == state[o] \notin {"absent", "pending_approval"}
InHand(w, o) == pc[w] # "idle" /\ job[w] = o

(* One claim per operation, and only of one that was approved in time.      *)
ClaimInv ==
  \A o \in Ops :
    /\ attempts[o] \in {0, 1}
    /\ state[o] \in {"absent", "pending_approval", "approved"} \cup Refused => attempts[o] = 0
    /\ state[o] \in {"executing", "succeeded", "indeterminate"} => attempts[o] = 1
    /\ attempts[o] = 1 => claimedAt[o] < approvalExpiresAt[o]
    /\ state[o] = "executing" <=> leaseExpiresAt[o] # 0

(* Approvals are on record exactly once they have been decided.             *)
ApprovalInv ==
  /\ \A o \in Ops : /\ approvedBy[o] # Nil => Decided(o)
                    /\ state[o] = "approved" \/ attempts[o] = 1 => approvedBy[o] # Nil
                    /\ o \in outbox \cup resuming => Decided(o)
  /\ \A d \in decisions : d.to = "approved" => d.from = "pending_approval" /\ d.by # Nil

(* A worker past its claim holds the only claim of its operation.           *)
HolderInv ==
  /\ \A w \in Workers : pc[w] # "idle" => Decided(job[w])
  /\ \A w \in Workers : pc[w] \in Claimed =>
       attempts[job[w]] = 1 /\ state[job[w]] \notin {"succeeded", "failed"}
  /\ \A v, w \in Workers : pc[v] \in Claimed /\ pc[w] \in Claimed /\ job[v] = job[w] => v = w
  /\ \A r \in reaping : r.from = "executing" => attempts[r.op] = 1

(* What a worker remembers agrees with what was written upstream.           *)
WriteInv ==
  /\ \A o \in Ops : /\ writes[o] \in {0, 1}
                    /\ attempts[o] = 0 => writes[o] = 0
                    /\ state[o] = "failed" => writes[o] = 0
                    /\ state[o] = "succeeded" => writes[o] = 1
                    /\ state[o] = "succeeded"
                         => verified[o] = IF o \in Verifiable THEN "true" ELSE "null"
  /\ \A w \in Workers :
       /\ pc[w] = "claimed" => writes[job[w]] = 0
       /\ pc[w] = "verifying" => writes[job[w]] = 1
       /\ pc[w] = "settling" /\ outcome[w] = "succeeded" => writes[job[w]] = 1
       /\ pc[w] = "settling" /\ outcome[w] = "failed" => writes[job[w]] = 0

(* A worker's copy of the approval is the one on record.                    *)
AuthorityInv ==
  \A w \in Workers :
    /\ pc[w] \in {"loaded", "refusing", "claiming"} \cup Claimed
         => authority[w] = approvedBy[job[w]] /\ approvedBy[job[w]] # Nil
    /\ pc[w] \in {"claiming"} \cup Claimed /\ replan[w] = "raised" => authority[w] # Policy

(* No event is marked published while its approval can still be executed.   *)
HintInv ==
  /\ HintIsNotLost
  /\ \A w \in Workers : readAt[w] <= now
  /\ \A w \in Workers : pc[w] = "returned" =>
       state[job[w]] # "approved" \/ approvalExpiresAt[job[w]] <= now

IInv == TypeOK /\ ClaimInv /\ ApprovalInv /\ HolderInv /\ WriteInv /\ AuthorityInv /\ HintInv

USE DEF rows, locals, executor, others

(* With no rows and idle workers the invariant holds.                       *)
LEMMA InvInit == Init => IInv
  BY TypeInit, ActorAssumption
     DEF Init, IInv, ClaimInv, ApprovalInv, HolderInv, WriteInv, AuthorityInv, HintInv,
         HintIsNotLost, Decided, Workers, Claimed, Refused

(* A proposal starts with no claim, no approval and no write.               *)
LEMMA ProposeStep ==
  ASSUME IInv, TypeOK', NEW o \in Ops, Propose(o)
  PROVE IInv'
<1> USE TTLAssumption, ActorAssumption DEF IInv, TypeOK, Decided, Claimed
<1>1. ClaimInv'
  BY DEF Propose, ClaimInv, HolderInv
<1>2. ApprovalInv'
  BY DEF Propose, ApprovalInv, ClaimInv, HolderInv
<1>3. HolderInv'
  BY DEF Propose, HolderInv, ApprovalInv, ClaimInv
<1>4. WriteInv'
  BY DEF Propose, WriteInv, HolderInv, ClaimInv
<1>5. AuthorityInv'
  BY DEF Propose, AuthorityInv, ClaimInv, HolderInv, ApprovalInv
<1>6. HintInv'
  BY DEF Propose, HintInv, HintIsNotLost, HolderInv
<1> QED
  BY <1>1, <1>2, <1>3, <1>4, <1>5, <1>6

(* A validated decision touches no row before its transaction.              *)
LEMMA DecideStep ==
  ASSUME IInv, TypeOK', NEW o \in Ops, \/ \E by \in Approvers \cup {Policy} : Approve(o, by)
                             \/ Reject(o)
                             \/ Cancel(o)
  PROVE IInv'
<1> USE TTLAssumption, ActorAssumption DEF IInv, TypeOK, Decided, Claimed
<1>1. ClaimInv'
  BY DEF Approve, Reject, Cancel, Decide, ClaimInv, HolderInv
<1>2. ApprovalInv'
  BY DEF Approve, Reject, Cancel, Decide, ApprovalInv, ClaimInv, HolderInv
<1>3. HolderInv'
  BY DEF Approve, Reject, Cancel, Decide, HolderInv, ApprovalInv, ClaimInv
<1>4. WriteInv'
  BY DEF Approve, Reject, Cancel, Decide, WriteInv, HolderInv, ClaimInv
<1>5. AuthorityInv'
  BY DEF Approve, Reject, Cancel, Decide, AuthorityInv, ClaimInv, HolderInv, ApprovalInv
<1>6. HintInv'
  BY DEF Approve, Reject, Cancel, Decide, HintInv, HintIsNotLost, HolderInv
<1> QED
  BY <1>1, <1>2, <1>3, <1>4, <1>5, <1>6

(* The guarded update records an approval together with its event.          *)
LEMMA CommitStep ==
  ASSUME IInv, TypeOK', NEW d \in decisions, Commit(d)
  PROVE IInv'
<1> USE TTLAssumption, ActorAssumption DEF IInv, TypeOK, Decided, Claimed
<1>1. ClaimInv'
  BY DEF Commit, Transition, Decision, Refused, ClaimInv, HolderInv
<1>2. ApprovalInv'
  BY DEF Commit, Transition, Decision, Refused, ApprovalInv, ClaimInv, HolderInv
<1>3. HolderInv'
  BY DEF Commit, Transition, Decision, Refused, HolderInv, ApprovalInv, ClaimInv
<1>4. WriteInv'
  BY DEF Commit, Transition, Decision, Refused, WriteInv, HolderInv, ClaimInv
<1>5. AuthorityInv'
  BY DEF Commit, Transition, Decision, Refused, AuthorityInv, ClaimInv, HolderInv, ApprovalInv
<1>6. HintInv'
  BY DEF Commit, Transition, Decision, Refused, HintInv, HintIsNotLost, HolderInv
<1> QED
  BY <1>1, <1>2, <1>3, <1>4, <1>5, <1>6

(* The scan lists approved operations only.                                 *)
LEMMA ScanStep ==
  ASSUME IInv, TypeOK', Scan
  PROVE IInv'
<1> USE TTLAssumption, ActorAssumption DEF IInv, TypeOK, Decided, Claimed
<1>1. ClaimInv'
  BY DEF Scan, Claimable, ClaimInv, HolderInv
<1>2. ApprovalInv'
  BY DEF Scan, Claimable, ApprovalInv, ClaimInv, HolderInv
<1>3. HolderInv'
  BY DEF Scan, Claimable, HolderInv, ApprovalInv, ClaimInv
<1>4. WriteInv'
  BY DEF Scan, Claimable, WriteInv, HolderInv, ClaimInv
<1>5. AuthorityInv'
  BY DEF Scan, Claimable, AuthorityInv, ClaimInv, HolderInv, ApprovalInv
<1>6. HintInv'
  BY DEF Scan, Claimable, HintInv, HintIsNotLost, HolderInv
<1> QED
  BY <1>1, <1>2, <1>3, <1>4, <1>5, <1>6

(* The worker copies the approval on record.                                *)
LEMMA LoadStep ==
  ASSUME IInv, TypeOK', NEW w \in Workers, NEW o \in Ops, Load(w, o)
  PROVE IInv'
<1> USE TTLAssumption, ActorAssumption DEF IInv, TypeOK, Decided, Claimed
<1>1. ClaimInv'
  BY DEF Load, Goto, Offered, ClaimInv, HolderInv
<1>2. ApprovalInv'
  BY DEF Load, Goto, Offered, ApprovalInv, ClaimInv, HolderInv
<1>3. HolderInv'
  BY DEF Load, Goto, Offered, HolderInv, ApprovalInv, ClaimInv
<1>4. WriteInv'
  BY DEF Load, Goto, Offered, WriteInv, HolderInv, ClaimInv
<1>5. AuthorityInv'
  BY DEF Load, Goto, Offered, AuthorityInv, ClaimInv, HolderInv, ApprovalInv
<1>6. HintInv'
  BY DEF Load, Goto, Offered, HintInv, HintIsNotLost, HolderInv
<1> QED
  BY <1>1, <1>2, <1>3, <1>4, <1>5, <1>6

(* A raised risk passes the re-plan only if a person approved it.           *)
LEMMA PlanStep ==
  ASSUME IInv, TypeOK', NEW w \in Workers, NEW sound \in BOOLEAN, NEW risk \in {"same", "raised"},
         Plan(w, sound, risk)
  PROVE IInv'
<1> USE TTLAssumption, ActorAssumption DEF IInv, TypeOK, Decided, Claimed
<1>1. ClaimInv'
  BY DEF Plan, PlanIf, Goto, ClaimInv, HolderInv
<1>2. ApprovalInv'
  BY DEF Plan, PlanIf, Goto, ApprovalInv, ClaimInv, HolderInv
<1>3. HolderInv'
  BY DEF Plan, PlanIf, Goto, HolderInv, ApprovalInv, ClaimInv
<1>4. WriteInv'
  BY DEF Plan, PlanIf, Goto, WriteInv, HolderInv, ClaimInv
<1>5. AuthorityInv'
  BY DEF Plan, PlanIf, Goto, AuthorityInv, ClaimInv, HolderInv, ApprovalInv
<1>6. HintInv'
  BY DEF Plan, PlanIf, Goto, HintInv, HintIsNotLost, HolderInv
<1> QED
  BY <1>1, <1>2, <1>3, <1>4, <1>5, <1>6

(* A refusal at execution fails what was never claimed.                     *)
LEMMA RefuseStep ==
  ASSUME IInv, TypeOK', NEW w \in Workers, Refuse(w)
  PROVE IInv'
<1> USE TTLAssumption, ActorAssumption DEF IInv, TypeOK, Decided, Claimed
<1>1. ClaimInv'
  BY DEF Refuse, Transition, Leave, Goto, ClaimInv, HolderInv
<1>2. ApprovalInv'
  BY DEF Refuse, Transition, Leave, Goto, ApprovalInv, ClaimInv, HolderInv
<1>3. HolderInv'
  BY DEF Refuse, Transition, Leave, Goto, HolderInv, ApprovalInv, ClaimInv
<1>4. WriteInv'
  BY DEF Refuse, Transition, Leave, Goto, WriteInv, HolderInv, ClaimInv
<1>5. AuthorityInv'
  BY DEF Refuse, Transition, Leave, Goto, AuthorityInv, ClaimInv, HolderInv, ApprovalInv
<1>6. HintInv'
  BY DEF Refuse, Transition, Leave, Goto, HintInv, HintIsNotLost, HolderInv
<1> QED
  BY <1>1, <1>2, <1>3, <1>4, <1>5, <1>6

(* Only an approved row is claimed, so no other worker holds its claim.     *)
LEMMA ClaimStep ==
  ASSUME IInv, TypeOK', NEW w \in Workers, Claim(w)
  PROVE IInv'
<1> USE TTLAssumption, ActorAssumption DEF IInv, TypeOK, Decided, Claimed
<1>1. ClaimInv'
  BY DEF Claim, ClaimIf, Leave, Goto, ClaimInv, HolderInv, Refused
<1>2. ApprovalInv'
  BY DEF Claim, ClaimIf, Leave, Goto, ApprovalInv, ClaimInv, HolderInv
<1>3. HolderInv'
  BY SMTT(20) DEF Claim, ClaimIf, Leave, Goto, HolderInv, ApprovalInv, ClaimInv
<1>4. WriteInv'
  BY DEF Claim, ClaimIf, Leave, Goto, WriteInv, HolderInv, ClaimInv
<1>5. AuthorityInv'
  BY DEF Claim, ClaimIf, Leave, Goto, AuthorityInv, ClaimInv, HolderInv, ApprovalInv
<1>6. HintInv'
  BY SMTT(20) DEF Claim, ClaimIf, Leave, Goto, HintInv, HintIsNotLost, HolderInv
<1> QED
  BY <1>1, <1>2, <1>3, <1>4, <1>5, <1>6

(* The holder of the only claim writes at most once.                        *)
LEMMA ApplyStep ==
  ASSUME IInv, TypeOK', NEW w \in Workers, NEW result \in ApplyOutcome, Apply(w, result)
  PROVE IInv'
<1> USE TTLAssumption, ActorAssumption DEF IInv, TypeOK, Decided, Claimed
<1>1. ClaimInv'
  BY DEF Apply, ApplyOutcome, Goto, ClaimInv, HolderInv
<1>2. ApprovalInv'
  BY DEF Apply, ApplyOutcome, Goto, ApprovalInv, ClaimInv, HolderInv
<1>3. HolderInv'
  BY DEF Apply, ApplyOutcome, Goto, HolderInv, ApprovalInv, ClaimInv
<1>4. WriteInv'
  BY DEF Apply, ApplyOutcome, Goto, WriteInv, HolderInv, ClaimInv
<1>5. AuthorityInv'
  BY DEF Apply, ApplyOutcome, Goto, AuthorityInv, ClaimInv, HolderInv, ApprovalInv
<1>6. HintInv'
  BY DEF Apply, ApplyOutcome, Goto, HintInv, HintIsNotLost, HolderInv
<1> QED
  BY <1>1, <1>2, <1>3, <1>4, <1>5, <1>6

(* A confirmed outcome was written.                                         *)
LEMMA VerifyStep ==
  ASSUME IInv, TypeOK', NEW w \in Workers, NEW agrees \in BOOLEAN, Verify(w, agrees)
  PROVE IInv'
<1> USE TTLAssumption, ActorAssumption DEF IInv, TypeOK, Decided, Claimed
<1>1. ClaimInv'
  BY DEF Verify, Goto, ClaimInv, HolderInv
<1>2. ApprovalInv'
  BY DEF Verify, Goto, ApprovalInv, ClaimInv, HolderInv
<1>3. HolderInv'
  BY DEF Verify, Goto, HolderInv, ApprovalInv, ClaimInv
<1>4. WriteInv'
  BY DEF Verify, Goto, WriteInv, HolderInv, ClaimInv
<1>5. AuthorityInv'
  BY DEF Verify, Goto, AuthorityInv, ClaimInv, HolderInv, ApprovalInv
<1>6. HintInv'
  BY DEF Verify, Goto, HintInv, HintIsNotLost, HolderInv
<1> QED
  BY <1>1, <1>2, <1>3, <1>4, <1>5, <1>6

(* The holder records an outcome that agrees with its write.                *)
LEMMA SettleStep ==
  ASSUME IInv, TypeOK', NEW w \in Workers, Settle(w)
  PROVE IInv'
<1> USE TTLAssumption, ActorAssumption DEF IInv, TypeOK, Decided, Claimed
<1>1. ClaimInv'
  BY DEF Settle, SettleRow, Leave, Goto, ClaimInv, HolderInv, Refused
<1>2. ApprovalInv'
  BY DEF Settle, SettleRow, Leave, Goto, ApprovalInv, ClaimInv, HolderInv
<1>3. HolderInv'
  BY DEF Settle, SettleRow, Leave, Goto, HolderInv, ApprovalInv, ClaimInv
<1>4. WriteInv'
  BY DEF Settle, SettleRow, Leave, Goto, WriteInv, HolderInv, ClaimInv
<1>5. AuthorityInv'
  BY DEF Settle, SettleRow, Leave, Goto, AuthorityInv, ClaimInv, HolderInv, ApprovalInv
<1>6. HintInv'
  BY DEF Settle, SettleRow, Leave, Goto, HintInv, HintIsNotLost, HolderInv
<1> QED
  BY <1>1, <1>2, <1>3, <1>4, <1>5, <1>6

(* An event is marked only when its operation cannot be executed.           *)
LEMMA ReturnStep ==
  ASSUME IInv, TypeOK', NEW w \in Workers, Return(w)
  PROVE IInv'
<1> USE TTLAssumption, ActorAssumption DEF IInv, TypeOK, Decided, Claimed
<1>1. ClaimInv'
  BY DEF Return, Goto, ClaimInv, HolderInv
<1>2. ApprovalInv'
  BY DEF Return, Goto, ApprovalInv, ClaimInv, HolderInv
<1>3. HolderInv'
  BY DEF Return, Goto, HolderInv, ApprovalInv, ClaimInv
<1>4. WriteInv'
  BY DEF Return, Goto, WriteInv, HolderInv, ClaimInv
<1>5. AuthorityInv'
  BY DEF Return, Goto, AuthorityInv, ClaimInv, HolderInv, ApprovalInv
<1>6. HintInv'
  BY DEF Return, Goto, HintInv, HintIsNotLost, HolderInv
<1> QED
  BY <1>1, <1>2, <1>3, <1>4, <1>5, <1>6

(* A lapsed lease is listed only for an operation that was claimed.         *)
LEMMA SweepStep ==
  ASSUME IInv, TypeOK', Sweep
  PROVE IInv'
<1> USE TTLAssumption, ActorAssumption DEF IInv, TypeOK, Decided, Claimed
<1>1. ClaimInv'
  BY DEF Sweep, Due, ClaimInv, HolderInv
<1>2. ApprovalInv'
  BY DEF Sweep, Due, ApprovalInv, ClaimInv, HolderInv
<1>3. HolderInv'
  BY DEF Sweep, Due, HolderInv, ApprovalInv, ClaimInv
<1>4. WriteInv'
  BY DEF Sweep, Due, WriteInv, HolderInv, ClaimInv
<1>5. AuthorityInv'
  BY DEF Sweep, Due, AuthorityInv, ClaimInv, HolderInv, ApprovalInv
<1>6. HintInv'
  BY DEF Sweep, Due, HintInv, HintIsNotLost, HolderInv
<1> QED
  BY <1>1, <1>2, <1>3, <1>4, <1>5, <1>6

(* A stale list entry at worst makes an outcome indeterminate.              *)
LEMMA ReapStep ==
  ASSUME IInv, TypeOK', NEW r \in reaping, Reap(r)
  PROVE IInv'
<1> USE TTLAssumption, ActorAssumption DEF IInv, TypeOK, Decided, Claimed
<1>1. ClaimInv'
  BY DEF Reap, SettleRow, Transition, ClaimInv, HolderInv, Refused
<1>2. ApprovalInv'
  BY DEF Reap, SettleRow, Transition, ApprovalInv, ClaimInv, HolderInv
<1>3. HolderInv'
  BY DEF Reap, SettleRow, Transition, HolderInv, ApprovalInv, ClaimInv
<1>4. WriteInv'
  BY DEF Reap, SettleRow, Transition, WriteInv, HolderInv, ClaimInv
<1>5. AuthorityInv'
  BY DEF Reap, SettleRow, Transition, AuthorityInv, ClaimInv, HolderInv, ApprovalInv
<1>6. HintInv'
  BY DEF Reap, SettleRow, Transition, HintInv, HintIsNotLost, HolderInv
<1> QED
  BY <1>1, <1>2, <1>3, <1>4, <1>5, <1>6

(* Time passing only makes approvals and leases lapse.                      *)
LEMMA TickStep ==
  ASSUME IInv, TypeOK', Tick
  PROVE IInv'
<1> USE TTLAssumption, ActorAssumption DEF IInv, TypeOK, Decided, Claimed
<1>1. ClaimInv'
  BY DEF Tick, ClaimInv, HolderInv
<1>2. ApprovalInv'
  BY DEF Tick, ApprovalInv, ClaimInv, HolderInv
<1>3. HolderInv'
  BY DEF Tick, HolderInv, ApprovalInv, ClaimInv
<1>4. WriteInv'
  BY DEF Tick, WriteInv, HolderInv, ClaimInv
<1>5. AuthorityInv'
  BY DEF Tick, AuthorityInv, ClaimInv, HolderInv, ApprovalInv
<1>6. HintInv'
  BY DEF Tick, HintInv, HintIsNotLost, HolderInv
<1> QED
  BY <1>1, <1>2, <1>3, <1>4, <1>5, <1>6

(* A failed call ends Execute and leaves the row and the event.             *)
LEMMA StoreErrorStep ==
  ASSUME IInv, TypeOK', NEW w \in Workers, StoreError(w)
  PROVE IInv'
<1> USE TTLAssumption, ActorAssumption DEF IInv, TypeOK, Decided, Claimed
<1>1. ClaimInv'
  BY DEF StoreError, Fault, Leave, Goto, ClaimInv, HolderInv
<1>2. ApprovalInv'
  BY DEF StoreError, Fault, Leave, Goto, ApprovalInv, ClaimInv, HolderInv
<1>3. HolderInv'
  BY DEF StoreError, Fault, Leave, Goto, HolderInv, ApprovalInv, ClaimInv
<1>4. WriteInv'
  BY DEF StoreError, Fault, Leave, Goto, WriteInv, HolderInv, ClaimInv
<1>5. AuthorityInv'
  BY DEF StoreError, Fault, Leave, Goto, AuthorityInv, ClaimInv, HolderInv, ApprovalInv
<1>6. HintInv'
  BY DEF StoreError, Fault, Leave, Goto, HintInv, HintIsNotLost, HolderInv
<1> QED
  BY <1>1, <1>2, <1>3, <1>4, <1>5, <1>6

(* A failed reap leaves the row.                                            *)
LEMMA ReapErrorStep ==
  ASSUME IInv, TypeOK', NEW r \in reaping, ReapError(r)
  PROVE IInv'
<1> USE TTLAssumption, ActorAssumption DEF IInv, TypeOK, Decided, Claimed
<1>1. ClaimInv'
  BY DEF ReapError, Fault, ClaimInv, HolderInv
<1>2. ApprovalInv'
  BY DEF ReapError, Fault, ApprovalInv, ClaimInv, HolderInv
<1>3. HolderInv'
  BY DEF ReapError, Fault, HolderInv, ApprovalInv, ClaimInv
<1>4. WriteInv'
  BY DEF ReapError, Fault, WriteInv, HolderInv, ClaimInv
<1>5. AuthorityInv'
  BY DEF ReapError, Fault, AuthorityInv, ClaimInv, HolderInv, ApprovalInv
<1>6. HintInv'
  BY DEF ReapError, Fault, HintInv, HintIsNotLost, HolderInv
<1> QED
  BY <1>1, <1>2, <1>3, <1>4, <1>5, <1>6

(* The table and the outbox survive a crash; no worker holds anything.      *)
LEMMA CrashStep ==
  ASSUME IInv, TypeOK', Crash
  PROVE IInv'
<1> USE TTLAssumption, ActorAssumption DEF IInv, TypeOK, Decided, Claimed
<1>1. ClaimInv'
  BY DEF Crash, Fault, ClaimInv, HolderInv
<1>2. ApprovalInv'
  BY DEF Crash, Fault, ApprovalInv, ClaimInv, HolderInv
<1>3. HolderInv'
  BY DEF Crash, Fault, HolderInv, ApprovalInv, ClaimInv
<1>4. WriteInv'
  BY DEF Crash, Fault, WriteInv, HolderInv, ClaimInv
<1>5. AuthorityInv'
  BY DEF Crash, Fault, AuthorityInv, ClaimInv, HolderInv, ApprovalInv
<1>6. HintInv'
  BY DEF Crash, Fault, HintInv, HintIsNotLost, HolderInv
<1> QED
  BY <1>1, <1>2, <1>3, <1>4, <1>5, <1>6

(* A stuttering step changes nothing.                                       *)
LEMMA StutterStep ==
  ASSUME IInv, TypeOK', UNCHANGED vars
  PROVE IInv'
<1> USE TTLAssumption, ActorAssumption DEF IInv, TypeOK, Decided, Claimed
<1>1. ClaimInv'
  BY DEF vars, ClaimInv, HolderInv
<1>2. ApprovalInv'
  BY DEF vars, ApprovalInv, ClaimInv, HolderInv
<1>3. HolderInv'
  BY DEF vars, HolderInv, ApprovalInv, ClaimInv
<1>4. WriteInv'
  BY DEF vars, WriteInv, HolderInv, ClaimInv
<1>5. AuthorityInv'
  BY DEF vars, AuthorityInv, ClaimInv, HolderInv, ApprovalInv
<1>6. HintInv'
  BY DEF vars, HintInv, HintIsNotLost, HolderInv
<1> QED
  BY <1>1, <1>2, <1>3, <1>4, <1>5, <1>6

(* The invariant is inductive: every action preserves it.                   *)
LEMMA InvStep == IInv /\ [Next]_vars => IInv'
<1> SUFFICES ASSUME IInv, [Next]_vars PROVE IInv'
  OBVIOUS
<1>1. TypeOK'
  BY TypeStep DEF IInv
<1> QED
  BY <1>1, ProposeStep, DecideStep, CommitStep, ScanStep, LoadStep, PlanStep, RefuseStep, ClaimStep, ApplyStep,
     VerifyStep, SettleStep, ReturnStep, SweepStep, ReapStep, TickStep, StoreErrorStep, ReapErrorStep,
     CrashStep, StutterStep
     DEF Next, ServiceNext, WorkerNext, ReaperNext, FaultNext

(* The inductive invariant holds in every reachable state.                  *)
THEOREM Inductive == Spec => []IInv
  BY InvInit, InvStep, PTL DEF Spec

(* No operation is ever written upstream twice, for any number of           *)
(* operations, redeliveries, crashes and lapsed leases.                     *)
THEOREM WritesAtMostOnce == Spec => []AtMostOnce
<1>1. IInv => AtMostOnce
  BY DEF IInv, WriteInv, AtMostOnce
<1> QED
  BY <1>1, Inductive, PTL

(* What stateNote tells a caller is true of the target in every state.      *)
THEOREM StatesAreTruthful == Spec => []OutcomeIsTruthful
<1>1. IInv => OutcomeIsTruthful
  BY DEF IInv, TypeOK, WriteInv, ClaimInv, OutcomeIsTruthful
<1> QED
  BY <1>1, Inductive, PTL

(* Every upstream write happened under one recorded approval that was in    *)
(* force when the operation was claimed.                                    *)
THEOREM WritesAreApproved == Spec => []WrittenUnderApproval
<1>1. IInv => WrittenUnderApproval
  BY DEF IInv, TypeOK, WriteInv, ClaimInv, ApprovalInv, WrittenUnderApproval
<1> QED
  BY <1>1, Inductive, PTL

(* A claim on a change of raised risk is always a person's approval.        *)
THEOREM RaisedRiskIsApproved == Spec => []RaisedRiskNeedsAPerson
<1>1. IInv => RaisedRiskNeedsAPerson
  BY DEF IInv, TypeOK, AuthorityInv, Actor, Claimed, RaisedRiskNeedsAPerson
<1> QED
  BY <1>1, Inductive, PTL

(* An executable approval always has an unpublished event.                  *)
THEOREM HintsAreNotLost == Spec => []HintIsNotLost
<1>1. IInv => HintIsNotLost
  BY DEF IInv, HintInv
<1> QED
  BY <1>1, Inductive, PTL

(* Executing operations are exactly the ones that carry a lease.            *)
THEOREM LeasesMatchExecution == Spec => []LeaseWhileExecuting
<1>1. IInv => LeaseWhileExecuting
  BY DEF IInv, ClaimInv, LeaseWhileExecuting
<1> QED
  BY <1>1, Inductive, PTL

(* Every write is the only one of its operation, happened under an approval *)
(* in time, and one whose risk was raised was approved by a person.         *)
THEOREM EveryWriteIsAuthorised == Spec => []WritesAreAuthorised
<1>1. AtMostOnce /\ WrittenUnderApproval /\ RaisedRiskNeedsAPerson => WritesAreAuthorised
  BY DEF WritesAreAuthorised
<1> QED
  BY <1>1, WritesAtMostOnce, WritesAreApproved, RaisedRiskIsApproved, PTL

(* Whatever may still happen to an operation has an event or a lease that   *)
(* will make it happen.                                                     *)
THEOREM SomethingIsAlwaysLeft == Spec => []NothingIsForgotten
<1>1. HintIsNotLost /\ LeaseWhileExecuting => NothingIsForgotten
  BY DEF NothingIsForgotten
<1> QED
  BY <1>1, HintsAreNotLost, LeasesMatchExecution, PTL

(* The actions that touch neither a row nor the target.                     *)
Bookkeeping ==
  \/ \E o \in Ops : \/ \E by \in Approvers \cup {Policy} : Approve(o, by)
                    \/ Reject(o)
                    \/ Cancel(o)
  \/ Scan
  \/ \E w \in Workers : \/ \E o \in Ops : Load(w, o)
                        \/ \E sound \in BOOLEAN, risk \in {"same", "raised"} : Plan(w, sound, risk)
                        \/ \E agrees \in BOOLEAN : Verify(w, agrees)
                        \/ Return(w)
                        \/ StoreError(w)
  \/ Sweep
  \/ Tick
  \/ \E r \in reaping : ReapError(r)
  \/ Crash
  \/ UNCHANGED vars

(* They leave the table and the target as they are.                         *)
LEMMA BookkeepingKeepsRows == Bookkeeping => UNCHANGED <<rows, writes>>
  BY DEF Bookkeeping, Approve, Reject, Cancel, Decide, Scan, Load, Plan, PlanIf, Verify, Return,
         StoreError, Sweep, Tick, ReapError, Crash, vars

(* A step either keeps books or is one of the six that act on an operation. *)
LEMMA StepKinds ==
  [Next]_vars => \/ Bookkeeping
                 \/ \E o \in Ops : Propose(o)
                 \/ \E d \in decisions : Commit(d)
                 \/ \E w \in Workers : Refuse(w) \/ Claim(w) \/ Settle(w)
                 \/ \E w \in Workers, result \in ApplyOutcome : Apply(w, result)
                 \/ \E r \in reaping : Reap(r)
  BY DEF Next, ServiceNext, WorkerNext, ReaperNext, FaultNext, Bookkeeping

(* A refusal is never undone and a recorded approval never replaced.        *)
THEOREM DecisionsAreFinal == Spec => DecisionIsFinal
<1> DEFINE Kept == \A o \in Ops :
             /\ state[o] \in Refused => state'[o] = state[o]
             /\ approvedBy[o] # Nil => /\ approvedBy'[o] = approvedBy[o]
                                       /\ approvalExpiresAt'[o] = approvalExpiresAt[o]
<1>1. IInv /\ [Next]_vars => Kept
  <2> SUFFICES ASSUME IInv, [Next]_vars PROVE Kept
    OBVIOUS
  <2> USE DEF IInv, TypeOK, Refused
  <2>1. CASE Bookkeeping
    BY <2>1, BookkeepingKeepsRows
  <2>2. ASSUME NEW o \in Ops, Propose(o) PROVE Kept
    BY <2>2 DEF Propose
  <2>3. ASSUME NEW d \in decisions, Commit(d) PROVE Kept
    BY <2>3 DEF Commit, Transition, ApprovalInv, Decided, Decision
  <2>4. ASSUME NEW w \in Workers, Refuse(w) PROVE Kept
    BY <2>4 DEF Refuse, Transition
  <2>5. ASSUME NEW w \in Workers, Claim(w) PROVE Kept
    BY <2>5 DEF Claim, ClaimIf
  <2>6. ASSUME NEW w \in Workers, Settle(w) PROVE Kept
    BY <2>6 DEF Settle, SettleRow, HolderInv, ClaimInv, Claimed
  <2>7. ASSUME NEW w \in Workers, NEW result \in ApplyOutcome, Apply(w, result) PROVE Kept
    BY <2>7 DEF Apply
  <2>8. ASSUME NEW r \in reaping, Reap(r) PROVE Kept
    BY <2>8 DEF Reap, SettleRow, Transition, HolderInv, ClaimInv
  <2> QED
    BY StepKinds, <2>1, <2>2, <2>3, <2>4, <2>5, <2>6, <2>7, <2>8
<1> QED
  BY <1>1, Inductive, PTL DEF Spec, DecisionIsFinal

(* The engine implements the write gate, for every instance.                *)
THEOREM EngineImplementsGate == Spec => ImplementsGate
<1>1. Init => Gate!Init
  BY DEF Init, Gate!Init, GatePhase
<1>2. IInv /\ [Next]_vars => [Gate!Next]_<<GatePhase, writes>>
  <2> SUFFICES ASSUME IInv, [Next]_vars
               PROVE Gate!Next \/ UNCHANGED <<GatePhase, writes>>
    OBVIOUS
  <2> USE DEF IInv, TypeOK
  <2>1. CASE Bookkeeping
    BY <2>1, BookkeepingKeepsRows DEF GatePhase
  <2>2. ASSUME NEW o \in Ops, Propose(o) PROVE Gate!Propose(o)
    <3>1. attempts[o] = 0 /\ state[o] = "absent"
      BY <2>2 DEF Propose, ClaimInv
    <3>2. GatePhase[o] = "absent"
      BY <3>1 DEF GatePhase
    <3>3. GatePhase' = [GatePhase EXCEPT ![o] = "proposed"]
      <4>1. \A x \in Ops \ {o} : state'[x] = state[x] /\ attempts'[x] = attempts[x]
        BY <2>2 DEF Propose
      <4>2. state'[o] = "pending_approval" /\ attempts'[o] = 0
        BY <2>2, <3>1 DEF Propose
      <4> HIDE DEF TypeOK, IInv
      <4>3. \A x \in Ops : GatePhase'[x] = IF x = o THEN "proposed" ELSE GatePhase[x]
        BY <4>1, <4>2 DEF GatePhase
      <4> QED
        BY <4>3 DEF GatePhase
    <3> QED
      BY <2>2, <3>2, <3>3 DEF Propose, Gate!Propose, Gate!Move
  <2>3. ASSUME NEW d \in decisions, Commit(d)
        PROVE Gate!Approve(d.op) \/ Gate!Refuse(d.op) \/ UNCHANGED <<GatePhase, writes>>
    <3>1. CASE state[d.op] # d.from
      BY <2>3, <3>1 DEF Commit, Transition, GatePhase
    <3>2. CASE state[d.op] = d.from /\ d.to = "approved"
      BY <2>3, <3>2 DEF Commit, Transition, GatePhase, Gate!Approve, Gate!Move, ClaimInv, ApprovalInv, Decision
    <3>3. CASE state[d.op] = d.from /\ d.to # "approved"
      BY <2>3, <3>3 DEF Commit, Transition, GatePhase, Gate!Refuse, Gate!Move, ClaimInv, Decision
    <3> QED
      BY <3>1, <3>2, <3>3
  <2>4. ASSUME NEW w \in Workers, Refuse(w)
        PROVE Gate!Refuse(job[w]) \/ UNCHANGED <<GatePhase, writes>>
    BY <2>4 DEF Refuse, Transition, GatePhase, Gate!Refuse, Gate!Move, ClaimInv
  <2>5. ASSUME NEW w \in Workers, Claim(w)
        PROVE Gate!Start(job[w]) \/ UNCHANGED <<GatePhase, writes>>
    BY <2>5 DEF Claim, ClaimIf, GatePhase, Gate!Start, Gate!Move, ClaimInv
  <2>6. ASSUME NEW w \in Workers, Settle(w) PROVE UNCHANGED <<GatePhase, writes>>
    BY <2>6 DEF Settle, SettleRow, GatePhase, HolderInv, Claimed
  <2>7. ASSUME NEW w \in Workers, NEW result \in ApplyOutcome, Apply(w, result)
        PROVE Gate!Write(job[w]) \/ UNCHANGED <<GatePhase, writes>>
    <3>1. UNCHANGED GatePhase
      BY <2>7 DEF Apply, GatePhase
    <3>2. GatePhase[job[w]] = "started" /\ writes[job[w]] = 0
      BY <2>7 DEF Apply, GatePhase, HolderInv, WriteInv, Claimed
    <3>3. CASE result[2] = 0
      BY <2>7, <3>1, <3>2, <3>3 DEF Apply
    <3>4. CASE result[2] = 1
      BY <2>7, <3>1, <3>2, <3>4 DEF Apply, Gate!Write
    <3> QED
      BY <3>3, <3>4 DEF ApplyOutcome
  <2>8. ASSUME NEW r \in reaping, Reap(r)
        PROVE Gate!Refuse(r.op) \/ UNCHANGED <<GatePhase, writes>>
    BY <2>8, SMTT(20)
      DEF Reap, SettleRow, Transition, GatePhase, Gate!Refuse, Gate!Move, HolderInv, ClaimInv
  <2>9. ASSUME NEW w \in Workers PROVE pc[w] # "idle" => job[w] \in Ops
    OBVIOUS
  <2>10. \A d \in decisions : d.op \in Ops
    BY DEF Decision
  <2> QED
    BY StepKinds, <2>1, <2>2, <2>3, <2>4, <2>5, <2>6, <2>7, <2>8, <2>9, <2>10
       DEF Gate!Next, Refuse, Claim, Settle, Apply, ClaimIf
<1> QED
  BY <1>1, <1>2, Inductive, PTL DEF Spec, ImplementsGate, Gate!Spec
=============================================================================
