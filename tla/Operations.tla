----------------------------- MODULE Operations -----------------------------
(***************************************************************************)
(* The approval engine: the operations table, the service that decides on  *)
(* proposals, the executor that applies approved ones, the reaper that     *)
(* enforces deadlines, the outbox event that wakes the executor and the    *)
(* scan that resumes work after a restart.                                 *)
(*                                                                         *)
(* Every database transaction is one action.  What a component reads       *)
(* before a transaction and uses in it (a decision's snapshot, the         *)
(* executor's copy of the row and of the clock, the reaper's list) is kept *)
(* between the two, so anything may happen in between, a crash included.   *)
(***************************************************************************)
EXTENDS Integers, FiniteSets

CONSTANTS
  Ops,           \* operation identifiers
  Verifiable,    \* operations whose mutation can be confirmed by a re-read
  Approvers,     \* principals that may decide on approvals
  Policy,        \* PolicyActor: approval by a standing rule or a bypass
  Nil,           \* SQL NULL where a name is expected
  ProposalTTL, ApprovalTTL, LeaseTTL,
  Concurrency,   \* simultaneous executions
  MaxTime,       \* bound: the clock stops here
  MaxDecisions,  \* bound: service calls in flight at once
  MaxFaults      \* bound: crashes and store errors

ASSUME OpsAssumption == Verifiable \subseteq Ops /\ Nil \notin Ops
ASSUME ActorAssumption == /\ Policy \notin Approvers
                          /\ Nil \notin Approvers
                          /\ Policy # Nil
ASSUME TTLAssumption == /\ ProposalTTL \in Nat \ {0}
                        /\ ApprovalTTL \in Nat \ {0}
                        /\ LeaseTTL \in Nat \ {0}
ASSUME BoundAssumption == /\ MaxTime \in Nat
                          /\ MaxDecisions \in Nat
                          /\ MaxFaults \in Nat
                          /\ Concurrency \in Nat \ {0}

VARIABLES
  \* the operations table, column by column; time 0 is NULL
  state, expiresAt, approvedBy, approvalExpiresAt, leaseExpiresAt, attempts, verified,
  claimedAt,  \* execution_attempts.started_at
  outbox,     \* operations with an unpublished "approved" event
  \* service calls between their read and their transaction
  decisions,
  \* the two callers of Executor.Execute: where each is and its local variables
  pc, job, authority, replan, readAt, outcome,
  reaping,    \* the rest of the reaper's current list
  scan,       \* whether scanClaimable has read its list in this process
  resuming,   \* the rest of that list
  now,        \* the clock, which starts at 1
  faults,     \* crashes and store errors so far
  writes      \* upstream writes that landed, by operation

rows == <<state, expiresAt, approvedBy, approvalExpiresAt, leaseExpiresAt, attempts, verified, claimedAt>>
locals == <<authority, replan, readAt, outcome>>
executor == <<pc, job, locals>>
others == <<reaping, scan, resuming, now, faults>>
vars == <<rows, outbox, decisions, executor, others, writes>>

-----------------------------------------------------------------------------
(* States of an operation.  "absent" is an identifier with no row yet.      *)

Refused == {"rejected", "expired", "cancelled"}
Terminal == {"succeeded", "failed"} \cup Refused
Settled == Terminal \cup {"indeterminate"}
State == {"absent", "pending_approval", "approved", "executing"} \cup Settled

(* A decision between the service's read of the row and its transaction.    *)
Actor == Approvers \cup {Policy, Nil}
Decision == [op : Ops, from : {"pending_approval", "approved"},
             to : {"approved", "rejected", "cancelled"},
             by : Actor, approvalExpiresAt : Nat]

(* Execute is called by the outbox publisher, one event after another, and  *)
(* by the one-shot scan at startup.                                         *)
Workers == {"publisher", "scan"}
Claimed == {"claimed", "verifying", "settling"}
PC == {"idle", "loaded", "refusing", "claiming"} \cup Claimed \cup {"returned", "errored"}
Outcome == {"none", "succeeded", "failed", "ambiguous", "unconfirmed"}

TypeOK ==
  /\ state \in [Ops -> State]
  /\ expiresAt \in [Ops -> Nat]
  /\ approvedBy \in [Ops -> Actor]
  /\ approvalExpiresAt \in [Ops -> Nat]
  /\ leaseExpiresAt \in [Ops -> Nat]
  /\ attempts \in [Ops -> Nat]
  /\ verified \in [Ops -> {"null", "true", "false"}]
  /\ claimedAt \in [Ops -> Nat]
  /\ outbox \subseteq Ops
  /\ decisions \subseteq Decision
  /\ pc \in [Workers -> PC]
  /\ job \in [Workers -> Ops \cup {Nil}]
  /\ authority \in [Workers -> Actor]
  /\ replan \in [Workers -> {"none", "same", "raised"}]
  /\ readAt \in [Workers -> Nat]
  /\ outcome \in [Workers -> Outcome]
  /\ \A w \in Workers : pc[w] # "idle" => job[w] \in Ops
  /\ reaping \subseteq [op : Ops, from : {"pending_approval", "approved", "executing"}]
  /\ scan \in {"due", "done"}
  /\ resuming \subseteq Ops
  /\ now \in Nat \ {0}
  /\ faults \in Nat
  /\ writes \in [Ops -> Nat]

Init ==
  /\ state = [o \in Ops |-> "absent"]
  /\ expiresAt = [o \in Ops |-> 0]
  /\ approvedBy = [o \in Ops |-> Nil]
  /\ approvalExpiresAt = [o \in Ops |-> 0]
  /\ leaseExpiresAt = [o \in Ops |-> 0]
  /\ attempts = [o \in Ops |-> 0]
  /\ verified = [o \in Ops |-> "null"]
  /\ claimedAt = [o \in Ops |-> 0]
  /\ outbox = {}
  /\ decisions = {}
  /\ pc = [w \in Workers |-> "idle"]
  /\ job = [w \in Workers |-> Nil]
  /\ authority = [w \in Workers |-> Nil]
  /\ replan = [w \in Workers |-> "none"]
  /\ readAt = [w \in Workers |-> 0]
  /\ outcome = [w \in Workers |-> "none"]
  /\ reaping = {}
  /\ scan = "due"
  /\ resuming = {}
  /\ now = 1
  /\ faults = 0
  /\ writes = [o \in Ops |-> 0]

-----------------------------------------------------------------------------
(* The store.                                                               *)

(* Mutant of Transition: the WHERE clause forgets the expected state.       *)
MutantTransition(o, from, to) == state' = [state EXCEPT ![o] = to]

(* Transition: the guarded update; a lost race changes nothing.             *)
Transition(o, from, to) ==
  state' = IF state[o] = from THEN [state EXCEPT ![o] = to] ELSE state

(* Settle reads the current state and guards its update with that, so it    *)
(* applies whatever the state is.                                           *)
SettleRow(o, to, seen) ==
  /\ state' = [state EXCEPT ![o] = to]
  /\ leaseExpiresAt' = [leaseExpiresAt EXCEPT ![o] = 0]
  /\ verified' = [verified EXCEPT ![o] = seen]
  /\ UNCHANGED <<expiresAt, approvedBy, approvalExpiresAt, attempts, claimedAt>>

(* Mutant of Due: lapsed leases are not looked for.                         *)
MutantDueNoLease == {o \in Ops :
                       \/ state[o] = "pending_approval" /\ expiresAt[o] <= now
                       \/ state[o] = "approved" /\ approvalExpiresAt[o] <= now}

(* DueForExpiry. *)
Due == {o \in Ops :
          \/ state[o] = "pending_approval" /\ expiresAt[o] <= now
          \/ state[o] = "approved" /\ approvalExpiresAt[o] <= now
          \/ state[o] = "executing" /\ leaseExpiresAt[o] # 0 /\ leaseExpiresAt[o] <= now}

(* Claimable. *)
Claimable == {o \in Ops : state[o] = "approved" /\ approvalExpiresAt[o] > now}

-----------------------------------------------------------------------------
(* The service.                                                             *)

(* Bound: a proposal is made only while its last deadline fits the clock.   *)
DeadlinesFit == now + ProposalTTL + ApprovalTTL + LeaseTTL <= MaxTime

Propose(o) ==
  /\ DeadlinesFit
  /\ state[o] = "absent"
  /\ state' = [state EXCEPT ![o] = "pending_approval"]
  /\ expiresAt' = [expiresAt EXCEPT ![o] = now + ProposalTTL]
  /\ UNCHANGED <<approvedBy, approvalExpiresAt, leaseExpiresAt, attempts, verified, claimedAt>>
  /\ UNCHANGED <<outbox, decisions, executor, others, writes>>

(* A call that has read the row, been authorised and passed Validate.       *)
Decide(d) ==
  /\ Cardinality(decisions) < MaxDecisions
  /\ decisions' = decisions \cup {d}
  /\ UNCHANGED <<rows, outbox, executor, others, writes>>

(* Approve, ApproveInline and autoApprove: guardApprove on the snapshot,    *)
(* and the execute-by deadline counted from the same reading of the clock.  *)
Approve(o, by) ==
  /\ state[o] = "pending_approval"
  /\ now < expiresAt[o]
  /\ Decide([op |-> o, from |-> "pending_approval", to |-> "approved", by |-> by,
             approvalExpiresAt |-> now + ApprovalTTL])

Reject(o) ==
  /\ state[o] = "pending_approval"
  /\ Decide([op |-> o, from |-> "pending_approval", to |-> "rejected", by |-> Nil,
             approvalExpiresAt |-> 0])

(* guardNoLeaseHeld for an approved operation.                              *)
Cancel(o) ==
  /\ \/ state[o] = "pending_approval"
     \/ state[o] = "approved" /\ ~(leaseExpiresAt[o] > now)
  /\ Decide([op |-> o, from |-> state[o], to |-> "cancelled", by |-> Nil,
             approvalExpiresAt |-> 0])

(* The decision's transaction.  An approval is recorded, and its event      *)
(* enqueued, in the same transaction; no other event has a consumer.        *)
Commit(d) ==
  /\ d \in decisions
  /\ decisions' = decisions \ {d}
  /\ Transition(d.op, d.from, d.to)
  /\ IF d.to = "approved" /\ state'[d.op] # state[d.op]
     THEN /\ approvedBy' = [approvedBy EXCEPT ![d.op] = d.by]
          /\ approvalExpiresAt' = [approvalExpiresAt EXCEPT ![d.op] = d.approvalExpiresAt]
          /\ outbox' = outbox \cup {d.op}
     ELSE UNCHANGED <<approvedBy, approvalExpiresAt, outbox>>
  /\ UNCHANGED <<expiresAt, leaseExpiresAt, attempts, verified, claimedAt>>
  /\ UNCHANGED <<executor, others, writes>>

-----------------------------------------------------------------------------
(* The executor.                                                            *)

Busy == {w \in Workers : pc[w] # "idle"}

(* What a worker may be handed: an undelivered event, or a listed leftover. *)
Offered(w) == IF w = "publisher" THEN outbox ELSE resuming

Goto(w, p) == pc' = [pc EXCEPT ![w] = p]

(* Execute is over: its local variables go out of scope.                    *)
Leave(w, p) ==
  /\ Goto(w, p)
  /\ authority' = [authority EXCEPT ![w] = Nil]
  /\ replan' = [replan EXCEPT ![w] = "none"]
  /\ readAt' = [readAt EXCEPT ![w] = 0]
  /\ outcome' = [outcome EXCEPT ![w] = "none"]

(* scanClaimable's one read of the table. *)
Scan ==
  /\ scan = "due"
  /\ scan' = "done"
  /\ resuming' = Claimable
  /\ UNCHANGED <<rows, outbox, decisions, executor, reaping, now, faults, writes>>

(* Execute takes a slot, loads the row and stops unless it is approved.     *)
Load(w, o) ==
  /\ pc[w] = "idle"
  /\ Cardinality(Busy) < Concurrency
  /\ o \in Offered(w)
  /\ job' = [job EXCEPT ![w] = o]
  /\ Goto(w, IF state[o] = "approved" THEN "loaded" ELSE "returned")
  /\ authority' = [authority EXCEPT ![w] = IF state[o] = "approved" THEN approvedBy[o] ELSE Nil]
  /\ resuming' = IF w = "scan" THEN resuming \ {o} ELSE resuming
  /\ UNCHANGED <<replan, readAt, outcome>>
  /\ UNCHANGED <<rows, outbox, decisions, reaping, scan, now, faults, writes>>

(* The re-plan is accepted, and the clock is read for the claim that        *)
(* follows, or it is refused.                                               *)
PlanIf(w, risk, accepted) ==
  /\ pc[w] = "loaded"
  /\ \/ /\ accepted
        /\ Goto(w, "claiming")
        /\ replan' = [replan EXCEPT ![w] = risk]
        /\ readAt' = [readAt EXCEPT ![w] = now]
     \/ /\ ~accepted
        /\ Goto(w, "refusing")
        /\ UNCHANGED <<replan, readAt>>
  /\ UNCHANGED <<job, authority, outcome, rows, outbox, decisions, others, writes>>

(* The recomputed hash, the re-plan and the drift check (sound), and the    *)
(* risk check.                                                              *)
Plan(w, sound, risk) ==
  PlanIf(w, risk, sound /\ ~(risk = "raised" /\ authority[w] = Policy))

(* settleFailure. *)
Refuse(w) ==
  /\ pc[w] = "refusing"
  /\ Transition(job[w], "approved", "failed")
  /\ Leave(w, "returned")
  /\ UNCHANGED <<expiresAt, approvedBy, approvalExpiresAt, leaseExpiresAt, attempts, verified, claimedAt>>
  /\ UNCHANGED <<job, outbox, decisions, others, writes>>

(* The claim's update, when its WHERE clause matches; otherwise it is lost. *)
ClaimIf(w, matches) ==
  /\ pc[w] = "claiming"
  /\ \/ /\ matches
        /\ state' = [state EXCEPT ![job[w]] = "executing"]
        /\ claimedAt' = [claimedAt EXCEPT ![job[w]] = readAt[w]]
        /\ leaseExpiresAt' = [leaseExpiresAt EXCEPT ![job[w]] = readAt[w] + LeaseTTL]
        /\ attempts' = [attempts EXCEPT ![job[w]] = @ + 1]
        /\ Goto(w, "claimed")
        /\ readAt' = [readAt EXCEPT ![w] = 0]
        /\ UNCHANGED <<expiresAt, approvedBy, approvalExpiresAt, verified>>
        /\ UNCHANGED <<authority, replan, outcome>>
     \/ /\ ~matches
        /\ Leave(w, "returned")
        /\ UNCHANGED rows
  /\ UNCHANGED <<job, outbox, decisions, others, writes>>

(* Mutants of Claim: each drops one condition of its WHERE clause.          *)
MutantClaimAnyState(w) == ClaimIf(w, approvalExpiresAt[job[w]] > readAt[w])
MutantClaimAnyTime(w) == ClaimIf(w, state[job[w]] = "approved")

(* Claim. *)
Claim(w) == ClaimIf(w, state[job[w]] = "approved" /\ approvalExpiresAt[job[w]] > readAt[w])

(* MutationRunner.Apply (the plugin), as <<what it reports, whether the     *)
(* write landed>>.  Its contract: no error means the write landed, a plain  *)
(* error that it did not, and an ambiguous outcome wraps ErrIndeterminate.  *)
ApplyOutcome == {<<"succeeded", 1>>, <<"failed", 0>>, <<"ambiguous", 0>>, <<"ambiguous", 1>>}

(* apply: the upstream write; only a success that can be confirmed is.      *)
Apply(w, result) ==
  /\ pc[w] = "claimed"
  /\ writes' = [writes EXCEPT ![job[w]] = @ + result[2]]
  /\ outcome' = [outcome EXCEPT ![w] = result[1]]
  /\ Goto(w, IF result[1] = "succeeded" /\ job[w] \in Verifiable THEN "verifying" ELSE "settling")
  /\ UNCHANGED <<job, authority, replan, readAt, rows, outbox, decisions, others>>

(* verify, with its bounded retries: the target agrees or it does not.      *)
Verify(w, agrees) ==
  /\ pc[w] = "verifying"
  /\ outcome' = [outcome EXCEPT ![w] = IF agrees THEN "succeeded" ELSE "unconfirmed"]
  /\ Goto(w, "settling")
  /\ UNCHANGED <<job, authority, replan, readAt, rows, outbox, decisions, others, writes>>

(* settle: how each outcome is recorded.                                    *)
Settle(w) ==
  /\ pc[w] = "settling"
  /\ SettleRow(job[w],
       IF outcome[w] \in {"succeeded", "failed"} THEN outcome[w] ELSE "indeterminate",
       IF outcome[w] = "succeeded" /\ job[w] \in Verifiable THEN "true"
       ELSE IF outcome[w] = "unconfirmed" THEN "false" ELSE "null")
  /\ Leave(w, "returned")
  /\ UNCHANGED <<job, outbox, decisions, others, writes>>

(* Mutant of Return: the event is marked published whatever Execute said.   *)
MutantReturnAlwaysMarks(w) ==
  /\ pc[w] \in {"returned", "errored"}
  /\ outbox' = IF w = "publisher" THEN outbox \ {job[w]} ELSE outbox
  /\ Goto(w, "idle") /\ job' = [job EXCEPT ![w] = Nil]
  /\ UNCHANGED <<locals, rows, decisions, others, writes>>

(* Execute has returned: publishOne marks its event published, or on an     *)
(* error leaves it to be retried; the scan goes on to its next operation.   *)
Return(w) ==
  /\ pc[w] \in {"returned", "errored"}
  /\ outbox' = IF w = "publisher" /\ pc[w] = "returned" THEN outbox \ {job[w]} ELSE outbox
  /\ Goto(w, "idle")
  /\ job' = [job EXCEPT ![w] = Nil]
  /\ UNCHANGED <<locals, rows, decisions, others, writes>>

-----------------------------------------------------------------------------
(* The reaper.                                                              *)

Sweep ==
  /\ reaping = {}
  /\ Due # {}
  /\ reaping' = {[op |-> o, from |-> state[o]] : o \in Due}
  /\ UNCHANGED <<rows, outbox, decisions, executor, scan, resuming, now, faults, writes>>

(* reap: expire a proposal or an approval, or give up on a lapsed lease.    *)
Reap(r) ==
  /\ r \in reaping
  /\ reaping' = reaping \ {r}
  /\ \/ /\ r.from = "executing"
        /\ SettleRow(r.op, "indeterminate", "null")
     \/ /\ r.from # "executing"
        /\ Transition(r.op, r.from, "expired")
        /\ UNCHANGED <<expiresAt, approvedBy, approvalExpiresAt, leaseExpiresAt, attempts, verified, claimedAt>>
  /\ UNCHANGED <<outbox, decisions, executor, scan, resuming, now, faults, writes>>

-----------------------------------------------------------------------------
(* Time and faults.                                                         *)

Tick ==
  /\ now < MaxTime
  /\ now' = now + 1
  /\ UNCHANGED <<rows, outbox, decisions, executor, reaping, scan, resuming, faults, writes>>

Fault == faults < MaxFaults /\ faults' = faults + 1

(* A store call of Execute fails, or a plugin panics: publishOne sees an    *)
(* error.  Failing to mark an event published leaves it to be redelivered.  *)
StoreError(w) ==
  /\ Fault
  /\ pc[w] \notin {"idle", "errored"}
  /\ Leave(w, "errored")
  /\ UNCHANGED <<job, rows, outbox, decisions, reaping, scan, resuming, now, writes>>

(* The reaper logs an error and leaves the operation to its next sweep.     *)
ReapError(r) ==
  /\ Fault
  /\ r \in reaping
  /\ reaping' = reaping \ {r}
  /\ UNCHANGED <<rows, outbox, decisions, executor, scan, resuming, now, writes>>

(* The process dies and starts again: the database survives, nothing else.  *)
Crash ==
  /\ Fault
  /\ decisions' = {}
  /\ pc' = [w \in Workers |-> "idle"]
  /\ job' = [w \in Workers |-> Nil]
  /\ authority' = [w \in Workers |-> Nil]
  /\ replan' = [w \in Workers |-> "none"]
  /\ readAt' = [w \in Workers |-> 0]
  /\ outcome' = [w \in Workers |-> "none"]
  /\ reaping' = {}
  /\ scan' = "due"
  /\ resuming' = {}
  /\ UNCHANGED <<rows, outbox, now, writes>>

-----------------------------------------------------------------------------
ServiceNext == \/ \E o \in Ops : \/ Propose(o)
                                 \/ \E by \in Approvers \cup {Policy} : Approve(o, by)
                                 \/ Reject(o)
                                 \/ Cancel(o)
               \/ \E d \in decisions : Commit(d)

WorkerNext(w) == \/ \E o \in Ops : Load(w, o)
                 \/ \E sound \in BOOLEAN, risk \in {"same", "raised"} : Plan(w, sound, risk)
                 \/ Refuse(w)
                 \/ Claim(w)
                 \/ \E result \in ApplyOutcome : Apply(w, result)
                 \/ \E agrees \in BOOLEAN : Verify(w, agrees)
                 \/ Settle(w)
                 \/ Return(w)

ReaperNext == Sweep \/ \E r \in reaping : Reap(r)

FaultNext == \/ \E w \in Workers : StoreError(w)
             \/ \E r \in reaping : ReapError(r)
             \/ Crash

Next == \/ ServiceNext
        \/ Scan
        \/ \E w \in Workers : WorkerNext(w)
        \/ ReaperNext
        \/ Tick
        \/ FaultNext

Spec == Init /\ [][Next]_vars

(* Goroutines of a live process are scheduled and time passes; no person    *)
(* has to decide anything, and nothing has to fail.                         *)
Fairness == /\ WF_vars(Tick)
            /\ WF_vars(Scan)
            /\ \A w \in Workers : WF_vars(WorkerNext(w))
            /\ WF_vars(ReaperNext)

FairSpec == Spec /\ Fairness

-----------------------------------------------------------------------------
(* Properties.                                                              *)

(* The upstream write of an operation happens at most once, whatever is     *)
(* redelivered, resumed, crashed or reclaimed (Claim's at-most-once).       *)
AtMostOnce == \A o \in Ops : writes[o] <= 1

(* What a state tells the caller is true of the target (stateNote): nothing *)
(* was written if the operation is refused or failed, nor before it runs;   *)
(* the write did land if it succeeded, and was confirmed if it can be.      *)
OutcomeIsTruthful ==
  \A o \in Ops :
    /\ state[o] \in Refused \cup {"failed", "absent", "pending_approval", "approved"}
         => writes[o] = 0
    /\ state[o] = "succeeded" =>
         /\ writes[o] = 1
         /\ verified[o] = IF o \in Verifiable THEN "true" ELSE "null"

(* Nothing is written without an approval on record whose deadline had not  *)
(* passed when the operation was claimed, and under one attempt only.       *)
WrittenUnderApproval ==
  \A o \in Ops : writes[o] > 0 =>
    /\ approvedBy[o] # Nil
    /\ claimedAt[o] < approvalExpiresAt[o]
    /\ attempts[o] = 1

(* A worker never holds a claim on a change whose risk the re-plan raised   *)
(* unless a person approved it (the RISK_RAISED refusal).                   *)
RaisedRiskNeedsAPerson ==
  \A w \in Workers :
    pc[w] \in Claimed /\ replan[w] = "raised" => approvedBy[job[w]] \in Approvers

(* Every upstream write is accounted for: it happened once, under a         *)
(* recorded approval that had not lapsed at the claim, and by a person's    *)
(* where the risk was raised (Claim, executor.go).                          *)
WritesAreAuthorised ==
  AtMostOnce /\ WrittenUnderApproval /\ RaisedRiskNeedsAPerson

(* An approval that may still be executed always has an event left to wake  *)
(* the executor: none is marked published before it was acted on.           *)
HintIsNotLost ==
  \A o \in Ops : state[o] = "approved" /\ now < approvalExpiresAt[o] => o \in outbox

(* An executing operation carries a lease, and only it does: without one    *)
(* the reaper would never look at it again.                                 *)
LeaseWhileExecuting ==
  \A o \in Ops : state[o] = "executing" <=> leaseExpiresAt[o] # 0

(* Whatever may still happen to an operation, something is left that will   *)
(* make it happen: an event for an approval, a lease for an execution.      *)
NothingIsForgotten == HintIsNotLost /\ LeaseWhileExecuting

(* A refusal is final and a recorded approval is never replaced: of several *)
(* racing decisions one wins (the state in Transition's WHERE clause).      *)
DecisionIsFinal ==
  [][\A o \in Ops :
       /\ state[o] \in Refused => state'[o] = state[o]
       /\ approvedBy[o] # Nil
            => /\ approvedBy'[o] = approvedBy[o]
               /\ approvalExpiresAt'[o] = approvalExpiresAt[o]]_vars

(* The engine implements the write gate: an operation counts as started     *)
(* once it has been claimed, whatever is later recorded as its outcome.     *)
GatePhase == [o \in Ops |->
  IF attempts[o] > 0 THEN "started"
  ELSE CASE state[o] = "absent" -> "absent"
         [] state[o] = "pending_approval" -> "proposed"
         [] state[o] = "approved" -> "approved"
         [] OTHER -> "refused"]

Gate == INSTANCE WriteGate WITH phase <- GatePhase

(* Every behaviour of the engine is one of the gate: one decision, one      *)
(* claim and at most one upstream write, and only after an approval.        *)
ImplementsGate == Gate!Spec

(* Every proposal reaches an outcome: nothing stays pending, approved or    *)
(* executing for ever, whoever fails to decide and whichever worker dies.   *)
EveryOperationSettles ==
  \A o \in Ops : state[o] = "pending_approval" ~> state[o] \in Settled

=============================================================================
