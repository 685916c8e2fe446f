----------------------------- MODULE AuditChain -----------------------------
(***************************************************************************)
(* The audit trail.  Every transaction that changes something appends one  *)
(* row, linked to the newest row present by that row's hash.  Retention    *)
(* deletes the rows older than a cutoff and appends a row saying so, in    *)
(* one transaction.  VerifyChain walks what is left.                       *)
(*                                                                         *)
(* A transaction's time is read before it queues for the single writer, so *)
(* rows need not be committed in the order of their times.                 *)
(*                                                                         *)
(* A row is its seq, and its hash is its seq: two rows never share a hash, *)
(* because the hash covers a unique event id.                              *)
(***************************************************************************)
EXTENDS Integers, FiniteSets

CONSTANTS
  Writers,     \* goroutines that change state
  Worker,      \* the history-retention worker
  Admin,       \* an administrator clearing the history
  Retention,   \* how long a row is kept
  MaxRows,     \* bound: rows ever appended
  MaxClock     \* bound: the clock stops here

ASSUME ActorAssumption == Worker \notin Writers /\ Admin \notin Writers /\ Worker # Admin
ASSUME NumberAssumption == Retention \in Nat /\ MaxRows \in Nat /\ MaxClock \in Nat

VARIABLES
  last,       \* the last seq assigned
  present,    \* rows in the table
  at, prev, kind,
  txn, readAt,  \* transactions waiting for the writer, and the time each read
  cutoff,     \* the time below which each waiting prune deletes
  clock

trail == <<last, present, at, prev, kind>>
auditVars == <<trail, txn, readAt, cutoff, clock>>

Pruners == {Worker, Admin}
Actors == Writers \cup Pruners
Seqs == 1..MaxRows
Genesis == 0

AuditTypeOK ==
  /\ last \in 0..MaxRows
  /\ present \subseteq 1..last
  /\ at \in [Seqs -> Nat]
  /\ prev \in [Seqs -> Nat]
  /\ kind \in [Seqs -> {"change", "audit.pruned"}]
  /\ txn \in [Actors -> {"idle", "waiting"}]
  /\ readAt \in [Actors -> Nat]
  /\ cutoff \in [Pruners -> Int]
  /\ clock \in Nat

AuditInit ==
  /\ last = 0
  /\ present = {}
  /\ at = [s \in Seqs |-> 0]
  /\ prev = [s \in Seqs |-> Genesis]
  /\ kind = [s \in Seqs |-> "change"]
  /\ txn = [t \in Actors |-> "idle"]
  /\ readAt = [t \in Actors |-> 0]
  /\ cutoff = [t \in Pruners |-> 0]
  /\ clock = 0

(* The hash appendAudit reads: the newest row present, or genesis. *)
Newest(left, s) == s \in left /\ \A u \in left : u <= s

(* Mutant of IsHead: the oldest row is taken for the newest.                *)
MutantIsHead(left, h) == \/ left = {} /\ h = Genesis
                         \/ h \in left /\ \A u \in left : h <= u

IsHead(left, h) == \/ left = {} /\ h = Genesis
                   \/ Newest(left, h)

(* appendAudit, on what the transaction has left in the table. *)
AppendRow(left, t, k) ==
  /\ last < MaxRows
  /\ last' = last + 1
  /\ present' = left \cup {last + 1}
  /\ at' = [at EXCEPT ![last + 1] = readAt[t]]
  /\ kind' = [kind EXCEPT ![last + 1] = k]
  /\ \E h \in 0..MaxRows : IsHead(left, h) /\ prev' = [prev EXCEPT ![last + 1] = h]

(* A caller reads the clock and queues for the writer.  The worker keeps    *)
(* what is younger than the retention, the administrator keeps nothing.     *)
Begin(t) ==
  /\ txn[t] = "idle"
  /\ txn' = [txn EXCEPT ![t] = "waiting"]
  /\ readAt' = [readAt EXCEPT ![t] = clock]
  /\ cutoff' = [p \in Pruners |-> IF p # t THEN cutoff[p]
                                 ELSE IF p = Worker THEN clock - Retention ELSE clock]
  /\ UNCHANGED <<trail, clock>>

Done(t) == /\ txn' = [txn EXCEPT ![t] = "idle"]
           /\ readAt' = [readAt EXCEPT ![t] = 0]
           /\ cutoff' = [p \in Pruners |-> IF p = t THEN 0 ELSE cutoff[p]]

(* WriteTx commits a change together with its row. *)
CommitChange(t) ==
  /\ t \in Writers
  /\ txn[t] = "waiting"
  /\ AppendRow(present, t, "change")
  /\ Done(t)
  /\ UNCHANGED clock

(* WriteTx rolls back: neither the change nor its row exists. *)
Rollback(t) ==
  /\ txn[t] = "waiting"
  /\ Done(t)
  /\ UNCHANGED <<trail, clock>>

Old(t) == {s \in present : at[s] < cutoff[t]}

(* Mutant of Prune: rows go without a row that says so.                     *)
MutantPrune(t) ==
  /\ t \in Pruners
  /\ txn[t] = "waiting"
  /\ present' = present \ Old(t)
  /\ Done(t)
  /\ UNCHANGED <<last, at, prev, kind, clock>>

Prune(t) ==
  /\ t \in Pruners
  /\ txn[t] = "waiting"
  /\ Old(t) # {}
  /\ AppendRow(present \ Old(t), t, "audit.pruned")
  /\ Done(t)
  /\ UNCHANGED clock

NothingToPrune(t) ==
  /\ t \in Pruners
  /\ txn[t] = "waiting"
  /\ Old(t) = {}
  /\ Done(t)
  /\ UNCHANGED <<trail, clock>>

AuditTick ==
  /\ clock < MaxClock
  /\ clock' = clock + 1
  /\ UNCHANGED <<trail, txn, readAt, cutoff>>

AuditNext ==
  \/ \E t \in Actors : Begin(t) \/ CommitChange(t) \/ Rollback(t) \/ Prune(t) \/ NothingToPrune(t)
  \/ AuditTick

AuditSpec == AuditInit /\ [][AuditNext]_auditVars

-----------------------------------------------------------------------------
(* VerifyChain: the first row anchors the chain, and every later one must   *)
(* name the row before it.                                                  *)
Breaks == {s \in present : \E p \in present :
             /\ p < s
             /\ \A u \in present : u < s => u <= p
             /\ prev[s] # p}

Verifies == Breaks = {}

(* Rows were committed in the order of their times. *)
InOrder == \A s, u \in 1..last : s < u => at[s] <= at[u]

(* If rows were committed in the order of their times, what retention       *)
(* leaves verifies, however often it ran and whatever it removed.           *)
OrderedChainVerifies == InOrder => Verifies

(* A trail with rows missing says so: after any number of prunes, including *)
(* one that removes the row an earlier prune left, a row newer than every   *)
(* missing one records a prune.                                             *)
GapsAreExplained ==
  \A s \in 1..last : s \notin present
    => \E u \in present : s < u /\ kind[u] = "audit.pruned"
=============================================================================
