---------------------------- MODULE StoreProofs ----------------------------
(***************************************************************************)
(* What the tables of the store promise, for any constants.                *)
(*                                                                         *)
(* The outbox: for any batch size, any backoff and any number of rows and  *)
(* faults, the consumer first meets events in commit order, nothing is     *)
(* marked published that its handler did not take, and no wake-up is lost. *)
(*                                                                         *)
(* The audit trail: for any writers, any retention and any number of rows, *)
(* a chain whose rows were committed in the order of their times verifies  *)
(* after every prune, and every gap is explained.                          *)
(*                                                                         *)
(* Proposals: for any number of calls, bodies and keys and any window,     *)
(* repeated proposals collapse and answers belong to who asked.            *)
(***************************************************************************)
EXTENDS Outbox, AuditChain, Idempotency, FiniteSetTheorems, WellFoundedInduction, TLAPS

-----------------------------------------------------------------------------
(* The outbox *)

(* A row that is published or backing off has been shown to the consumer,   *)
(* and only committed rows have.                                            *)
TriedInv == \A e \in Events :
              /\ published[e] = "yes" \/ wait[e] > 0 => tried[e] = "yes"
              /\ tried[e] = "yes" => e <= committed

(* What precedes an event of the batch is in the batch or has been shown.   *)
BatchInv == \A e \in batch : \A d \in Events : d < e => d \in batch \/ tried[d] = "yes"

(* Between the handler and the mark, the head of the batch has been shown,  *)
(* and taken if it is about to be marked published.                         *)
HeadInv == \A e \in batch : Head(e) =>
             /\ pc \in {"marking", "failing"} => tried[e] = "yes"
             /\ pc = "marking" => handled[e] = "yes"

IInv == TriedInv /\ BatchInv /\ HeadInv /\ AttemptedInOrder /\ PublishedWasHandled

(* While a live publisher works through a batch that was not cut short, an  *)
(* event that was not shown and is not owed a notification is in the batch. *)
WakeInv ==
  /\ pc = "waiting" => batch = {}
  /\ pc \notin {"start", "stopped"} /\ slot = "empty" /\ ctx = "live" /\ unread = "no"
     => \A e \in 1..committed : tried[e] = "yes" \/ e \in owed \/ e \in batch

(* The initial state. *)
LEMMA InitInv == Init => TypeOK /\ IInv
BY BoundAssumption DEF Init, TypeOK, IInv, TriedInv, BatchInv, HeadInv, AttemptedInOrder,
   PublishedWasHandled, Events, Head

(* A retry delay is a natural number. *)
LEMMA BackoffNat == ASSUME NEW n \in Nat PROVE Backoff(n) \subseteq Nat
BY ConfigAssumption DEF Backoff

(* Only committed rows are read. *)
LEMMA PendingCommitted == Pending \subseteq 1..committed
BY DEF Pending, Due

(* A due row older than one in the batch is in the batch: the limit cuts    *)
(* the newest rows off.                                                     *)
LEMMA PendingPrefix ==
  ASSUME TypeOK, NEW e \in Pending, NEW d \in Due, d < e
  PROVE  d \in Pending
<1> DEFINE Before(x) == {y \in Due : y <= x}
<1>1. Due \subseteq 1..committed /\ committed \in Int
      BY BoundAssumption DEF Due, TypeOK
<1>2. IsFiniteSet(1..committed)
      BY <1>1, FS_Interval
<1>3. Before(d) \subseteq Before(e) /\ Before(e) \subseteq 1..committed
  <2>1. \A y \in Due : y \in Int BY <1>1
  <2>2. e \in Int /\ d \in Int BY <2>1 DEF Pending
  <2>3. \A y \in Before(d) : y \in Before(e) BY <2>1, <2>2
  <2>. QED BY <1>1, <2>3
<1>4. IsFiniteSet(Before(e)) BY <1>2, <1>3, FS_Subset
<1>5. IsFiniteSet(Before(d)) /\ Cardinality(Before(d)) <= Cardinality(Before(e))
      BY <1>3, <1>4, FS_Subset
<1>6. Cardinality(Before(d)) \in Nat /\ Cardinality(Before(e)) \in Nat
      BY <1>4, <1>5, FS_CardinalityType
<1>7. Cardinality(Before(e)) <= BatchSize BY DEF Pending
<1>8. Cardinality(Before(d)) <= BatchSize BY <1>5, <1>6, <1>7, ConfigAssumption
<1>. QED BY <1>8 DEF Pending

(* A finite set of integers has a smallest element.                         *)
LEMMA Smallest ==
  ASSUME NEW S \in SUBSET Int, IsFiniteSet(S), S # {}
  PROVE  \E x \in S : \A y \in S : x <= y
<1> DEFINE UpTo(x) == {y \in S : y <= x}
           T == {UpTo(x) : x \in S}
<1>1. IsWellFoundedOn(StrictSubsetOrdering(S), FiniteSubsetsOf(S))
      BY FS_StrictSubsetOrderingWellFounded
<1>2. T \subseteq FiniteSubsetsOf(S)
      BY FS_FiniteSubsetsOfFinite
<1>3. T # {}
      OBVIOUS
<1>4. PICK t \in T : \A u \in T : ~ (<<u, t>> \in StrictSubsetOrdering(S))
      BY <1>1, <1>2, <1>3, WFMin, Zenon
<1>5. PICK x \in S : t = UpTo(x)
      OBVIOUS
<1>6. ASSUME NEW y \in S, ~(x <= y) PROVE FALSE
  <2>1. UpTo(y) \subseteq UpTo(x) /\ x \in UpTo(x) /\ x \notin UpTo(y)
    <3>1. x \in Int /\ y \in Int /\ \A z \in S : z \in Int
          BY <1>5
    <3>2. \A z \in S : z <= y => z <= x
          BY <1>6, <3>1
    <3>3. UpTo(y) \subseteq UpTo(x)
          BY <3>2
    <3>4. x \in UpTo(x)
          BY <3>1, <1>5
    <3>5. x \notin UpTo(y)
          BY <1>6
    <3>. QED BY <3>3, <3>4, <3>5
  <2>2. UpTo(y) \in T /\ UpTo(y) \in SUBSET S /\ UpTo(x) \in SUBSET S
        OBVIOUS
  <2>3. <<UpTo(y), UpTo(x)>> \in StrictSubsetOrdering(S)
        BY <2>1, <2>2 DEF StrictSubsetOrdering
  <2>. QED BY <1>4, <1>5, <2>2, <2>3
<1>. QED BY <1>6

(* And a largest one.                                                       *)
LEMMA Largest ==
  ASSUME NEW S \in SUBSET Int, IsFiniteSet(S), S # {}
  PROVE  \E x \in S : \A y \in S : y <= x
<1> DEFINE From(x) == {y \in S : x <= y}
           T == {From(x) : x \in S}
<1>1. IsWellFoundedOn(StrictSubsetOrdering(S), FiniteSubsetsOf(S))
      BY FS_StrictSubsetOrderingWellFounded
<1>2. T \subseteq FiniteSubsetsOf(S)
      BY FS_FiniteSubsetsOfFinite
<1>3. T # {}
      OBVIOUS
<1>4. PICK t \in T : \A u \in T : ~ (<<u, t>> \in StrictSubsetOrdering(S))
      BY <1>1, <1>2, <1>3, WFMin, Zenon
<1>5. PICK x \in S : t = From(x)
      OBVIOUS
<1>6. ASSUME NEW y \in S, ~(y <= x) PROVE FALSE
  <2>1. From(y) \subseteq From(x) /\ x \in From(x) /\ x \notin From(y)
    <3>1. x \in Int /\ y \in Int /\ \A z \in S : z \in Int
          BY <1>5
    <3>2. \A z \in S : y <= z => x <= z
          BY <1>6, <3>1
    <3>3. From(y) \subseteq From(x)
          BY <3>2
    <3>4. x \in From(x)
          BY <3>1, <1>5
    <3>5. x \notin From(y)
          BY <1>6
    <3>. QED BY <3>3, <3>4, <3>5
  <2>2. From(y) \in T /\ From(y) \in SUBSET S /\ From(x) \in SUBSET S
        OBVIOUS
  <2>3. <<From(y), From(x)>> \in StrictSubsetOrdering(S)
        BY <2>1, <2>2 DEF StrictSubsetOrdering
  <2>. QED BY <1>4, <1>5, <2>2, <2>3
<1>. QED BY <1>6

(* A batch that is not full is everything that was due.                     *)
LEMMA ShortBatchIsAll ==
  ASSUME TypeOK, Cardinality(Pending) # BatchSize
  PROVE  Pending = Due
<1> DEFINE Before(x) == {y \in Due : y <= x}
<1>1. Due \in SUBSET Int /\ IsFiniteSet(Due)
  <2>1. Due \subseteq 1..committed /\ committed \in Int /\ 1..committed \subseteq Int
        BY BoundAssumption DEF Due, TypeOK
  <2>2. IsFiniteSet(1..committed)
        BY <2>1, FS_Interval
  <2>. QED BY <2>1, <2>2, FS_Subset
<1>2. Pending \in SUBSET Due
      BY DEF Pending
<1>3. IsFiniteSet(Pending) /\ Cardinality(Pending) \in Nat
      BY <1>1, <1>2, FS_Subset, FS_CardinalityType
<1>4. \A x \in Due : IsFiniteSet(Before(x)) /\ Cardinality(Before(x)) \in Nat
      BY <1>1, FS_Subset, FS_CardinalityType
<1>5. Cardinality(Pending) <= BatchSize
  <2>1. CASE Pending = {} BY <2>1, FS_EmptySet, ConfigAssumption
  <2>2. CASE Pending # {}
    <3>1. PICK x \in Pending : \A y \in Pending : y <= x
          BY <2>2, <1>1, <1>2, <1>3, Largest
    <3>2. Pending \in SUBSET Before(x)
          BY <3>1, <1>2
    <3>3. Cardinality(Pending) <= Cardinality(Before(x))
          BY <3>2, <1>2, <1>4, FS_Subset
    <3>4. Cardinality(Before(x)) <= BatchSize
          BY DEF Pending
    <3>. QED BY <3>3, <3>4, <1>2, <1>3, <1>4, ConfigAssumption
  <2>. QED BY <2>1, <2>2
<1>6. ASSUME Due \ Pending # {} PROVE FALSE
  <2>1. PICK d \in Due \ Pending : \A y \in Due \ Pending : d <= y
    <3>1. Due \ Pending \in SUBSET Int /\ IsFiniteSet(Due \ Pending)
          BY <1>1, FS_Subset
    <3>. QED BY <3>1, <1>6, Smallest
  <2>2. Before(d) \in SUBSET (Pending \cup {d})
    <3>1. ASSUME NEW y \in Before(d), y \notin Pending PROVE y = d
      <4>1. y \in Due \ Pending /\ y <= d /\ d <= y /\ y \in Int /\ d \in Int
            BY <3>1, <2>1, <1>1
      <4>. QED BY <4>1
    <3>. QED BY <3>1
  <2>3. IsFiniteSet(Pending \cup {d}) /\ Cardinality(Pending \cup {d}) = Cardinality(Pending) + 1
        BY <1>3, <2>1, FS_AddElement
  <2>4. Cardinality(Before(d)) <= Cardinality(Pending) + 1
        BY <2>2, <2>3, FS_Subset
  <2>5. ~(Cardinality(Before(d)) <= BatchSize)
        BY <2>1 DEF Pending
  <2>. QED BY <2>4, <2>5, <1>3, <1>4, <1>5, ConfigAssumption
<1>. QED BY <1>2, <1>6

(* Every step keeps the variables in their types. *)
LEMMA TypeStep == TypeOK /\ [Next]_vars => TypeOK'
<1> SUFFICES ASSUME TypeOK, [Next]_vars PROVE TypeOK'
    OBVIOUS
<1> USE BoundAssumption
<1>0. ASSUME NEW alive, Drain(alive), UNCHANGED <<rows, owed, history>>,
             slot' \in {"empty", "full"}, ctx' \in {"live", "cancelled", "final", "expired"}
      PROVE  TypeOK'
  <2>1. batch' \subseteq 1..committed BY <1>0, PendingCommitted DEF Drain, TypeOK
  <2>2. faults' \in Nat BY <1>0 DEF Drain, Fault, TypeOK
  <2>. QED BY <1>0, <2>1, <2>2 DEF Drain, TypeOK, rows, history
<1>1. ASSUME NEW s \in {"approved", "other"}, Commit(s) PROVE TypeOK'
  <2>1. committed + 1 \in Events BY <1>1 DEF Commit, TypeOK, Events
  <2>2. 1..committed \subseteq 1..(committed + 1) BY DEF TypeOK
  <2>. QED BY <1>1, <2>1, <2>2 DEF Commit, TypeOK, history
<1>2. ASSUME NEW e \in Events, Notify(e) PROVE TypeOK'
      BY <1>2 DEF Notify, TypeOK, rows, history
<1>3. CASE Start BY <1>0, <1>3 DEF Start, TypeOK
<1>4. CASE Poll BY <1>0, <1>4 DEF Poll, TypeOK
<1>5. CASE Wake BY <1>0, <1>5 DEF Wake, TypeOK
<1>6. CASE Final BY <1>0, <1>6 DEF Final, TypeOK
<1>7. CASE Finish BY <1>7 DEF Finish, TypeOK, rows, history
<1>8. ASSUME NEW e \in Events, Deliver(e) \/ Refuse(e) PROVE TypeOK'
  <2>1. /\ batch' = batch /\ batch # {}
        /\ pc' \in {"marking", "failing"}
        /\ faults' \in Nat
        /\ tried' \in [Events -> {"no", "yes"}]
        /\ handled' \in [Events -> {"no", "yes"}]
        BY <1>8 DEF Deliver, Refuse, Fault, Head, TypeOK
  <2>2. UNCHANGED <<rows, owed, slot, ctx, unread>>
        BY <1>8 DEF Deliver, Refuse
  <2>. QED BY <2>1, <2>2 DEF TypeOK, rows
<1>9. ASSUME NEW e \in Events, MarkPublished(e) PROVE TypeOK'
      BY <1>9 DEF MarkPublished, TypeOK, history
<1>10. ASSUME NEW e \in Events, MarkFailed(e) PROVE TypeOK'
  <2>1. PICK delay \in Backoff(attempts[e]) : wait' = [wait EXCEPT ![e] = delay]
        BY <1>10 DEF MarkFailed
  <2>2. delay \in Nat BY <2>1, BackoffNat DEF TypeOK
  <2>3. wait' \in [Events -> Nat] /\ attempts' \in [Events -> Nat]
        BY <1>10, <2>1, <2>2 DEF MarkFailed, TypeOK
  <2>4. batch' \subseteq batch /\ pc' = "draining"
        BY <1>10 DEF MarkFailed
  <2>. QED BY <1>10, <2>3, <2>4 DEF MarkFailed, TypeOK, history
<1>11. ASSUME NEW e \in Events, MarkError(e) PROVE TypeOK'
  <2>1. faults' \in Nat BY <1>11 DEF MarkError, Fault, TypeOK
  <2>2. batch' \subseteq batch /\ pc' = "draining" BY <1>11 DEF MarkError
  <2>. QED BY <1>11, <2>1, <2>2 DEF MarkError, TypeOK, rows, history
<1>12. CASE Tick BY <1>12 DEF Tick, TypeOK, history
<1>13. CASE Shutdown \/ Expire
  <2>1. faults' \in Nat BY <1>13 DEF Shutdown, Expire, Fault, TypeOK
  <2>2. /\ UNCHANGED <<rows, owed, slot, pc, batch, unread, history>>
        /\ ctx' \in {"cancelled", "expired"}
        BY <1>13 DEF Shutdown, Expire
  <2>. QED BY <2>1, <2>2 DEF TypeOK, rows, history
<1>14. CASE Crash \/ Restart
      BY <1>14 DEF Crash, Restart, NewProcess, Fault, TypeOK, rows, history
<1>15. CASE UNCHANGED vars BY <1>15 DEF vars, TypeOK, rows, history
<1>. QED BY <1>1, <1>2, <1>3, <1>4, <1>5, <1>6, <1>7, <1>8, <1>9, <1>10, <1>11, <1>12, <1>13,
            <1>14, <1>15 DEF Next, Publisher

(* Reading a batch keeps the invariant: what is older than a row read is    *)
(* due as well, or has been shown.                                          *)
LEMMA DrainKeeps ==
  ASSUME TypeOK, IInv, NEW alive, Drain(alive), UNCHANGED <<rows, history>>
  PROVE  IInv'
<1>1. TriedInv' /\ AttemptedInOrder' /\ PublishedWasHandled'
      BY DEF IInv, TriedInv, AttemptedInOrder, PublishedWasHandled, rows, history
<1>2. HeadInv' BY DEF Drain, HeadInv
<1>3. BatchInv'
  <2>1. CASE batch' = batch BY <2>1 DEF IInv, BatchInv, history
  <2>2. CASE batch' = Pending
    <3> SUFFICES ASSUME NEW e \in Pending, NEW d \in Events, d < e, tried[d] # "yes"
                 PROVE  d \in Pending
        BY <2>2 DEF BatchInv, history
    <3>1. published[d] = "no" /\ wait[d] = 0 BY DEF IInv, TriedInv, TypeOK
    <3>2. e \in 1..committed /\ committed \in Nat
          BY PendingCommitted, BoundAssumption DEF TypeOK
    <3>3. d \in Due BY <3>1, <3>2 DEF Due, Events
    <3>. QED BY <3>3, PendingPrefix
  <2>. QED BY <2>1, <2>2 DEF Drain
<1>. QED BY <1>1, <1>2, <1>3 DEF IInv

(* Showing the oldest event of the batch keeps the order. *)
LEMMA ShowKeeps ==
  ASSUME TypeOK, IInv, NEW e \in Events, Deliver(e) \/ Refuse(e)
  PROVE  IInv'
<1> USE BoundAssumption
<1>1. /\ Head(e) /\ batch' = batch /\ UNCHANGED rows
      /\ tried' = [tried EXCEPT ![e] = "yes"]
      BY DEF Deliver, Refuse
<1>2. \A d \in Events : d < e => tried[d] = "yes"
      BY <1>1 DEF Head, IInv, BatchInv, TypeOK, Events
<1>3. AttemptedInOrder'
      BY <1>1, <1>2 DEF AttemptedInOrder, IInv, TypeOK, Events
<1>4. BatchInv' BY <1>1 DEF BatchInv, IInv, TypeOK, Events
<1>5. TriedInv'
  <2>1. e <= committed BY <1>1 DEF Head, TypeOK, Events
  <2>. QED BY <1>1, <2>1 DEF TriedInv, IInv, TypeOK, rows
<1>6. \A d \in Events : handled[d] = "yes" => handled'[d] = "yes"
      BY DEF Deliver, Refuse, TypeOK
<1>7. PublishedWasHandled' BY <1>1, <1>6 DEF PublishedWasHandled, IInv, rows
<1>8. \A d \in batch : Head(d) => d = e
      BY <1>1 DEF Head, TypeOK, Events
<1>9. HeadInv' BY <1>1, <1>8 DEF HeadInv, Head, Deliver, Refuse, TypeOK
<1>. QED BY <1>3, <1>4, <1>5, <1>7, <1>9 DEF IInv

(* Marking the head of the batch, or failing to, keeps the invariant. *)
LEMMA MarkKeeps ==
  ASSUME TypeOK, IInv, NEW e \in Events, MarkPublished(e) \/ MarkFailed(e) \/ MarkError(e)
  PROVE  IInv'
<1> USE BoundAssumption
<1>1. /\ Head(e) /\ e \in batch /\ batch' = batch \ {e} /\ pc' = "draining"
      /\ UNCHANGED <<tried, handled, committed>>
      /\ pc \in {"marking", "failing"}
      BY DEF MarkPublished, MarkFailed, MarkError, Head, history, rows
<1>2. tried[e] = "yes" BY <1>1 DEF IInv, HeadInv
<1>3. \A d \in Events : d # e => published'[d] = published[d] /\ wait'[d] = wait[d]
      BY DEF MarkPublished, MarkFailed, MarkError, TypeOK, rows
<1>4. TriedInv' BY <1>1, <1>2, <1>3 DEF TriedInv, IInv
<1>5. BatchInv' BY <1>1, <1>2 DEF BatchInv, IInv
<1>6. HeadInv' BY <1>1 DEF HeadInv
<1>7. AttemptedInOrder' BY <1>1 DEF AttemptedInOrder, IInv
<1>8. published'[e] = "yes" => published[e] = "yes" \/ handled[e] = "yes"
      BY <1>1 DEF MarkPublished, MarkFailed, MarkError, IInv, HeadInv, rows
<1>9. PublishedWasHandled' BY <1>1, <1>3, <1>8 DEF PublishedWasHandled, IInv
<1>. QED BY <1>4, <1>5, <1>6, <1>7, <1>9 DEF IInv

(* Every step keeps the invariant. *)
LEMMA InvStep == TypeOK /\ IInv /\ [Next]_vars => IInv'
<1> SUFFICES ASSUME TypeOK, IInv, [Next]_vars PROVE IInv'
    OBVIOUS
<1> USE BoundAssumption
<1>1. ASSUME NEW s \in {"approved", "other"}, Commit(s) PROVE IInv'
      BY <1>1 DEF Commit, IInv, TriedInv, BatchInv, HeadInv, Head, AttemptedInOrder,
         PublishedWasHandled, TypeOK, Events, history
<1>2. CASE Start \/ Poll \/ Wake \/ Final
      BY <1>2, DrainKeeps DEF Start, Poll, Wake, Final
<1>3. ASSUME NEW e \in Events, Deliver(e) \/ Refuse(e) PROVE IInv' BY <1>3, ShowKeeps
<1>4. ASSUME NEW e \in Events, MarkPublished(e) \/ MarkFailed(e) \/ MarkError(e) PROVE IInv'
      BY <1>4, MarkKeeps
<1>5. CASE Tick
      BY <1>5 DEF Tick, IInv, TriedInv, BatchInv, HeadInv, Head, AttemptedInOrder,
         PublishedWasHandled, TypeOK, history
<1>6. CASE Finish \/ Crash \/ Restart
      BY <1>6 DEF Finish, Crash, Restart, NewProcess, IInv, TriedInv, BatchInv, HeadInv,
         AttemptedInOrder, PublishedWasHandled, rows, history
<1>7. CASE Shutdown \/ Expire \/ (\E e \in Events : Notify(e)) \/ UNCHANGED vars
      BY <1>7 DEF Shutdown, Expire, Notify, vars, IInv, TriedInv, BatchInv, HeadInv, Head,
         AttemptedInOrder, PublishedWasHandled, rows, history
<1>. QED BY <1>1, <1>2, <1>3, <1>4, <1>5, <1>6, <1>7 DEF Next, Publisher

(* Beginning to drain establishes what is said of wake-ups: an event that   *)
(* was not shown is due, so a batch that was not cut short has it.          *)
LEMMA DrainWakes ==
  ASSUME TypeOK, IInv, NEW alive, Drain(alive), UNCHANGED <<rows, owed, history>>
  PROVE  WakeInv'
<1>1. pc' = "draining" BY DEF Drain
<1>2. CASE unread' = "no"
  <2>1. batch' = Pending /\ Cardinality(Pending) # BatchSize
        BY <1>2 DEF Drain
  <2>2. batch' = Due BY <2>1, ShortBatchIsAll
  <2>3. \A e \in 1..committed : tried[e] # "yes" => e \in Due
        BY BoundAssumption DEF Due, IInv, TriedInv, TypeOK, Events
  <2>. QED BY <1>1, <2>2, <2>3 DEF WakeInv, rows, history
<1>3. CASE unread' # "no" BY <1>1, <1>3 DEF WakeInv
<1>. QED BY <1>2, <1>3

(* Every step keeps it.                                                     *)
LEMMA WakeStep == TypeOK /\ IInv /\ WakeInv /\ [Next]_vars => WakeInv'
<1> SUFFICES ASSUME TypeOK, IInv, WakeInv, [Next]_vars PROVE WakeInv'
    OBVIOUS
<1> USE BoundAssumption
<1>1. ASSUME NEW s \in {"approved", "other"}, Commit(s) PROVE WakeInv'
  <2>1. /\ committed' = committed + 1 /\ owed' = owed \cup {committed + 1}
        /\ committed \in Nat
        /\ UNCHANGED <<slot, pc, batch, ctx, unread, tried>>
        BY <1>1 DEF Commit, TypeOK, history
  <2>2. \A e \in 1..committed' : e \in 1..committed \/ e \in owed'
        BY <2>1
  <2>. QED BY <2>1, <2>2 DEF WakeInv
<1>2. ASSUME NEW e \in Events, Notify(e) PROVE WakeInv'
      BY <1>2 DEF Notify, WakeInv, rows, history
<1>3. CASE Start \/ Poll \/ Wake \/ Final
      BY <1>3, DrainWakes DEF Start, Poll, Wake, Final
<1>4. CASE Finish
  <2>1. /\ pc = "draining" /\ batch' = {} /\ pc' \in {"waiting", "stopped"}
        /\ UNCHANGED <<committed, owed, slot, ctx, unread, tried>>
        /\ ctx = "live" => batch = {}
        BY <1>4 DEF Finish, Alive, rows, history
  <2>. QED BY <2>1 DEF WakeInv
<1>5. ASSUME NEW e \in Events, Deliver(e) \/ Refuse(e) PROVE WakeInv'
  <2>1. /\ pc = "draining" /\ pc' \in {"marking", "failing"} /\ tried' = [tried EXCEPT ![e] = "yes"]
        /\ UNCHANGED <<committed, owed, slot, batch, ctx, unread>>
        BY <1>5 DEF Deliver, Refuse, rows
  <2>2. \A x \in Events : tried[x] = "yes" => tried'[x] = "yes"
        BY <2>1 DEF TypeOK
  <2>3. 1..committed \subseteq Events
        BY DEF TypeOK, Events
  <2>. QED BY <2>1, <2>2, <2>3 DEF WakeInv
<1>6. ASSUME NEW e \in Events, MarkPublished(e) \/ MarkFailed(e) \/ MarkError(e) PROVE WakeInv'
  <2>1. /\ Head(e) /\ e \in batch /\ batch' = batch \ {e} /\ pc' = "draining"
        /\ UNCHANGED <<tried, committed, owed, slot, ctx, unread>>
        /\ pc \in {"marking", "failing"}
        BY <1>6 DEF MarkPublished, MarkFailed, MarkError, Head, history, rows
  <2>2. tried[e] = "yes" BY <2>1 DEF IInv, HeadInv
  <2>. QED BY <2>1, <2>2 DEF WakeInv
<1>7. CASE Tick
      BY <1>7 DEF Tick, WakeInv, history
<1>8. CASE Shutdown \/ Expire
      BY <1>8 DEF Shutdown, Expire, WakeInv, rows, history
<1>9. CASE Crash \/ Restart
      BY <1>9 DEF Crash, Restart, NewProcess, WakeInv
<1>10. CASE UNCHANGED vars
      BY <1>10 DEF vars, WakeInv, rows, history
<1>. QED BY <1>1, <1>2, <1>3, <1>4, <1>5, <1>6, <1>7, <1>8, <1>9, <1>10 DEF Next, Publisher

(* Types and the invariant hold in every reachable state. *)
THEOREM Inductive == Spec => [](TypeOK /\ IInv /\ WakeInv)
<1>1. Init => WakeInv BY BoundAssumption DEF Init, WakeInv
<1>2. TypeOK /\ IInv /\ WakeInv /\ [Next]_vars => (TypeOK /\ IInv /\ WakeInv)'
      BY TypeStep, InvStep, WakeStep
<1>. QED BY InitInv, <1>1, <1>2, PTL DEF Spec

(* Every reachable state of the publisher is well typed.                    *)
THEOREM TypeCorrect == Spec => []TypeOK
  BY Inductive, PTL

(* The publisher shows the consumer events in commit order. *)
THEOREM OrderIsKept == Spec => []AttemptedInOrder
<1>1. IInv => AttemptedInOrder BY DEF IInv
<1>. QED BY Inductive, <1>1, PTL

(* Nothing is marked published that its handler did not take, and when the  *)
(* publisher sleeps with an empty channel whatever was not shown will be    *)
(* announced (Publisher.Notify, MarkPublished).                             *)
THEOREM NothingIsDropped == Spec => []NothingGoesMissing
<1>1. IInv /\ WakeInv => NothingGoesMissing
  BY DEF IInv, WakeInv, NothingGoesMissing, WakeUpsAreNotLost
<1>. QED BY Inductive, <1>1, PTL

-----------------------------------------------------------------------------
(* The audit trail *)

(* Retention removes a prefix of a chain that is in order. *)
SuffixInv == InOrder => \A s \in present : \A u \in 1..last : s < u => u \in present

(* A row whose predecessor is present names it. *)
LinkInv == \A s \in present : s - 1 \in present => prev[s] = s - 1

AuditInv == SuffixInv /\ LinkInv /\ GapsAreExplained

(* The initial state. *)
LEMMA AuditInitInv == AuditInit => AuditTypeOK /\ AuditInv
BY NumberAssumption DEF AuditInit, AuditTypeOK, AuditInv, SuffixInv, LinkInv, GapsAreExplained,
   Genesis, Seqs

(* What appending does to the table. *)
LEMMA AppendFacts ==
  ASSUME AuditTypeOK, NEW left \in SUBSET present, NEW t \in Actors,
         NEW k \in {"change", "audit.pruned"}, AppendRow(left, t, k)
  PROVE  /\ last' = last + 1 /\ last + 1 \in Seqs /\ last \in Nat
         /\ present' = left \cup {last + 1}
         /\ at' \in [Seqs -> Nat] /\ prev' \in [Seqs -> Nat]
         /\ kind' \in [Seqs -> {"change", "audit.pruned"}]
         /\ kind'[last + 1] = k
         /\ \A s \in Seqs : s # last + 1 => /\ at'[s] = at[s]
                                            /\ prev'[s] = prev[s]
                                            /\ kind'[s] = kind[s]
         /\ last \in left => prev'[last + 1] = last
<1> USE NumberAssumption
<1>1. last' = last + 1 /\ last + 1 \in Seqs /\ last \in Nat /\ present' = left \cup {last + 1}
      BY DEF AppendRow, AuditTypeOK, Seqs
<1>2. PICK h \in 0..MaxRows : IsHead(left, h) /\ prev' = [prev EXCEPT ![last + 1] = h]
      BY DEF AppendRow
<1>3. last \in left => h = last
      BY <1>1, <1>2 DEF IsHead, Newest, AuditTypeOK, Genesis
<1>4. at' = [at EXCEPT ![last + 1] = readAt[t]] /\ kind' = [kind EXCEPT ![last + 1] = k]
      BY DEF AppendRow
<1>5. prev' \in [Seqs -> Nat] /\ prev'[last + 1] = h
      BY <1>1, <1>2 DEF AuditTypeOK
<1>6. at' \in [Seqs -> Nat] /\ kind' \in [Seqs -> {"change", "audit.pruned"}] /\ kind'[last + 1] = k
      BY <1>1, <1>4 DEF AuditTypeOK
<1>7. \A s \in Seqs : s # last + 1 => /\ at'[s] = at[s] /\ prev'[s] = prev[s] /\ kind'[s] = kind[s]
      BY <1>1, <1>2, <1>4 DEF AuditTypeOK
<1>. QED BY <1>1, <1>3, <1>5, <1>6, <1>7

(* Appending keeps the order and the links if it keeps a suffix. *)
LEMMA AppendKeeps ==
  ASSUME AuditTypeOK, AuditInv, NEW left \in SUBSET present, NEW t \in Actors,
         NEW k \in {"change", "audit.pruned"}, AppendRow(left, t, k),
         InOrder => \A s \in left : \A u \in 1..last : s < u => u \in left,
         left = present \/ k = "audit.pruned"
  PROVE  AuditInv'
<1> USE NumberAssumption
<1>1. /\ last' = last + 1 /\ last + 1 \in Seqs /\ last \in Nat
      /\ present' = left \cup {last + 1}
      /\ kind'[last + 1] = k
      /\ \A s \in Seqs : s # last + 1 => /\ at'[s] = at[s]
                                         /\ prev'[s] = prev[s]
                                         /\ kind'[s] = kind[s]
      /\ last \in left => prev'[last + 1] = last
      BY AppendFacts
<1>2. left \subseteq 1..last /\ 1..last \subseteq Seqs /\ last + 1 \notin 1..last
      BY <1>1 DEF AuditTypeOK, Seqs
<1>3. InOrder' => InOrder
      BY <1>1, <1>2 DEF InOrder
<1>4. SuffixInv'
  <2> SUFFICES ASSUME InOrder', NEW s \in present', NEW u \in 1..last', s < u
               PROVE  u \in present'
      BY DEF SuffixInv
  <2>1. CASE u = last + 1 BY <2>1, <1>1
  <2>2. CASE u # last + 1
    <3>1. u \in 1..last /\ s \in left BY <2>2, <1>1, <1>2
    <3>. QED BY <3>1, <1>1, <1>3
  <2>. QED BY <2>1, <2>2
<1>5. LinkInv'
  <2> SUFFICES ASSUME NEW s \in present', s - 1 \in present' PROVE prev'[s] = s - 1
      BY DEF LinkInv
  <2>1. CASE s = last + 1
    <3>1. s - 1 = last BY <2>1, <1>1
    <3>2. last \in left BY <3>1, <1>1
    <3>. QED BY <3>1, <3>2, <2>1, <1>1
  <2>2. CASE s # last + 1
    <3>1. s \in left /\ s \in 1..last BY <2>2, <1>1, <1>2
    <3>2. s - 1 \in left BY <3>1, <1>1, <1>2
    <3>3. prev[s] = s - 1 BY <3>1, <3>2 DEF AuditInv, LinkInv
    <3>. QED BY <3>1, <3>3, <2>2, <1>1, <1>2
  <2>. QED BY <2>1, <2>2
<1>6. GapsAreExplained'
  <2> SUFFICES ASSUME NEW s \in 1..last', s \notin present'
               PROVE  \E u \in present' : s < u /\ kind'[u] = "audit.pruned"
      BY DEF GapsAreExplained
  <2>1. s \in 1..last /\ s \notin left BY <1>1, <1>2
  <2>2. CASE k = "audit.pruned" BY <2>1, <2>2, <1>1
  <2>3. CASE left = present
    <3>1. PICK u \in present : s < u /\ kind[u] = "audit.pruned"
          BY <2>1, <2>3 DEF AuditInv, GapsAreExplained
    <3>. QED BY <3>1, <2>3, <1>1, <1>2
  <2>. QED BY <2>2, <2>3
<1>. QED BY <1>4, <1>5, <1>6 DEF AuditInv

(* Every step keeps the variables in their types. *)
LEMMA AuditTypeStep == AuditTypeOK /\ [AuditNext]_auditVars => AuditTypeOK'
<1> SUFFICES ASSUME AuditTypeOK, [AuditNext]_auditVars PROVE AuditTypeOK'
    OBVIOUS
<1> USE NumberAssumption, ActorAssumption
<1>1. ASSUME NEW t \in Actors, Begin(t) PROVE AuditTypeOK'
      BY <1>1 DEF Begin, AuditTypeOK, trail
<1>2. ASSUME NEW t \in Actors, NEW left \in SUBSET present, NEW k \in {"change", "audit.pruned"},
             AppendRow(left, t, k), Done(t), UNCHANGED clock
      PROVE  AuditTypeOK'
  <2>1. /\ last' \in 0..MaxRows /\ present' \subseteq 1..last'
    <3>1. last' = last + 1 /\ last + 1 \in Seqs /\ last \in Nat /\ present' = left \cup {last + 1}
          BY <1>2, AppendFacts
    <3>2. left \subseteq 1..last BY DEF AuditTypeOK
    <3>. QED BY <3>1, <3>2 DEF Seqs
  <2>2. /\ at' \in [Seqs -> Nat] /\ prev' \in [Seqs -> Nat]
        /\ kind' \in [Seqs -> {"change", "audit.pruned"}]
        BY <1>2, AppendFacts
  <2>3. /\ txn' \in [Actors -> {"idle", "waiting"}]
        /\ readAt' \in [Actors -> Nat]
        /\ cutoff' \in [Pruners -> Int]
        BY <1>2 DEF Done, AuditTypeOK
  <2>. QED BY <1>2, <2>1, <2>2, <2>3 DEF AuditTypeOK
<1>3. ASSUME NEW t \in Actors, CommitChange(t) PROVE AuditTypeOK' BY <1>2, <1>3 DEF CommitChange
<1>4. ASSUME NEW t \in Actors, Prune(t) PROVE AuditTypeOK' BY <1>2, <1>4 DEF Prune
<1>5. ASSUME NEW t \in Actors, Rollback(t) \/ NothingToPrune(t) PROVE AuditTypeOK'
  <2>1. Done(t) /\ UNCHANGED <<trail, clock>> BY <1>5 DEF Rollback, NothingToPrune
  <2>2. /\ txn' \in [Actors -> {"idle", "waiting"}]
        /\ readAt' \in [Actors -> Nat]
        /\ cutoff' \in [Pruners -> Int]
        BY <2>1 DEF Done, AuditTypeOK
  <2>. QED BY <2>1, <2>2 DEF AuditTypeOK, trail
<1>6. CASE AuditTick BY <1>6 DEF AuditTick, AuditTypeOK, trail
<1>7. CASE UNCHANGED auditVars BY <1>7 DEF auditVars, trail, AuditTypeOK
<1>. QED BY <1>1, <1>3, <1>4, <1>5, <1>6, <1>7 DEF AuditNext

(* Every step keeps the invariant. *)
LEMMA AuditInvStep == AuditTypeOK /\ AuditInv /\ [AuditNext]_auditVars => AuditInv'
<1> SUFFICES ASSUME AuditTypeOK, AuditInv, [AuditNext]_auditVars PROVE AuditInv'
    OBVIOUS
<1> USE NumberAssumption
<1>1. ASSUME NEW t \in Actors, CommitChange(t) PROVE AuditInv'
  <2>1. InOrder => \A s \in present : \A u \in 1..last : s < u => u \in present
        BY DEF AuditInv, SuffixInv
  <2>. QED BY <1>1, <2>1, AppendKeeps DEF CommitChange
<1>2. ASSUME NEW t \in Actors, Prune(t) PROVE AuditInv'
  <2>1. ASSUME InOrder, NEW s \in present \ Old(t), NEW u \in 1..last, s < u
        PROVE  u \in present \ Old(t)
    <3>1. u \in present BY <2>1 DEF AuditInv, SuffixInv
    <3>2. s \in 1..last BY DEF AuditTypeOK
    <3>3. at[s] <= at[u] BY <2>1, <3>2 DEF InOrder
    <3>4. at[s] \in Nat /\ at[u] \in Nat /\ cutoff[t] \in Int
          BY <1>2, <3>2, <2>1 DEF AuditTypeOK, Seqs, Prune
    <3>5. ~(at[s] < cutoff[t]) BY DEF Old
    <3>. QED BY <3>1, <3>3, <3>4, <3>5 DEF Old
  <2>. QED BY <1>2, <2>1, AppendKeeps DEF Prune
<1>3. CASE UNCHANGED trail
      BY <1>3 DEF trail, AuditInv, SuffixInv, LinkInv, InOrder, GapsAreExplained
<1>. QED BY <1>1, <1>2, <1>3 DEF AuditNext, Begin, Rollback, NothingToPrune, AuditTick, auditVars

(* Types and the invariant hold in every reachable state. *)
THEOREM AuditInductive == AuditSpec => [](AuditTypeOK /\ AuditInv)
<1>1. AuditTypeOK /\ AuditInv /\ [AuditNext]_auditVars => (AuditTypeOK /\ AuditInv)'
      BY AuditTypeStep, AuditInvStep
<1>. QED BY AuditInitInv, <1>1, PTL DEF AuditSpec

(* Every reachable state of the trail is well typed.                        *)
THEOREM AuditTypeCorrect == AuditSpec => []AuditTypeOK
  BY AuditInductive, PTL

(* A chain committed in the order of its times verifies after any prunes. *)
THEOREM PruningKeepsOrderedChains == AuditSpec => []OrderedChainVerifies
<1>1. AuditTypeOK /\ AuditInv => OrderedChainVerifies
  <2> SUFFICES ASSUME AuditTypeOK, AuditInv, InOrder,
                      NEW s \in present, NEW p \in present, p < s,
                      \A u \in present : u < s => u <= p
               PROVE  prev[s] = p
      BY DEF OrderedChainVerifies, Verifies, Breaks
  <2>1. s \in 1..last /\ p \in 1..last /\ last \in Nat BY NumberAssumption DEF AuditTypeOK
  <2>2. p < s - 1 => s - 1 \in present BY <2>1 DEF AuditInv, SuffixInv
  <2>3. p = s - 1 BY <2>1, <2>2
  <2>. QED BY <2>3 DEF AuditInv, LinkInv
<1>. QED BY AuditInductive, <1>1, PTL

(* Every missing row is older than a row that records a prune. *)
THEOREM GapsHaveReasons == AuditSpec => []GapsAreExplained
<1>1. AuditInv => GapsAreExplained BY DEF AuditInv
<1>. QED BY AuditInductive, <1>1, PTL

-----------------------------------------------------------------------------
(* Proposals *)

(* A call holds no time from the future. *)
StampInv == \A c \in Calls : stamp[c] <= hour

(* A row keeps its key's record alive for a window after its creation: the  *)
(* record is only replaced after it expires, by one that expires later.     *)
RecordInv == \A a \in Calls : status[a] # "absent"
               => /\ createdAt[a] <= hour
                  /\ record[key[a]] # Nil
                  /\ createdAt[a] + TTL <= record[key[a]].expiresAt

(* An identifier with a row belongs to a call that has returned. *)
DoneInv == \A c \in Calls : status[c] # "absent" => stage[c] = "done"

ProposeInv == StampInv /\ RecordInv /\ DoneInv /\ OnePerWindow /\ OneLivePerIntent

(* What a record says of its operation: it exists, it was made under that   *)
(* key, and the hash is of its body.                                        *)
Names(r, k) == r.op \in Rows /\ key[r.op] = k /\ r.hash = payload[r.op]

(* The records of the table and the copies calls hold are true, and an      *)
(* answer is the operation of the caller's own key and body.                *)
AnswerInv ==
  /\ \A k \in Key : record[k] # Nil => Names(record[k], k)
  /\ \A a \in Rows : createdAt[record[key[a]].op] >= createdAt[a]
  /\ \A c \in Calls : seen[c] # Nil => Names(seen[c], key[c])
  /\ \A c \in Calls : result[c] # Nil => stage[c] = "done"
  /\ AnswerIsWhatWasAsked

(* The initial state is well typed and satisfies the invariant. *)
LEMMA ProposeInitInv == ProposeInit => ProposeTypeOK /\ ProposeInv
BY TimeAssumption DEF ProposeInit, ProposeTypeOK, ProposeInv, StampInv, RecordInv, DoneInv,
   OnePerWindow,
   OneLivePerIntent, Rows, Live

(* Every step keeps the variables in their types. *)
LEMMA ProposeTypeStep == ProposeTypeOK /\ DoneInv /\ [ProposeNext]_proposeVars => ProposeTypeOK'
<1> SUFFICES ASSUME ProposeTypeOK, DoneInv, [ProposeNext]_proposeVars PROVE ProposeTypeOK'
    OBVIOUS
<1> USE NameAssumption, TimeAssumption
<1>1. ASSUME NEW c \in Calls, NEW k \in Key, NEW p \in Payloads, Look(c, k, p) PROVE ProposeTypeOK'
      BY <1>1 DEF Look, ProposeTypeOK, table, Key, DoneInv
<1>2. ASSUME NEW c \in Calls, Answer(c) PROVE ProposeTypeOK'
  <2>1. seen[c].op \in Calls
        BY <1>2 DEF Answer, Replay, ProposeTypeOK, Record
  <2>. QED BY <1>2, <2>1 DEF Answer, Return, ProposeTypeOK, table
<1>3. ASSUME NEW c \in Calls, Stamp(c) PROVE ProposeTypeOK'
      BY <1>3 DEF Stamp, ProposeTypeOK, table
<1>4. ASSUME NEW c \in Calls, Insert(c) PROVE ProposeTypeOK'
  <2>1. [op |-> c, hash |-> payload[c], expiresAt |-> hour + TTL] \in Record
        BY <1>4 DEF Insert, ProposeTypeOK, Record
  <2>. QED BY <1>4, <2>1 DEF Insert, Return, ProposeTypeOK, Live
<1>5. ASSUME NEW c \in Calls, Conflict(c) PROVE ProposeTypeOK'
      BY <1>5 DEF Conflict, Return, ProposeTypeOK, table
<1>6. ASSUME NEW c \in Calls, Abandon(c) PROVE ProposeTypeOK'
      BY <1>6 DEF Abandon, Return, ProposeTypeOK, table
<1>7. ASSUME NEW c \in Calls, NEW to \in {"terminal", "indeterminate"}, Move(c, to)
      PROVE ProposeTypeOK'
      BY <1>7 DEF Move, Moves, ProposeTypeOK, Live
<1>8. CASE ProposeTick BY <1>8 DEF ProposeTick, ProposeTypeOK, table
<1>9. CASE UNCHANGED proposeVars BY <1>9 DEF proposeVars, table, ProposeTypeOK
<1>. QED BY <1>1, <1>2, <1>3, <1>4, <1>5, <1>6, <1>7, <1>8, <1>9 DEF ProposeNext

(* A step that leaves the tables, the rows' keys and the clock alone keeps  *)
(* everything the invariant says of rows.                                   *)
LEMMA RowsKept ==
  ASSUME ProposeTypeOK, ProposeInv, UNCHANGED <<table, hour>>,
         \A a \in Calls : status[a] # "absent" => key'[a] = key[a] /\ payload'[a] = payload[a]
  PROVE  RecordInv' /\ OnePerWindow' /\ OneLivePerIntent'
BY DEF ProposeTypeOK, ProposeInv, RecordInv, OnePerWindow, OneLivePerIntent, SameIntent, Rows, table

(* Inserting a row keeps the windows apart: its record had expired when the *)
(* call stamped its clock.                                                  *)
LEMMA InsertKeeps ==
  ASSUME ProposeTypeOK, ProposeInv, NEW c \in Calls, Insert(c)
  PROVE  ProposeInv'
<1> USE TimeAssumption
<1>1. /\ status[c] = "absent"
      /\ key[c] \in Key
      BY DEF Insert, ProposeInv, DoneInv, ProposeTypeOK
<1>2. \A a \in Calls : status[a] # "absent" /\ key[a] = key[c] => createdAt[a] + TTL <= hour
      BY <1>1 DEF Insert, RecordYields, ProposeInv, RecordInv, StampInv, ProposeTypeOK, Record
<1>3. \A a \in Calls : status'[a] # "absent" => a = c \/ status[a] # "absent"
      BY DEF Insert, ProposeTypeOK
<1>4. StampInv' BY DEF Insert, Return, ProposeInv, StampInv, ProposeTypeOK
<1>5. DoneInv' BY DEF Insert, Return, ProposeInv, DoneInv, ProposeTypeOK
<1>6. RecordInv'
  <2> SUFFICES ASSUME NEW a \in Calls, status'[a] # "absent"
               PROVE  /\ createdAt'[a] <= hour'
                      /\ record'[key'[a]] # Nil
                      /\ createdAt'[a] + TTL <= record'[key'[a]].expiresAt
      BY DEF RecordInv
  <2>0. /\ record'[key[c]] = [op |-> c, hash |-> payload[c], expiresAt |-> hour + TTL]
        /\ key' = key /\ hour' = hour
        /\ createdAt' = [createdAt EXCEPT ![c] = hour]
        BY <1>1 DEF Insert, ProposeTypeOK
  <2>a. record'[key[c]] # Nil /\ record'[key[c]].expiresAt = hour + TTL
        <3>1. record'[key[c]] \in Record
              BY <2>0, <1>1 DEF ProposeTypeOK, Record, Insert
        <3>. QED BY <2>0, <3>1, NilAssumption
  <2>1. CASE a = c BY <2>1, <2>0, <2>a DEF ProposeTypeOK
  <2>2. CASE a # c /\ key[a] = key[c]
        BY <2>2, <2>0, <2>a, <1>3 DEF ProposeTypeOK, ProposeInv, RecordInv
  <2>3. CASE a # c /\ key[a] # key[c]
        BY <2>3, <2>0, <1>3 DEF ProposeTypeOK, ProposeInv, RecordInv, Insert
  <2>. QED BY <2>1, <2>2, <2>3
<1>7. OnePerWindow'
  <2> SUFFICES ASSUME NEW a \in Rows', NEW b \in Rows', a # b, key'[a] = key'[b]
               PROVE  createdAt'[a] + TTL <= createdAt'[b] \/ createdAt'[b] + TTL <= createdAt'[a]
      BY DEF OnePerWindow
  <2>0. key' = key /\ createdAt' = [createdAt EXCEPT ![c] = hour]
        BY DEF Insert
  <2>1. CASE a = c BY <2>0, <2>1, <1>2, <1>3 DEF Rows, ProposeTypeOK
  <2>2. CASE b = c BY <2>0, <2>2, <1>2, <1>3 DEF Rows, ProposeTypeOK
  <2>3. CASE a # c /\ b # c BY <2>0, <2>3, <1>3 DEF Rows, ProposeTypeOK, ProposeInv, OnePerWindow
  <2>. QED BY <2>1, <2>2, <2>3
<1>8. OneLivePerIntent'
      BY <1>3 DEF Insert, IndexAdmits, SameIntent, ProposeInv, OneLivePerIntent, Rows, ProposeTypeOK
<1>. QED BY <1>4, <1>5, <1>6, <1>7, <1>8 DEF ProposeInv

(* A change of status keeps at most one live operation of an intent.        *)
LEMMA MoveKeeps ==
  ASSUME ProposeTypeOK, ProposeInv, NEW c \in Calls, NEW to \in {"terminal", "indeterminate"},
     Move(c, to)
  PROVE  ProposeInv'
<1>1. status[c] # "absent" BY DEF Move, Moves
<1>2. StampInv' /\ DoneInv' /\ RecordInv' /\ OnePerWindow'
      BY <1>1 DEF Move, ProposeInv, StampInv, DoneInv, RecordInv, OnePerWindow, Rows, ProposeTypeOK
<1>3. OneLivePerIntent'
      BY <1>1 DEF Move, IndexAdmits, SameIntent, ProposeInv, OneLivePerIntent, Rows,
         ProposeTypeOK, Live
<1>. QED BY <1>2, <1>3 DEF ProposeInv

(* Every step keeps the invariant. *)
LEMMA ProposeInvStep == ProposeTypeOK /\ ProposeInv /\ [ProposeNext]_proposeVars => ProposeInv'
<1> SUFFICES ASSUME ProposeTypeOK, ProposeInv, [ProposeNext]_proposeVars PROVE ProposeInv'
    OBVIOUS
<1> USE TimeAssumption
<1>1. ASSUME NEW c \in Calls, NEW k \in Key, NEW p \in Payloads, Look(c, k, p) PROVE ProposeInv'
  <2>1. \A a \in Calls : status[a] # "absent" => key'[a] = key[a] /\ payload'[a] = payload[a]
        BY <1>1 DEF Look, ProposeInv, DoneInv, ProposeTypeOK
  <2>2. RecordInv' /\ OnePerWindow' /\ OneLivePerIntent' BY <1>1, <2>1, RowsKept DEF Look, table
  <2>3. StampInv' /\ DoneInv' BY <1>1 DEF Look, ProposeInv, StampInv, DoneInv, ProposeTypeOK, table
  <2>. QED BY <2>2, <2>3 DEF ProposeInv
<1>2. ASSUME NEW c \in Calls, Answer(c) \/ Conflict(c) \/ Abandon(c) PROVE ProposeInv'
  <2>1. RecordInv' /\ OnePerWindow' /\ OneLivePerIntent'
        BY <1>2, RowsKept DEF Answer, Conflict, Abandon, Return
  <2>2. StampInv' /\ DoneInv'
        BY <1>2 DEF Answer, Conflict, Abandon, Return, ProposeInv, StampInv, DoneInv,
           ProposeTypeOK, table
  <2>. QED BY <2>1, <2>2 DEF ProposeInv
<1>3. ASSUME NEW c \in Calls, Stamp(c) PROVE ProposeInv'
  <2>1. RecordInv' /\ OnePerWindow' /\ OneLivePerIntent' BY <1>3, RowsKept DEF Stamp
  <2>2. StampInv' /\ DoneInv' BY <1>3 DEF Stamp, ProposeInv, StampInv, DoneInv, ProposeTypeOK, table
  <2>. QED BY <2>1, <2>2 DEF ProposeInv
<1>4. ASSUME NEW c \in Calls, Insert(c) PROVE ProposeInv' BY <1>4, InsertKeeps
<1>5. ASSUME NEW c \in Calls, NEW to \in {"terminal", "indeterminate"}, Move(c, to)
      PROVE ProposeInv'
      BY <1>5, MoveKeeps
<1>6. CASE ProposeTick
      BY <1>6 DEF ProposeTick, ProposeInv, StampInv, RecordInv, DoneInv, OnePerWindow,
         OneLivePerIntent,
         SameIntent, Rows, ProposeTypeOK, table
<1>7. CASE UNCHANGED proposeVars
      BY <1>7 DEF proposeVars, table, ProposeInv, StampInv, RecordInv, DoneInv, OnePerWindow,
         OneLivePerIntent, SameIntent, Rows
<1>. QED BY <1>1, <1>2, <1>3, <1>4, <1>5, <1>6, <1>7 DEF ProposeNext

(* A step that leaves the tables alone keeps the answers true, if what it   *)
(* makes a call read or return is.                                          *)
LEMMA AnswersKept ==
  ASSUME ProposeTypeOK, AnswerInv, NEW c \in Calls, UNCHANGED table,
         \A a \in Rows : key'[a] = key[a] /\ payload'[a] = payload[a],
         \A d \in Calls \ {c} : /\ key'[d] = key[d] /\ payload'[d] = payload[d]
                               /\ seen'[d] = seen[d] /\ result'[d] = result[d]
                                  /\ stage'[d] = stage[d],
         seen'[c] # Nil => Names(seen'[c], key'[c]),
         result'[c] # Nil => stage'[c] = "done",
         result'[c] \in Calls
           => result'[c] \in Rows /\ payload[result'[c]] = payload'[c] /\ key[result'[c]] = key'[c]
  PROVE  AnswerInv'
<1>1. Rows' = Rows /\ record' = record /\ createdAt' = createdAt
      BY DEF table, Rows
<1>2. ASSUME NEW r, NEW k, Names(r, k) PROVE Names(r, k)'
      BY <1>1, <1>2 DEF Names
<1>3. \A k \in Key : record'[k] # Nil => Names(record[k], k)'
      BY <1>1, <1>2 DEF AnswerInv
<1>4. \A a \in Rows' : createdAt'[record'[key'[a]].op] >= createdAt'[a]
      BY <1>1 DEF AnswerInv
<1>5. \A d \in Calls : seen'[d] # Nil => Names(seen'[d], key'[d])
      BY DEF AnswerInv
<1>6. \A d \in Calls : seen'[d] # Nil
        => seen'[d].op \in Rows' /\ key'[seen'[d].op] = key'[d]
           /\ seen'[d].hash = payload'[seen'[d].op]
      BY <1>1, <1>5 DEF Names
<1>7. \A d \in Calls : result'[d] # Nil => stage'[d] = "done"
      BY DEF AnswerInv
<1>8. AnswerIsWhatWasAsked'
  <2> SUFFICES ASSUME NEW d \in Calls, result'[d] \in Calls
               PROVE  /\ result'[d] \in Rows'
                      /\ payload'[result'[d]] = payload'[d]
                      /\ key'[result'[d]] = key'[d]
      BY DEF AnswerIsWhatWasAsked
  <2>1. /\ result'[d] \in Rows
        /\ payload[result'[d]] = payload'[d]
        /\ key[result'[d]] = key'[d]
        BY DEF AnswerInv, AnswerIsWhatWasAsked
  <2>. QED BY <1>1, <2>1
<1>. QED BY <1>1, <1>3, <1>4, <1>6, <1>7, <1>8 DEF AnswerInv, Names

(* Inserting a row makes the record of its key name it, and every other     *)
(* record goes on naming its own.                                           *)
LEMMA InsertAnswers ==
  ASSUME ProposeTypeOK, ProposeInv, AnswerInv, NEW c \in Calls, Insert(c)
  PROVE  AnswerInv'
<1> USE TimeAssumption
<1>1. /\ status[c] = "absent" /\ key[c] \in Key /\ c \notin Rows
      BY DEF Insert, ProposeInv, DoneInv, ProposeTypeOK, Rows
<1>2. /\ Rows' = Rows \cup {c} /\ key' = key /\ payload' = payload
      /\ createdAt' = [createdAt EXCEPT ![c] = hour]
      /\ record' = [record EXCEPT ![key[c]] =
                      [op |-> c, hash |-> payload[c], expiresAt |-> hour + TTL]]
      /\ seen' = [seen EXCEPT ![c] = Nil] /\ result' = [result EXCEPT ![c] = c]
      /\ stage' = [stage EXCEPT ![c] = "done"]
      BY DEF Insert, Return, Rows, ProposeTypeOK, Live
<1>3. \A k \in Key : record'[k] # Nil
        => record'[k].op \in Rows' /\ key'[record'[k].op] = k
           /\ record'[k].hash = payload'[record'[k].op]
  <2> SUFFICES ASSUME NEW k \in Key, record'[k] # Nil
               PROVE  record'[k].op \in Rows' /\ key'[record'[k].op] = k
                      /\ record'[k].hash = payload'[record'[k].op]
      OBVIOUS
  <2>1. CASE k = key[c]
        BY <2>1, <1>2 DEF ProposeTypeOK
  <2>2. CASE k # key[c]
    <3>1. record'[k] = record[k] BY <2>2, <1>2 DEF ProposeTypeOK
    <3>2. Names(record[k], k) BY <3>1 DEF AnswerInv
    <3>. QED BY <3>1, <3>2, <1>2 DEF Names
  <2>. QED BY <2>1, <2>2
<1>4. \A a \in Rows' : createdAt'[record'[key'[a]].op] >= createdAt'[a]
  <2> SUFFICES ASSUME NEW a \in Rows'
               PROVE  createdAt'[record'[key'[a]].op] >= createdAt'[a]
      OBVIOUS
  <2>0. a \in Calls /\ createdAt' \in [Calls -> Int] /\ hour \in Int
        BY <1>2 DEF Rows, ProposeTypeOK
  <2>1. CASE key[a] = key[c]
    <3>1. record'[key'[a]].op = c BY <2>1, <1>1, <1>2 DEF ProposeTypeOK
    <3>2. createdAt'[c] = hour BY <1>2 DEF ProposeTypeOK
    <3>3. a # c => createdAt[a] <= hour /\ createdAt'[a] = createdAt[a]
          BY <1>2 DEF ProposeInv, RecordInv, Rows, ProposeTypeOK
    <3>. QED BY <3>1, <3>2, <3>3, <2>0
  <2>2. CASE key[a] # key[c]
    <3>1. a \in Rows /\ a # c BY <2>2, <1>2
    <3>2. key[a] \in Key /\ record[key[a]] # Nil
          BY <3>1 DEF ProposeInv, RecordInv, Rows, ProposeTypeOK
    <3>3. record'[key'[a]] = record[key[a]] BY <2>2, <3>2, <1>2 DEF ProposeTypeOK
    <3>4. record[key[a]].op \in Rows BY <3>2 DEF AnswerInv, Names
    <3>5. createdAt'[record[key[a]].op] = createdAt[record[key[a]].op]
       /\ createdAt'[a] = createdAt[a]
          BY <3>1, <3>4, <1>1, <1>2 DEF ProposeTypeOK, Rows
    <3>6. createdAt[record[key[a]].op] >= createdAt[a]
          BY <3>1 DEF AnswerInv
    <3>. QED BY <3>3, <3>5, <3>6
  <2>. QED BY <2>1, <2>2
<1>5. \A d \in Calls : seen'[d] # Nil
        => seen'[d].op \in Rows' /\ key'[seen'[d].op] = key'[d]
           /\ seen'[d].hash = payload'[seen'[d].op]
      BY <1>2 DEF AnswerInv, Names, ProposeTypeOK
<1>6. \A d \in Calls : result'[d] # Nil => stage'[d] = "done"
      BY <1>2 DEF AnswerInv, ProposeTypeOK
<1>7. AnswerIsWhatWasAsked'
      BY <1>2 DEF AnswerInv, AnswerIsWhatWasAsked, ProposeTypeOK
<1>. QED BY <1>3, <1>4, <1>5, <1>6, <1>7 DEF AnswerInv, Names

(* Every step keeps the answers true. *)
LEMMA AnswerStep ==
  ProposeTypeOK /\ ProposeInv /\ AnswerInv /\ [ProposeNext]_proposeVars => AnswerInv'
<1> SUFFICES ASSUME ProposeTypeOK, ProposeInv, AnswerInv, [ProposeNext]_proposeVars PROVE AnswerInv'
    OBVIOUS
<1> USE NameAssumption, ConflictAssumption
<1>1. ASSUME NEW c \in Calls, NEW k \in Key, NEW p \in Payloads, Look(c, k, p) PROVE AnswerInv'
  <2>1. c \notin Rows /\ result[c] = Nil
        BY <1>1 DEF Look, ProposeInv, DoneInv, AnswerInv, Rows
  <2>2. /\ UNCHANGED table
        /\ key' = [key EXCEPT ![c] = k] /\ payload' = [payload EXCEPT ![c] = p]
        /\ seen' = [seen EXCEPT ![c] = record[k]] /\ stage' = [stage EXCEPT ![c] = "looked"]
        /\ result' = result
        BY <1>1 DEF Look
  <2>3. \A a \in Rows : key'[a] = key[a] /\ payload'[a] = payload[a]
        BY <2>1, <2>2 DEF ProposeTypeOK, Rows
  <2>4. \A d \in Calls \ {c} : /\ key'[d] = key[d] /\ payload'[d] = payload[d]
                               /\ seen'[d] = seen[d] /\ result'[d] = result[d]
                                  /\ stage'[d] = stage[d]
        BY <2>2 DEF ProposeTypeOK
  <2>5. seen'[c] = record[k] /\ key'[c] = k /\ result'[c] = Nil
        BY <2>1, <2>2 DEF ProposeTypeOK
  <2>6. seen'[c] # Nil => Names(seen'[c], key'[c])
        BY <2>5 DEF AnswerInv
  <2>7. result'[c] \notin Calls
        BY <2>5
  <2>. QED BY <2>2, <2>3, <2>4, <2>5, <2>6, <2>7, AnswersKept
<1>2. ASSUME NEW c \in Calls, Answer(c) \/ Conflict(c) \/ Abandon(c) PROVE AnswerInv'
  <2>1. UNCHANGED <<table, key, payload>>
        BY <1>2 DEF Answer, Conflict, Abandon
  <2>2. PICK r \in {Nil, "conflict", seen[c].op} :
          /\ Return(c, r)
          /\ r = seen[c].op => r \in {Nil, "conflict"} \/ (seen[c] # Nil /\ SameBody(c))
        BY <1>2 DEF Answer, Conflict, Abandon, Replay
  <2>3. \A d \in Calls \ {c} : seen'[d] = seen[d] /\ result'[d] = result[d] /\ stage'[d] = stage[d]
        BY <2>2 DEF Return, ProposeTypeOK
  <2>4. seen'[c] = Nil /\ result'[c] = r /\ stage'[c] = "done"
        BY <2>2 DEF Return, ProposeTypeOK
  <2>5. result'[c] \in Calls => seen[c] # Nil /\ SameBody(c) /\ r = seen[c].op
        BY <2>2, <2>4
  <2>6. result'[c] \in Calls
          => result'[c] \in Rows /\ payload[result'[c]] = payload'[c] /\ key[result'[c]] = key'[c]
        BY <2>1, <2>4, <2>5 DEF AnswerInv, Names, SameBody
  <2>. QED BY <2>1, <2>3, <2>4, <2>6, AnswersKept
<1>3. ASSUME NEW c \in Calls, Stamp(c) PROVE AnswerInv'
  <2>1. /\ UNCHANGED <<table, key, payload, seen, result>>
        /\ result[c] = Nil
        /\ \A d \in Calls \ {c} : stage'[d] = stage[d]
        BY <1>3 DEF Stamp, AnswerInv, ProposeTypeOK
  <2>2. seen'[c] # Nil => Names(seen'[c], key'[c])
        BY <2>1 DEF AnswerInv
  <2>. QED BY <2>1, <2>2, AnswersKept
<1>4. ASSUME NEW c \in Calls, Insert(c) PROVE AnswerInv'
      BY <1>4, InsertAnswers
<1>5. ASSUME NEW c \in Calls, NEW to \in {"terminal", "indeterminate"}, Move(c, to) PROVE AnswerInv'
  <2>1. Rows' = Rows /\ UNCHANGED <<createdAt, record, stage, key, payload, seen, result>>
        BY <1>5 DEF Move, Moves, Rows, ProposeTypeOK
  <2>. QED BY <2>1 DEF AnswerInv, Names, AnswerIsWhatWasAsked
<1>6. CASE ProposeTick \/ UNCHANGED proposeVars
  <2>1. Rows' = Rows /\ UNCHANGED <<createdAt, record, stage, key, payload, seen, result>>
        BY <1>6 DEF ProposeTick, proposeVars, table, Rows
  <2>. QED BY <2>1 DEF AnswerInv, Names, AnswerIsWhatWasAsked
<1>. QED BY <1>1, <1>2, <1>3, <1>4, <1>5, <1>6 DEF ProposeNext

(* Types and the invariants hold in every reachable state. *)
THEOREM ProposeInductive == ProposeSpec => [](ProposeTypeOK /\ ProposeInv /\ AnswerInv)
<1>1. ProposeInit => AnswerInv
      BY NameAssumption DEF ProposeInit, AnswerInv, Rows, AnswerIsWhatWasAsked
<1>2. ProposeTypeOK /\ ProposeInv /\ AnswerInv /\ [ProposeNext]_proposeVars
      => (ProposeTypeOK /\ ProposeInv /\ AnswerInv)'
      BY ProposeTypeStep, ProposeInvStep, AnswerStep DEF ProposeInv
<1>. QED BY ProposeInitInv, <1>1, <1>2, PTL DEF ProposeSpec

(* Every reachable state of the proposals is well typed.                    *)
THEOREM ProposeTypeCorrect == ProposeSpec => []ProposeTypeOK
  BY ProposeInductive, PTL

(* However many calls race, retry or are abandoned, two operations of one   *)
(* key are created at least a window apart, and one intent never has two    *)
(* live operations.                                                         *)
THEOREM ProposalsCollapse == ProposeSpec => []RepeatsCollapse
<1>1. ProposeInv => RepeatsCollapse BY DEF ProposeInv, RepeatsCollapse
<1>. QED BY ProposeInductive, <1>1, PTL

(* Whoever is answered with an operation is answered with their own, and    *)
(* the record of a key names the newest operation under it.                 *)
THEOREM AnswersAreTrue == ProposeSpec => []AnswersAreTheirOwn
<1>1. ProposeTypeOK /\ ProposeInv /\ AnswerInv => AnswersAreTheirOwn
  <2> SUFFICES ASSUME ProposeTypeOK, ProposeInv, AnswerInv PROVE AnswersAreTheirOwn
      OBVIOUS
  <2>1. \A a \in Rows : key[a] \in Key /\ record[key[a]] # Nil
        BY DEF ProposeInv, RecordInv, Rows, ProposeTypeOK
  <2>. QED BY <2>1 DEF AnswersAreTheirOwn, RecordNamesNewest, AnswerInv, Names
<1>. QED BY ProposeInductive, <1>1, PTL
=============================================================================
