------------------------------- MODULE Outbox -------------------------------
(***************************************************************************)
(* The outbox table and the publisher that drains it.  Every state change  *)
(* commits a row; the writer then calls Notify, which fills a channel of   *)
(* one slot.  The publisher drains once at startup, then on every poll and *)
(* every notification, one batch at a time, and once more when it is told  *)
(* to stop.  An event is its seq.                                          *)
(*                                                                         *)
(* A retry time is modelled by how far away it still is, so the clock is   *)
(* not bounded.                                                            *)
(***************************************************************************)
EXTENDS Integers, FiniteSets

CONSTANTS
  BatchSize, BaseBackoff, MaxBackoff,
  MaxEvents,   \* bound: rows ever committed
  MaxFaults    \* bound: handler failures, store errors, crashes, shutdowns

ASSUME ConfigAssumption == /\ BatchSize \in Nat \ {0}
                           /\ BaseBackoff \in Nat \ {0}
                           /\ MaxBackoff \in Nat \ {0}
ASSUME BoundAssumption == MaxEvents \in Nat /\ MaxFaults \in Nat

VARIABLES
  \* outbox_events
  committed,   \* the last seq
  subject, published, attempts,
  wait,        \* time until next_attempt_at, 0 when it has passed
  \* the process
  owed,        \* rows whose writer has not called Notify yet
  slot,        \* the notification channel
  pc, batch,   \* the publisher and the rest of its batch
  ctx,         \* its context
  unread,      \* whether its last read failed, or filled the batch
  \* history
  tried,       \* events handed to the handler at least once
  handled,     \* events the handler took
  faults

rows == <<committed, subject, published, attempts, wait>>
history == <<tried, handled>>
vars == <<rows, owed, slot, pc, batch, ctx, unread, history, faults>>

Events == 1..MaxEvents

TypeOK ==
  /\ committed \in 0..MaxEvents
  /\ subject \in [Events -> {"approved", "other"}]
  /\ published \in [Events -> {"no", "yes"}]
  /\ attempts \in [Events -> Nat]
  /\ wait \in [Events -> Nat]
  /\ owed \subseteq Events
  /\ slot \in {"empty", "full"}
  /\ pc \in {"start", "waiting", "draining", "marking", "failing", "stopped"}
  /\ batch \subseteq 1..committed
  /\ ctx \in {"live", "cancelled", "final", "expired"}
  /\ unread \in {"no", "yes"}
  /\ tried \in [Events -> {"no", "yes"}]
  /\ handled \in [Events -> {"no", "yes"}]
  /\ faults \in Nat
  /\ pc \in {"marking", "failing"} => batch # {}

Init ==
  /\ committed = 0
  /\ subject = [e \in Events |-> "other"]
  /\ published = [e \in Events |-> "no"]
  /\ attempts = [e \in Events |-> 0]
  /\ wait = [e \in Events |-> 0]
  /\ owed = {}
  /\ slot = "empty"
  /\ pc = "start"
  /\ batch = {}
  /\ ctx = "live"
  /\ unread = "no"
  /\ tried = [e \in Events |-> "no"]
  /\ handled = [e \in Events |-> "no"]
  /\ faults = 0

Fault == faults < MaxFaults /\ faults' = faults + 1

-----------------------------------------------------------------------------
(* Writers *)

(* enqueue, inside the transaction of a state change. *)
Commit(s) ==
  /\ pc # "stopped"
  /\ committed < MaxEvents
  /\ committed' = committed + 1
  /\ subject' = [subject EXCEPT ![committed + 1] = s]
  /\ owed' = owed \cup {committed + 1}
  /\ UNCHANGED <<published, attempts, wait, slot, pc, batch, ctx, unread, history, faults>>

(* Never blocks: a full channel already holds a wake-up. *)
Notify(e) ==
  /\ e \in owed
  /\ owed' = owed \ {e}
  /\ slot' = "full"
  /\ UNCHANGED <<rows, pc, batch, ctx, unread, history, faults>>

-----------------------------------------------------------------------------
(* The publisher *)

Alive == ctx \in {"live", "final"}

(* Mutant of Due: an event that failed once is not looked for.             *)
MutantDue == {e \in 1..committed : published[e] = "no" /\ wait[e] = 0 /\ attempts[e] = 0}

(* Pending: unpublished rows whose retry time has come, oldest first, up to *)
(* the limit.                                                               *)
Due == {e \in 1..committed : published[e] = "no" /\ wait[e] = 0}

(* Mutant of Pending: the newest due events are read first.                 *)
MutantPending == {e \in Due : Cardinality({d \in Due : d >= e}) <= BatchSize}

Pending == {e \in Due : Cardinality({d \in Due : d <= e}) <= BatchSize}

(* drain begins: the batch is read, or the read fails, as it does under a   *)
(* cancelled context.                                                       *)
Drain(alive) ==
  \/ /\ alive
     /\ batch' = Pending
     /\ pc' = "draining"
     /\ unread' = IF Cardinality(Pending) = BatchSize THEN "yes" ELSE "no"
     /\ UNCHANGED faults
  \/ /\ IF alive THEN Fault ELSE UNCHANGED faults
     /\ pc' = "draining"
     /\ unread' = "yes"
     /\ UNCHANGED batch

Start == /\ pc = "start"
         /\ Drain(Alive)
         /\ UNCHANGED <<rows, owed, slot, ctx, history>>

Poll == /\ pc = "waiting"
        /\ Drain(Alive)
        /\ UNCHANGED <<rows, owed, slot, ctx, history>>

Wake == /\ pc = "waiting"
        /\ slot = "full"
        /\ slot' = "empty"
        /\ Drain(Alive)
        /\ UNCHANGED <<rows, owed, ctx, history>>

(* finalDrain, under a context of its own with a deadline. *)
Final == /\ pc = "waiting"
         /\ ctx = "cancelled"
         /\ ctx' = "final"
         /\ Drain(TRUE)
         /\ UNCHANGED <<rows, owed, slot, history>>

(* The batch is done, or the context ended before its next event. *)
Finish ==
  /\ pc = "draining"
  /\ batch = {} \/ ~Alive
  /\ batch' = {}
  /\ pc' = IF ctx \in {"final", "expired"} THEN "stopped" ELSE "waiting"
  /\ UNCHANGED <<rows, owed, slot, ctx, unread, history, faults>>

Head(e) == e \in batch /\ \A d \in batch : e <= d

(* The handler takes the event.  Only an approval is acted on, so only its  *)
(* handler can fail, by an error or by a panic that handle turns into one.  *)
Deliver(e) ==
  /\ pc = "draining" /\ Alive /\ Head(e)
  /\ tried' = [tried EXCEPT ![e] = "yes"]
  /\ handled' = [handled EXCEPT ![e] = "yes"]
  /\ pc' = "marking"
  /\ UNCHANGED <<rows, owed, slot, batch, ctx, unread, faults>>

(* Mutant of Refuse: a refused event is marked as if it had been handled.   *)
MutantRefuse(e) ==
  /\ pc = "draining" /\ Alive /\ Head(e)
  /\ subject[e] = "approved"
  /\ Fault
  /\ tried' = [tried EXCEPT ![e] = "yes"]
  /\ pc' = "marking"
  /\ UNCHANGED <<rows, owed, slot, batch, ctx, unread, handled>>

Refuse(e) ==
  /\ pc = "draining" /\ Alive /\ Head(e)
  /\ subject[e] = "approved"
  /\ Fault
  /\ tried' = [tried EXCEPT ![e] = "yes"]
  /\ pc' = "failing"
  /\ UNCHANGED <<rows, owed, slot, batch, ctx, unread, handled>>

MarkPublished(e) ==
  /\ pc = "marking" /\ Alive /\ Head(e)
  /\ published' = [published EXCEPT ![e] = "yes"]
  /\ batch' = batch \ {e}
  /\ pc' = "draining"
  /\ UNCHANGED <<committed, subject, attempts, wait, owed, slot, ctx, unread, history, faults>>

(* The delay doubles up to the cap, with jitter over its upper half.        *)
Smaller(a, b) == IF a <= b THEN a ELSE b

Backoff(n) == LET delay == Smaller(BaseBackoff * 2^Smaller(n, 20), MaxBackoff)
              IN  {d \in 0..MaxBackoff : delay \div 2 <= d /\ d <= delay}

MarkFailed(e) ==
  /\ pc = "failing" /\ Alive /\ Head(e)
  /\ attempts' = [attempts EXCEPT ![e] = @ + 1]
  /\ \E delay \in Backoff(attempts[e]) : wait' = [wait EXCEPT ![e] = delay]
  /\ batch' = batch \ {e}
  /\ pc' = "draining"
  /\ UNCHANGED <<committed, subject, published, owed, slot, ctx, unread, history, faults>>

(* Either mark may fail, and does when the context ended under the handler: *)
(* the row stays as it was and the event will be delivered again.           *)
MarkError(e) ==
  /\ pc \in {"marking", "failing"} /\ Head(e)
  /\ IF Alive THEN Fault ELSE UNCHANGED faults
  /\ batch' = batch \ {e}
  /\ pc' = "draining"
  /\ UNCHANGED <<rows, owed, slot, ctx, unread, history>>

-----------------------------------------------------------------------------
(* Time and the process *)

Tick ==
  /\ \E e \in Events : wait[e] > 0
  /\ wait' = [e \in Events |-> IF wait[e] > 0 THEN wait[e] - 1 ELSE 0]
  /\ UNCHANGED <<committed, subject, published, attempts, owed, slot, pc, batch, ctx, unread,
                 history, faults>>

Shutdown ==
  /\ ctx = "live"
  /\ ctx' = "cancelled"
  /\ Fault
  /\ UNCHANGED <<rows, owed, slot, pc, batch, unread, history>>

Expire ==
  /\ ctx = "final"
  /\ ctx' = "expired"
  /\ Fault
  /\ UNCHANGED <<rows, owed, slot, pc, batch, unread, history>>

NewProcess == /\ pc' = "start"
              /\ ctx' = "live"
              /\ batch' = {}
              /\ slot' = "empty"
              /\ owed' = {}
              /\ UNCHANGED <<rows, unread, history>>

Crash == Fault /\ NewProcess
Restart == pc = "stopped" /\ UNCHANGED faults /\ NewProcess

Publisher ==
  \/ Start \/ Poll \/ Wake \/ Final \/ Finish
  \/ \E e \in Events : Deliver(e) \/ Refuse(e) \/ MarkPublished(e) \/ MarkFailed(e) \/ MarkError(e)

Next ==
  \/ \E s \in {"approved", "other"} : Commit(s)
  \/ \E e \in Events : Notify(e)
  \/ Publisher
  \/ Tick \/ Shutdown \/ Expire \/ Crash \/ Restart

Spec == Init /\ [][Next]_vars

(* The goroutine runs, its ticker fires, time passes, a writer that         *)
(* committed reaches its Notify, and the supervisor starts mcpd again.      *)
(* Select picks among ready cases at random, so a cancelled context is      *)
(* noticed even if the ticker is ready every time.                          *)
Fairness == /\ WF_vars(Publisher)
            /\ SF_vars(Final)
            /\ WF_vars(Tick)
            /\ \A e \in Events : WF_vars(Notify(e))
            /\ WF_vars(Restart)

FairSpec == Spec /\ Fairness

-----------------------------------------------------------------------------
(* The consumer is first shown events in the order they were committed: no  *)
(* failure, backoff, batch limit or restart lets it meet an operation's     *)
(* outcome before the event that began it.                                  *)
AttemptedInOrder ==
  \A e \in Events : tried[e] = "yes" => \A d \in Events : d < e => tried[d] = "yes"

(* A row is marked published only after its own handler succeeded, so no    *)
(* crash or failure between delivery and mark drops an event.               *)
PublishedWasHandled == \A e \in Events : published[e] = "yes" => handled[e] = "yes"

(* When the publisher goes to sleep with an empty channel, whatever was not *)
(* shown to the consumer will still be announced: collapsing notifications  *)
(* into one slot loses no wake-up.  What a full batch left behind, or a     *)
(* failed read, waits for the poll instead.                                 *)
WakeUpsAreNotLost ==
  pc = "waiting" /\ slot = "empty" /\ ctx = "live" /\ unread = "no"
  => \A e \in 1..committed : tried[e] = "yes" \/ e \in owed

(* No event goes missing between the commit and the consumer: neither by a  *)
(* mark that was not earned nor by a wake-up nobody hears.                  *)
NothingGoesMissing == PublishedWasHandled /\ WakeUpsAreNotLost

(* Every committed event is published in the end, whatever failed before.   *)
EveryEventIsPublished ==
  \A e \in Events : committed >= e ~> published[e] = "yes"
=============================================================================
