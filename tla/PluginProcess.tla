---------------------------- MODULE PluginProcess ----------------------------
(* A plugin that runs as its own process and the calls the host makes to    *)
(* it: internal/plugins/external/process.go and the handshake, the shutdown *)
(* and the mutation bridge of adapter.go.                                   *)
(*                                                                          *)
(* Calls share one pipe. A call claims an id, queues for the pipe, writes   *)
(* one frame and waits off the pipe; one goroutine reads the plugin's       *)
(* output and hands each answer to whoever holds the claim on its id. A     *)
(* step here is one critical section, one wait, or one move of the plugin.  *)
(*                                                                          *)
(* The plugin is not part of this repository. It is taken to echo ids and   *)
(* to tell the truth about its writes, and to do anything else: never       *)
(* answer, answer late, answer with a frame that cannot be read, stop       *)
(* reading, close its output, die at any moment.                            *)
EXTENDS Naturals, Sequences, FiniteSets

CONSTANTS Reads,      \* calls that change nothing upstream
          Applies,    \* apply calls of the mutation bridge
          Describe,   \* the call of the handshake
          Shutdown,   \* the call Stop makes
          Nobody,
          Codes,      \* shapes an answer may take
          Room        \* frames the plugin's input pipe holds

Requests == Reads \cup Applies
Calls    == Requests \cup {Describe, Shutdown}

ASSUME PluginAssumption ==
  /\ IsFiniteSet(Calls) /\ Nobody \notin Calls
  /\ Reads \cap Applies = {} /\ Describe # Shutdown
  /\ {Describe, Shutdown} \cap Requests = {}
  /\ Room \in Nat \ {0}
     \* "misshapen" is a result that does not decode
  /\ Codes \subseteq {"ok", "misshapen", "error", "indeterminate", "unreadable", "oversized"}

IDs   == 1 .. Cardinality(Calls)

VARIABLES
  pc,        \* where each call is
  id,        \* the id it was given, 0 before
  inbox,     \* its channel
  verdict,   \* what it returned; for an apply, what the operation settles as
  assigned,  \* nextID
  pending,   \* who claimed each id
  reader,    \* "reading", "stopped" (pending is nil), "done" (readDone closed)
  waiters,   \* whose channels stopReading has still to close
  slot,      \* who holds writeSlot
  input,     \* the host's end of the plugin's stdin
  frames,    \* calls whose frames are in that pipe
  process,   \* "running", "dead", "reaped" (exited is closed)
  mute,      \* the plugin's stdout is closed, by it or by its death
  replies,   \* frames in the other pipe
  taken,     \* calls the plugin is working on
  applied,   \* writes that reached the upstream
  phase,     \* of the adapter
  stop       \* of Stop

callVars   == <<pc, id, inbox, verdict>>
claimVars  == <<assigned, pending, reader, waiters>>
pluginVars == <<process, mute, replies, taken, applied>>
vars == <<pc, id, inbox, verdict, assigned, pending, reader, waiters, slot, input,
          frames, process, mute, replies, taken, applied, phase, stop>>

Nothing == [for |-> Nobody, code |-> "nothing"]
Closed  == [for |-> Nobody, code |-> "closed"]
Unclaimed == [i \in IDs |-> Nobody]

Init ==
  /\ pc = [c \in Calls |-> "idle"] /\ id = [c \in Calls |-> 0]
  /\ inbox = [c \in Calls |-> Nothing] /\ verdict = [c \in Calls |-> "none"]
  /\ assigned = 0 /\ pending = Unclaimed /\ reader = "reading" /\ waiters = {}
  /\ slot = Nobody /\ input = "open" /\ frames = <<>>
  /\ process = "running" /\ mute = FALSE /\ replies = <<>>
  /\ taken = {} /\ applied = {}
  /\ phase = "handshake" /\ stop = "no"
-----------------------------------------------------------------------------
(* A call.                                                                  *)

Exited == process = "reaped"

\* Who may call now: the handshake, any request once the instance serves,
\* and Stop.
MayCall(c) ==
  \/ c = Describe /\ phase = "handshake"
  \/ c \in Requests /\ phase = "serving"
  \/ c = Shutdown /\ stop = "asking"

\* What a call came to is kept for those the host goes on from: the handshake
\* and the writes.
Records(c, v) ==
  verdict' = IF c \in Applies \cup {Describe} THEN [verdict EXCEPT ![c] = v] ELSE verdict

\* The check on entry. It may be out of date by the time the call registers.
Enter(c) ==
  /\ pc[c] = "idle" /\ MayCall(c)
  /\ IF Exited \/ reader = "done"
       THEN pc' = [pc EXCEPT ![c] = "done"] /\ Records(c, "failed")
       ELSE pc' = [pc EXCEPT ![c] = "entered"] /\ UNCHANGED verdict
  /\ UNCHANGED <<id, inbox, claimVars, slot, input, frames, pluginVars, phase, stop>>

\* Mutant: the lowest id nobody is waiting on.
ReusedID == CHOOSE i \in IDs :
  pending[i] = Nobody /\ \A j \in IDs : pending[j] = Nobody => i <= j

\* nextID counts; an id is never handed out twice.
FreshID == assigned + 1

\* Mutant: an emptied map instead of a nil one takes new claims.
RefusesWhenToldSo == reader = "done"

\* register refuses once the read loop has given the map up.
Refuses == reader # "reading"

Register(c) ==
  /\ pc[c] = "entered"
  /\ assigned' = assigned + 1
  /\ id' = [id EXCEPT ![c] = FreshID]
  /\ IF Refuses
       THEN /\ pc' = [pc EXCEPT ![c] = "done"]
            /\ Records(c, "failed") /\ UNCHANGED pending
       ELSE /\ pc' = [pc EXCEPT ![c] = "queued"]
            /\ pending' = [pending EXCEPT ![FreshID] = c] /\ UNCHANGED verdict
  /\ UNCHANGED <<inbox, reader, waiters, slot, input, frames, pluginVars, phase, stop>>

\* The call has its outcome and has still to run forget.
Leaves(c, v) ==
  /\ pc' = [pc EXCEPT ![c] = "leaving"]
  /\ Records(c, v)

TakeSlot(c) ==
  /\ pc[c] = "queued" /\ slot = Nobody
  /\ slot' = c /\ pc' = [pc EXCEPT ![c] = "writing"]
  /\ UNCHANGED <<id, inbox, verdict, claimVars, input, frames, pluginVars, phase, stop>>

\* Mutant: a mutex, which only the end of the plugin can interrupt.
StaysQueued(c) ==
  /\ pc[c] = "queued" /\ (Exited \/ reader = "done")
  /\ Leaves(c, "failed")
  /\ UNCHANGED <<id, inbox, claimVars, slot, input, frames, pluginVars, phase, stop>>

\* The other arms of the select: its deadline, exited, readDone.
LeaveQueue(c) ==
  /\ pc[c] = "queued"
  /\ Leaves(c, "failed")
  /\ UNCHANGED <<id, inbox, claimVars, slot, input, frames, pluginVars, phase, stop>>

\* No deadline interrupts a write that waits for room.
Write(c) ==
  /\ pc[c] = "writing" /\ input = "open" /\ process = "running"
  /\ Len(frames) < Room
  /\ frames' = Append(frames, c)
  /\ slot' = Nobody /\ pc' = [pc EXCEPT ![c] = "waiting"]
  /\ UNCHANGED <<id, inbox, verdict, claimVars, input, pluginVars, phase, stop>>

WriteFails(c) ==
  /\ pc[c] = "writing" /\ (input = "closed" \/ process # "running")
  /\ slot' = Nobody /\ Leaves(c, "failed")
  /\ UNCHANGED <<id, inbox, claimVars, input, frames, pluginVars, phase, stop>>

\* What the caller makes of an answer, through decodeResponse, the mutation
\* bridge and Executor.apply. Only INDETERMINATE is told apart from failure.
Meaning(c, code) ==
  CASE code = "ok" -> "succeeded"
    [] code = "indeterminate" /\ c \in Applies -> "indeterminate"
    [] OTHER -> "failed"

Answered(c) ==
  /\ pc[c] = "waiting" /\ inbox[c] # Nothing
  /\ Leaves(c, Meaning(c, inbox[c].code))
  /\ UNCHANGED <<id, inbox, claimVars, slot, input, frames, pluginVars, phase, stop>>

\* The deadline, or exited. The select takes any arm that is ready, so this
\* happens to a call whose answer has already arrived as well.
Unanswered(c) ==
  /\ pc[c] = "waiting"
  /\ Leaves(c, "failed")
  /\ UNCHANGED <<id, inbox, claimVars, slot, input, frames, pluginVars, phase, stop>>

\* forget, on the way out; the channel goes with the call.
Return(c) ==
  /\ pc[c] = "leaving"
  /\ pc' = [pc EXCEPT ![c] = "done"]
  /\ pending' = [pending EXCEPT ![id[c]] = Nobody]
  /\ inbox' = [inbox EXCEPT ![c] = Nothing]
  /\ UNCHANGED <<id, verdict, assigned, reader, waiters, slot, input, frames,
                 pluginVars, phase, stop>>
-----------------------------------------------------------------------------
(* The read loop and the reaper.                                            *)

\* The process ends: its work and what it has not read go with it; what it
\* has written stays in the other pipe.
Dies == process' = "dead" /\ frames' = <<>> /\ taken' = {} /\ mute' = TRUE

Kill == IF process = "running" THEN Dies ELSE UNCHANGED <<process, frames, taken, mute>>

\* One frame: handed to whoever claimed its id, dropped when nobody has or
\* when it cannot be read, fatal when it is over the cap.
Deliver ==
  /\ reader = "reading" /\ replies # <<>>
  /\ LET r == Head(replies)
         c == pending[r.id]
     IN  CASE r.code = "oversized" ->
              /\ Kill /\ replies' = <<>> /\ UNCHANGED <<inbox, pending>>
           [] r.code = "unreadable" \/ (r.code # "oversized" /\ c = Nobody) ->
              /\ replies' = Tail(replies)
              /\ UNCHANGED <<process, frames, taken, mute, inbox, pending>>
           [] OTHER ->
              /\ inbox' = [inbox EXCEPT ![c] = [for |-> r.for, code |-> r.code]]
              /\ pending' = [pending EXCEPT ![r.id] = Nobody]
              /\ replies' = Tail(replies)
              /\ UNCHANGED <<process, frames, taken, mute>>
  /\ UNCHANGED <<pc, id, verdict, assigned, reader, waiters, slot, input, applied, phase, stop>>

\* The first half of stopReading: the end of the output is reached and the
\* map goes away.
StopReading ==
  /\ reader = "reading" /\ replies = <<>> /\ mute
  /\ reader' = "stopped"
  /\ waiters' = {pending[i] : i \in IDs} \ {Nobody}
  /\ pending' = Unclaimed
  /\ UNCHANGED <<callVars, assigned, slot, input, frames, pluginVars, phase, stop>>

\* The second half: readDone and every waiter's channel are closed.
Wake ==
  /\ reader = "stopped"
  /\ reader' = "done" /\ waiters' = {}
  /\ inbox' = [c \in Calls |-> IF c \in waiters THEN Closed ELSE inbox[c]]
  /\ UNCHANGED <<pc, id, verdict, assigned, pending, slot, input, frames, pluginVars,
                 phase, stop>>

\* cmd.Wait closes the host's ends of the pipes as well, so what the read
\* loop has not buffered by then is lost.
Reap ==
  /\ process = "dead" /\ process' = "reaped"
  /\ \E n \in 0 .. Len(replies) : replies' = SubSeq(replies, 1, n)
  /\ UNCHANGED <<callVars, claimVars, slot, input, frames, mute, taken, applied, phase, stop>>
-----------------------------------------------------------------------------
(* The adapter: the handshake, and Stop.                                    *)

\* The description is validated; a plugin that did not give one is killed.
HandshakeEnds ==
  /\ phase = "handshake" /\ pc[Describe] = "done"
  /\ IF verdict[Describe] = "succeeded"
       THEN phase' = "serving" /\ UNCHANGED <<process, frames, taken, mute>>
       ELSE phase' = "refused" /\ Kill
  /\ UNCHANGED <<callVars, claimVars, slot, input, replies, applied, stop>>

BeginStop ==
  /\ phase = "serving" /\ stop = "no"
  /\ stop' = "asking"
  /\ UNCHANGED <<callVars, claimVars, slot, input, frames, pluginVars, phase>>

\* Whatever the plugin said, its input closes; that ends a write in progress.
CloseInput ==
  /\ stop = "asking" /\ pc[Shutdown] = "done"
  /\ stop' = "closing" /\ input' = "closed"
  /\ UNCHANGED <<callVars, claimVars, slot, frames, pluginVars, phase>>

KillAfterGrace ==
  /\ stop = "closing" /\ process = "running" /\ Dies
  /\ UNCHANGED <<callVars, claimVars, slot, input, replies, applied, phase, stop>>

StopReturns ==
  /\ stop = "closing" /\ Exited
  /\ stop' = "ended"
  /\ UNCHANGED <<callVars, claimVars, slot, input, frames, pluginVars, phase>>
-----------------------------------------------------------------------------
(* The plugin.                                                              *)

PluginTakes ==
  /\ process = "running" /\ frames # <<>>
  /\ taken' = taken \cup {Head(frames)} /\ frames' = Tail(frames)
  /\ UNCHANGED <<callVars, claimVars, slot, input, process, mute, replies, applied, phase, stop>>

PluginApplies(c) ==
  /\ process = "running" /\ c \in (taken \cap Applies) \ applied
  /\ applied' = applied \cup {c}
  /\ UNCHANGED <<callVars, claimVars, slot, input, frames, process, mute, replies, taken,
                 phase, stop>>

\* A truthful answer: success after the write, failure without it, and doubt
\* about writes only. What a read or a shutdown answers changes nothing here,
\* so one answer stands for all.
Truthful(c, code) ==
  /\ code \in {"ok", "misshapen"} /\ c \in Applies => c \in applied
  /\ code = "error" => c \in Applies \cup {Describe} /\ c \notin applied
  /\ code = "indeterminate" => c \in Applies

PluginAnswers(c, code) ==
  /\ process = "running" /\ ~mute /\ c \in taken /\ Truthful(c, code)
  /\ taken' = taken \ {c}
  /\ replies' = Append(replies, [id |-> id[c], for |-> c, code |-> code])
  /\ UNCHANGED <<callVars, claimVars, slot, input, frames, process, mute, applied, phase, stop>>

PluginCloses ==
  /\ process = "running" /\ ~mute /\ mute' = TRUE
  /\ UNCHANGED <<callVars, claimVars, slot, input, frames, process, replies, taken, applied,
                 phase, stop>>

PluginDies ==
  /\ process = "running" /\ Dies
  /\ UNCHANGED <<callVars, claimVars, slot, input, replies, applied, phase, stop>>
-----------------------------------------------------------------------------
HasThePipe(c) == TakeSlot(c) \/ LeaveQueue(c)
Writes(c)     == Write(c) \/ WriteFails(c)
Waits(c)      == Answered(c) \/ Unanswered(c)

CallStep(c) == Enter(c) \/ Register(c) \/ HasThePipe(c) \/ Writes(c) \/ Waits(c) \/ Return(c)

ReaderStep == Deliver \/ StopReading \/ Wake

StopStep == CloseInput \/ KillAfterGrace \/ StopReturns

PluginStep ==
  \/ PluginTakes \/ PluginCloses \/ PluginDies
  \/ \E c \in Calls : PluginApplies(c) \/ \E code \in Codes : PluginAnswers(c, code)

Next ==
  \/ \E c \in Calls : CallStep(c)
  \/ ReaderStep \/ Reap \/ HandshakeEnds \/ BeginStop \/ StopStep \/ PluginStep

Spec == Init /\ [][Next]_vars

\* The host's goroutines run, its deadlines pass and the kernel reaps. The
\* plugin owes nothing: not even its death, short of being killed.
FairSpec ==
  /\ Spec
  /\ \A c \in Calls :
       /\ WF_vars(Enter(c) /\ c = Shutdown) /\ WF_vars(Register(c))
       /\ WF_vars(HasThePipe(c)) /\ WF_vars(Writes(c)) /\ WF_vars(Waits(c))
       /\ WF_vars(Return(c))
  /\ WF_vars(ReaderStep) /\ WF_vars(Reap) /\ WF_vars(StopStep)
-----------------------------------------------------------------------------
CallsOK ==
  /\ pc \in [Calls -> {"idle", "entered", "queued", "writing", "waiting", "leaving", "done"}]
  /\ id \in [Calls -> IDs \cup {0}]
  /\ inbox \in [Calls -> [for : Calls \cup {Nobody}, code : Codes \cup {"nothing", "closed"}]]
  /\ verdict \in [Calls -> {"none", "succeeded", "failed", "indeterminate"}]

HostOK ==
  /\ assigned \in Nat /\ pending \in [IDs -> Calls \cup {Nobody}]
  /\ reader \in {"reading", "stopped", "done"} /\ waiters \subseteq Calls
  /\ slot \in Calls \cup {Nobody} /\ input \in {"open", "closed"}
  /\ phase \in {"handshake", "serving", "refused"}
  /\ stop \in {"no", "asking", "closing", "ended"}

PluginOK ==
  /\ process \in {"running", "dead", "reaped"} /\ mute \in BOOLEAN
  /\ frames \in Seq(Calls) /\ replies \in Seq([id : IDs, for : Calls, code : Codes])
  /\ taken \subseteq Calls /\ applied \subseteq Applies

TypeOK == CallsOK /\ HostOK /\ PluginOK

(* Whatever has timed out, been discarded or arrived late, the answer a     *)
(* call finds is the answer to that call, and a write the host records as   *)
(* done was done.                                                           *)
AnswersComeHome ==
  \A c \in Calls :
    /\ inbox[c].code \in Codes => inbox[c].for = c
    /\ c \in Applies /\ verdict[c] = "succeeded" => c \in applied

(* A call with no answer yet is one the read loop still knows: it holds the *)
(* claim on its id, or stopReading is about to wake it. Every claim is of a *)
(* call still under way, and the pipe is held by one that writes.           *)
NobodyWaitsInVain ==
  /\ \A c \in Calls : pc[c] = "waiting" /\ inbox[c] = Nothing =>
       \/ reader = "reading" /\ pending[id[c]] = c
       \/ reader = "stopped" /\ c \in waiters
  /\ \A i \in IDs : pending[i] # Nobody =>
       id[pending[i]] = i /\ pc[pending[i]] \in {"queued", "writing", "waiting", "leaving"}
  /\ slot # Nobody => pc[slot] = "writing"

\* Stop is inside the write of its own request and the pipe is full.
ShutdownIsStuck == pc[Shutdown] = "writing" /\ Len(frames) = Room /\ process = "running"

(* Once Stop has begun it ends and no call outlives it, whether or not the  *)
(* plugin reads, answers or exits: a full pipe holds no other caller past   *)
(* the close of the input. One thing alone stands in the way, the write of  *)
(* the shutdown request itself, which no deadline interrupts.               *)
StopReleasesEveryone ==
  stop = "asking" ~>
    \/ stop = "ended" /\ \A c \in Calls : pc[c] \in {"idle", "done"}
    \/ ShutdownIsStuck

(* What MutationHandler asks of Apply: an ordinary error implies the write  *)
(* did not happen.                                                          *)
AFailureChangedNothing ==
  \A c \in Applies : verdict[c] = "failed" => c \notin applied
=============================================================================
