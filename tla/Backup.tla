------------------------------- MODULE Backup -------------------------------
(* Backups taken on a schedule and on demand: the runner                    *)
(* (internal/backup/runner.go), the rows that gate it                       *)
(* (internal/storage/sqlite/backups.go), and what a run does at each        *)
(* destination, retention included.                                         *)
(*                                                                          *)
(* The row is the gate: a run begins with an insert that lands only when no *)
(* row is running, and the channel to the one worker only carries its id.   *)
(* A step is one transaction, one channel operation or one call to a        *)
(* destination. The clock ticks in seconds; Due are the instants the        *)
(* schedule names.                                                          *)
EXTENDS Retention

CONSTANTS Callers,    \* administrators pressing the button
          Dests, Policy,
          Due,        \* the instants of the schedule
          Suffix,     \* the end of the archive's name each run id reduces to
          Earlier,    \* archives found at the destinations at the start
          EarlierSeen, \* how many the run before that counted
          FirstClock, MaxClock, MaxRuns, KeepRuns, MaxStarts, MaxEdits, MaxFaults

Runs == 1 .. MaxRuns

ASSUME BackupAssumption ==
  /\ Policy \in Policies /\ Instants = 0 .. MaxClock + 2 * MaxStarts /\ Due \subseteq Instants \ {0}
  /\ DOMAIN Suffix = Runs /\ \A r \in Runs : Suffix[r] \in RunNames
  /\ Earlier \in [Dests -> SUBSET Archives] /\ \A d \in Dests : IsFiniteSet(Earlier[d])
  /\ EarlierSeen \in [Dests -> Nat]
  /\ MaxClock \in Nat /\ FirstClock \in 0 .. MaxClock /\ KeepRuns \in Nat \ {0}
  /\ MaxRuns \in Nat /\ MaxStarts \in Nat \ {0} /\ MaxEdits \in Nat /\ MaxFaults \in Nat

VARIABLES
  clock,
  rows,      \* backup_runs
  issued,    \* how many ids NewRunID has minted
  on,        \* the destinations switched on
  enabled,   \* the schedule's switch
  host,      \* "up", "stopping" (the workers' context is cancelled) or "down"
  starts,    \* how often the process has started
  builtAt,   \* Runner.builtAt
  manual,    \* Runner.manual, a channel of capacity one
  wake,      \* Runner.wake
  worker,    \* the goroutine in Run
  caller,    \* each request in Trigger
  held,      \* the archives at each destination
  lastSeen,  \* last_seen of each destination
  owner,     \* the process that inserted each row
  taken,     \* the instants scheduled runs have been started for
  orphaned,  \* rows that a failed write left running
  edits,     \* settings saved
  faults

runVars == <<rows, issued, owner, taken, orphaned>>
atDests == <<held, lastSeen>>
settings == <<on, enabled, edits>>
process == <<host, starts, builtAt>>
vars == <<clock, runVars, settings, process, manual, wake, worker, caller, atDests, faults>>
-----------------------------------------------------------------------------
Statuses == {"running", "ok", "partial", "failed", "interrupted"}
NoRow == [status |-> "none", trig |-> "none", at |-> 0]
Running(r) == rows[r].status = "running"

\* Its run, the instant in the archive's name, the destinations the run has
\* still to reach, those it reached and those it did not, and what the last List
\* answered.
Worker(pc) == [pc |-> pc, armed |-> 0, run |-> 0, trig |-> "none", at |-> 0,
               left |-> {}, reached |-> {}, missed |-> {}, cur |-> "none", listing |-> {}]
IdleCaller == [pc |-> "idle", run |-> 0]

Init ==
  /\ clock = FirstClock
  /\ rows = [r \in Runs |-> NoRow] /\ issued = 0
  /\ owner = [r \in Runs |-> 0] /\ taken = {} /\ orphaned = {}
  /\ on = Dests /\ enabled \in BOOLEAN
  /\ host = "up" /\ starts = 1 /\ builtAt = clock
  /\ manual = <<>> /\ wake = FALSE
  /\ worker = Worker("sweep") /\ caller = [c \in Callers |-> IdleCaller]
  /\ held = Earlier /\ lastSeen = EarlierSeen
  /\ edits = 0 /\ faults = 0

Fault == faults < MaxFaults /\ faults' = faults + 1
\* What the worker does under its own context fails of itself once that is cancelled.
Fails == Fault \/ (host = "stopping" /\ UNCHANGED faults)

\* The two instants of a Schedule that matter; 0 is the zero time.
Latest(S) == CHOOSE t \in S : \A u \in S : u <= t
Previous(t) == IF \E u \in Due : u <= t THEN Latest({u \in Due : u <= t}) ELSE 0
Following(t) == IF \E u \in Due : u > t THEN CHOOSE u \in Due : u > t /\ \A v \in Due : v > t => u <= v
                ELSE 0
-----------------------------------------------------------------------------
(* The store.                                                               *)

\* The newest KeepRuns, by started_at.
Newest(rs) ==
  {r \in Runs : /\ rs[r].status # "none"
                /\ Cardinality({s \in Runs : /\ rs[s].status # "none"
                                             /\ rs[s].at > rs[r].at \/ (rs[s].at = rs[r].at /\ s > r)})
                     < KeepRuns}
Trimmed(rs) == [r \in Runs |-> IF rs[r].status = "running" \/ r \in Newest(rs) THEN rs[r] ELSE NoRow]

\* StartRun's WHERE NOT EXISTS.
NothingRuns == \A r \in Runs : ~Running(r)

StartRun(r, trig) ==
  /\ NothingRuns
  /\ rows' = Trimmed([rows EXCEPT ![r] = [status |-> "running", trig |-> trig, at |-> clock]])
  /\ issued' = r /\ owner' = [owner EXCEPT ![r] = starts]
  /\ taken' = IF trig = "schedule" THEN taken \cup {Previous(clock)} ELSE taken
  /\ UNCHANGED orphaned

\* FinishRun under a live context, or one that fails: the context of a stopping
\* worker is cancelled, and any write can be refused by the disk.
FinishRun(r, status) ==
  IF Running(r) THEN rows' = [rows EXCEPT ![r].status = status] ELSE rows' = rows
Settle(r, status, live) ==
  \/ /\ live /\ FinishRun(r, status) /\ UNCHANGED <<orphaned, faults>>
  \/ /\ live /\ Fault /\ orphaned' = orphaned \cup {r} /\ UNCHANGED rows
  \/ /\ ~live /\ UNCHANGED <<rows, orphaned, faults>>

\* A plausible bug: a whole second is left between the two.
InterruptsWellBefore(r) == Running(r) /\ rows[r].at + 1 < builtAt

\* MarkInterrupted's WHERE clause.
Interrupts(r) == Running(r) /\ rows[r].at < builtAt

MarkInterrupted ==
  rows' = [r \in Runs |-> IF Interrupts(r) THEN [rows[r] EXCEPT !.status = "interrupted"] ELSE rows[r]]
-----------------------------------------------------------------------------
(* Trigger, from a request of the dashboard.                                *)

\* Nowhere to send it, or nothing to seal it with, ends the request here.
Checks(c) ==
  /\ host # "down" /\ caller[c].pc = "idle" /\ on # {}
  /\ caller' = [caller EXCEPT ![c].pc = "insert"]
  /\ UNCHANGED <<clock, runVars, settings, process, manual, wake, worker, atDests, faults>>

Inserts(c) ==
  /\ caller[c].pc = "insert"
  /\ \/ /\ issued < MaxRuns /\ StartRun(issued + 1, "manual")
        /\ caller' = [caller EXCEPT ![c] = [pc |-> "post", run |-> issued + 1]]
     \/ \* ErrRunInProgress, or a write that failed.
        /\ caller' = [caller EXCEPT ![c] = IdleCaller]
        /\ UNCHANGED runVars
  /\ UNCHANGED <<clock, settings, process, manual, wake, worker, atDests, faults>>

Posts(c) ==
  /\ caller[c].pc = "post"
  /\ caller' = [caller EXCEPT ![c] = IdleCaller]
  /\ IF manual = <<>>
     THEN manual' = <<caller[c].run>> /\ UNCHANGED <<rows, orphaned, faults>>
     ELSE UNCHANGED manual /\ Settle(caller[c].run, "failed", TRUE)
  /\ UNCHANGED <<clock, issued, owner, taken, settings, process, wake, worker, atDests>>
-----------------------------------------------------------------------------
(* Run: the worker's start and its loop.                                    *)

At(pc) == host # "down" /\ worker.pc = pc
Goto(pc) == worker' = [worker EXCEPT !.pc = pc]
Rearm == worker' = Worker("arm")

Sweep ==
  /\ At("sweep") /\ Goto("catchUp")
  /\ \/ host = "up" /\ MarkInterrupted /\ UNCHANGED <<orphaned, faults>>
     \/ /\ host = "up" /\ Fault /\ orphaned' = {r \in Runs : Interrupts(r)}
        /\ UNCHANGED rows
     \/ host = "stopping" /\ UNCHANGED <<rows, orphaned, faults>>
  /\ UNCHANGED <<clock, issued, owner, taken, settings, process, manual, wake, caller, atDests>>

\* A scheduled run has happened before, and not since the instant last due.
ScheduledAt == {rows[r].at : r \in {s \in Runs : rows[s].trig = "schedule"}}
\* A plausible bug: <= for <.
MissedOrJustTaken == enabled /\ ScheduledAt # {} /\ Latest(ScheduledAt) <= Previous(clock)
Missed == enabled /\ ScheduledAt # {} /\ Latest(ScheduledAt) < Previous(clock)

\* When the rows cannot be read nothing is caught up.
CatchUp ==
  /\ At("catchUp")
  /\ \/ Missed /\ Goto("check") /\ UNCHANGED faults
     \/ ~Missed /\ Goto("arm") /\ UNCHANGED faults
     \/ Fails /\ Goto("arm")
  /\ UNCHANGED <<clock, runVars, settings, process, manual, wake, caller, atDests>>

\* The top of the loop reads the schedule once for this wait.
Arm ==
  /\ At("arm")
  /\ worker' = [Worker("select") EXCEPT !.armed = IF enabled THEN Following(clock) ELSE 0]
  /\ UNCHANGED <<clock, runVars, settings, process, manual, wake, caller, atDests, faults>>

Woken ==
  /\ At("select") /\ wake
  /\ wake' = FALSE /\ Rearm
  /\ UNCHANGED <<clock, runVars, settings, process, manual, caller, atDests, faults>>

TakesManual ==
  /\ At("select") /\ manual # <<>>
  /\ worker' = [Worker("write") EXCEPT !.run = manual[1], !.trig = "manual"]
  /\ manual' = <<>>
  /\ UNCHANGED <<clock, runVars, settings, process, wake, caller, atDests, faults>>

TimerFires ==
  /\ At("select") /\ worker.armed # 0 /\ clock >= worker.armed
  /\ Goto("check")
  /\ UNCHANGED <<clock, runVars, settings, process, manual, wake, caller, atDests, faults>>

Leaves ==
  /\ At("select") /\ host = "stopping" /\ Goto("gone")
  /\ UNCHANGED <<clock, runVars, settings, process, manual, wake, caller, atDests, faults>>
-----------------------------------------------------------------------------
(* fire: Trigger again, then straight to the work.                          *)

FireChecks ==
  /\ At("check")
  /\ IF on # {} THEN Goto("insert") ELSE Rearm
  /\ UNCHANGED <<clock, runVars, settings, process, manual, wake, caller, atDests, faults>>

FireInserts ==
  /\ At("insert")
  /\ \/ /\ host = "up" /\ issued < MaxRuns /\ StartRun(issued + 1, "schedule")
        /\ worker' = [Worker("post") EXCEPT !.run = issued + 1, !.trig = "schedule"]
     \/ \* Skipped: one is running, the write failed or its context is gone.
        Rearm /\ UNCHANGED runVars
  /\ UNCHANGED <<clock, settings, process, manual, wake, caller, atDests, faults>>

FirePosts ==
  /\ At("post")
  /\ IF manual = <<>>
     THEN manual' = <<worker.run>> /\ Goto("drain") /\ UNCHANGED <<rows, orphaned, faults>>
     ELSE UNCHANGED manual /\ Rearm /\ Settle(worker.run, "failed", host = "up")
  /\ UNCHANGED <<clock, issued, owner, taken, settings, process, wake, caller, atDests>>

\* Takes whatever the channel holds.
Drain ==
  /\ At("drain") /\ Goto("write") /\ manual' = <<>>
  /\ UNCHANGED <<clock, runVars, settings, process, wake, caller, atDests, faults>>
-----------------------------------------------------------------------------
(* execute.                                                                 *)

\* The archive is spooled once, under a name that carries this instant.
Writes ==
  /\ At("write")
  /\ \/ worker' = [worker EXCEPT !.pc = "read", !.at = clock] /\ UNCHANGED faults
     \/ Fails /\ worker' = [worker EXCEPT !.pc = "settle"]
  /\ UNCHANGED <<clock, runVars, settings, process, manual, wake, caller, atDests>>

ReadsDestinations ==
  /\ At("read")
  /\ \/ host = "up" /\ worker' = [worker EXCEPT !.pc = "send", !.left = on] /\ UNCHANGED faults
     \/ Fails /\ worker' = [worker EXCEPT !.pc = "settle"]
  /\ UNCHANGED <<clock, runVars, settings, process, manual, wake, caller, atDests>>

Archive == [slug |-> Us, at |-> worker.at, run |-> Suffix[worker.run]]

\* Put answers, refuses, or refuses after the archive landed; a refusal leaves
\* the baseline alone.
Puts(d) ==
  /\ At("send") /\ d \in worker.left
  /\ \/ /\ held' = [held EXCEPT ![d] = @ \cup {Archive}]
        /\ worker' = [worker EXCEPT !.pc = "prune", !.cur = d, !.left = @ \ {d}]
        /\ UNCHANGED faults
     \/ /\ Fails /\ held' \in {held, [held EXCEPT ![d] = @ \cup {Archive}]}
        /\ worker' = [worker EXCEPT !.left = @ \ {d}, !.missed = @ \cup {d}]
  /\ UNCHANGED <<clock, runVars, settings, process, manual, wake, caller, lastSeen>>

\* RecordDestination, which moves the baseline only to a count.
Records(d, seen) ==
  IF seen = UnknownSeen THEN lastSeen' = lastSeen ELSE lastSeen' = [lastSeen EXCEPT ![d] = seen]

Doomed(d, listing) == Remove(listing, Policy, Archive, lastSeen[d])

\* What List answers of what is there, and the worker goes on to the next.
Lists(listing) ==
  worker' = [worker EXCEPT !.pc = "send", !.reached = @ \cup {worker.cur}, !.listing = listing]

\* The whole listing, its deletes and the record of them; or a listing that
\* fails or leaves archives out, deletes that are refused, a record that is.
Prunes(d) ==
  /\ At("prune") /\ d = worker.cur
  /\ \/ /\ host = "up" /\ Lists(held[d])
        /\ held' = [held EXCEPT ![d] = @ \ Doomed(d, @)]
        /\ Records(d, Seen(held[d], Archive, lastSeen[d]))
        /\ UNCHANGED faults
     \/ /\ Fails /\ Lists({}) /\ UNCHANGED atDests
     \/ /\ Fails
        /\ \E listing \in SUBSET held[d] :
             /\ Lists(listing)
             /\ \E gone \in SUBSET Doomed(d, listing) : held' = [held EXCEPT ![d] = @ \ gone]
             /\ Records(d, Seen(listing, Archive, lastSeen[d])) \/ UNCHANGED lastSeen
  /\ UNCHANGED <<clock, runVars, settings, process, manual, wake, caller>>

\* A plausible bug: a destination that was missed is waited for.
SentEverywhere ==
  /\ At("send") /\ worker.left = {} /\ worker.missed = {}
  /\ worker' = [worker EXCEPT !.pc = "settle", !.listing = {}]
  /\ UNCHANGED <<clock, runVars, settings, process, manual, wake, caller, atDests, faults>>

Sent ==
  /\ At("send") /\ worker.left = {}
  /\ worker' = [worker EXCEPT !.pc = "settle", !.listing = {}]
  /\ UNCHANGED <<clock, runVars, settings, process, manual, wake, caller, atDests, faults>>

Verdict == IF worker.reached = {} THEN "failed" ELSE IF worker.missed = {} THEN "ok" ELSE "partial"

Settles ==
  /\ At("settle") /\ Settle(worker.run, Verdict, host = "up") /\ Rearm
  /\ UNCHANGED <<clock, issued, owner, taken, settings, process, manual, wake, caller, atDests>>
-----------------------------------------------------------------------------
(* The administrator, the clock and the process.                            *)

\* A destination's switch is a row; the schedule's is a setting, whose watcher
\* wakes the worker.
Edit == host = "up" /\ edits < MaxEdits /\ edits' = edits + 1

SwitchDestination(d) ==
  /\ Edit
  /\ on' = IF d \in on THEN on \ {d} ELSE on \cup {d}
  /\ UNCHANGED <<clock, runVars, enabled, process, manual, wake, worker, caller, atDests, faults>>

SwitchSchedule ==
  /\ Edit
  /\ enabled' = ~enabled /\ wake' = TRUE
  /\ UNCHANGED <<clock, runVars, on, process, manual, worker, caller, atDests, faults>>

Tick ==
  /\ clock < MaxClock /\ clock' = clock + 1
  /\ UNCHANGED <<runVars, settings, process, manual, wake, worker, caller, atDests, faults>>

Stop ==
  /\ host = "up" /\ starts < MaxStarts /\ host' = "stopping"
  /\ UNCHANGED <<clock, runVars, settings, starts, builtAt, manual, wake, worker, caller, atDests, faults>>

\* The process ends: killed at any moment, or when the stop is over or has
\* taken longer than its budget.
Ends ==
  /\ host # "down" /\ starts < MaxStarts /\ host' = "down"
  /\ manual' = <<>> /\ wake' = FALSE /\ worker' = Worker("gone")
  /\ caller' = [c \in Callers |-> IdleCaller]
  /\ UNCHANGED <<clock, runVars, settings, starts, builtAt, atDests, faults>>

\* Stopping and starting again takes longer than the millisecond the rows resolve,
\* and may take past an instant of the schedule.
Starts ==
  /\ host = "down"
  /\ host' = "up" /\ starts' = starts + 1
  /\ clock' \in {clock + 1, clock + 2} /\ builtAt' = clock'
  /\ worker' = Worker("sweep")
  /\ UNCHANGED <<runVars, settings, manual, wake, caller, atDests, faults>>

WorkerStep ==
  \/ Sweep \/ CatchUp \/ Arm \/ Woken \/ TakesManual \/ TimerFires \/ Leaves
  \/ FireChecks \/ FireInserts \/ FirePosts \/ Drain
  \/ Writes \/ ReadsDestinations \/ Sent \/ Settles
  \/ \E d \in Dests : Puts(d) \/ Prunes(d)

Next ==
  \/ WorkerStep
  \/ \E c \in Callers : Checks(c) \/ Inserts(c) \/ Posts(c)
  \/ \E d \in Dests : SwitchDestination(d)
  \/ SwitchSchedule \/ Tick \/ Stop \/ Ends \/ Starts

Spec == Init /\ [][Next]_vars

\* Goroutines are scheduled, every call to a destination ends (an HTTP client
\* with a timeout or an SFTP connection with a deadline), select
\* chooses among what is ready at random, a stop has a budget, and a supervisor
\* starts the process again.
Fairness ==
  /\ WF_vars(WorkerStep) /\ SF_vars(TakesManual)
  /\ \A c \in Callers : WF_vars(Inserts(c) \/ Posts(c))
  /\ WF_vars(host = "stopping" /\ Ends) /\ WF_vars(Starts)

FairSpec == Spec /\ Fairness
-----------------------------------------------------------------------------
(* Properties.                                                              *)

\* Types, and the channel's capacity (runner.go, Runner).
TypeOK ==
  /\ clock \in Instants /\ issued \in 0 .. MaxRuns
  /\ rows \in [Runs -> [status : Statuses \cup {"none"}, trig : {"none", "manual", "schedule"}, at : Instants]]
  /\ owner \in [Runs -> 0 .. MaxStarts] /\ orphaned \subseteq Runs
  /\ taken \subseteq Due \cup {0}
  /\ on \subseteq Dests /\ enabled \in BOOLEAN
  /\ host \in {"up", "stopping", "down"} /\ starts \in 1 .. MaxStarts /\ builtAt \in Instants
  /\ manual \in {<<>>} \cup {<<r>> : r \in Runs} /\ wake \in BOOLEAN
  /\ worker.armed \in Due \cup {0} /\ worker.run \in Runs \cup {0} /\ worker.at \in Instants
  /\ worker.left \cup worker.reached \cup worker.missed \subseteq Dests
  /\ \A c \in Callers : caller[c].pc \in {"idle", "insert", "post"} /\ caller[c].run \in Runs \cup {0}
  /\ \A d \in Dests : held[d] \subseteq Archives /\ lastSeen[d] \in Nat
  /\ edits \in 0 .. MaxEdits /\ faults \in 0 .. MaxFaults

Handling(r) ==
  \/ manual = <<r>>
  \/ worker.run = r /\ worker.pc \in {"post", "drain", "write", "read", "send", "prune", "settle"}
  \/ \E c \in Callers : caller[c] = [pc |-> "post", run |-> r]

\* Once startup has settled what an earlier process left, a row that says a
\* backup is running is one somebody is about to run, is running or is about to
\* settle: no order of requests, the timer, catch-up, the drain of the channel
\* and restarts leaves a row that refuses every later backup with nothing
\* behind it, short of a refused write (runner.go, Trigger and fire).
RunningIsHandled ==
  host = "up" /\ worker.pc # "sweep" =>
    \A r \in Runs : Running(r) => Handling(r) \/ r \in orphaned

\* Of two backups never more than one is being run, handed over or written
\* down as running, whatever processes inserted them (runner.go, Trigger:
\* "Two administrators pressing the button together").
OneAtATime ==
  \A r, s \in Runs : (Running(r) \/ Handling(r)) /\ (Running(s) \/ Handling(s)) => r = s

\* A run is called interrupted only when the process that began it is gone, so
\* the sweep at startup spares the run asked for while it was starting
\* (backups.go, MarkInterrupted).
InterruptedOutlivedItsProcess ==
  \A r \in Runs : rows[r].status = "interrupted" => owner[r] < starts

\* At most one backup is under way, it is one somebody will finish, and only a
\* dead process's is called interrupted.
RunsAreHandled ==
  TypeOK /\ RunningIsHandled /\ OneAtATime /\ InterruptedOutlivedItsProcess

\* How a run ended is written once (backups.go, FinishRun).
EndIsFinal ==
  [][\A r \in Runs : rows[r].status \notin {"none", "running"} => rows'[r] \in {rows[r], NoRow}]_vars

\* A scheduled instant is taken at most once, by the timer or by catching up,
\* whatever restarts lie between (runner.go, Run and catchUp).
OncePerInstant ==
  [][\A r \in Runs : rows[r] = NoRow /\ rows'[r].trig = "schedule"
       => Previous(rows'[r].at) \notin taken]_vars

\* The history is true: an end is not rewritten, an instant not taken twice.
HistoryIsTrue == EndIsFinal /\ OncePerInstant

\* What the policy allows to go for a period: an archive is not the newest of
\* its period, or as many newer periods are there as are to be kept.
PeriodIsCovered(a, newer, n, period) ==
  \/ \E b \in newer : period[b.at] = period[a.at]
  \/ Cardinality({period[b.at] : b \in newer}) >= n

\* Retention acts on a listing that may leave any archive out, and still never
\* deletes another host's archive, one of the newest Policy.last, or the newest
\* of one of the newest Policy.daily days, Policy.weekly weeks or
\* Policy.monthly months, of all that the destination holds (docs/backup.md,
\* How many are kept).
RecentAreKept ==
  [][\A d \in Dests : \A a \in held[d] \ held'[d] :
       LET newer == {b \in held[d] : b.slug = a.slug /\ Newer(b, a)}
       IN  /\ a.slug = Us /\ Cardinality(newer) >= Policy.last
           /\ PeriodIsCovered(a, newer, Policy.daily, Day)
           /\ PeriodIsCovered(a, newer, Policy.weekly, Week)
           /\ PeriodIsCovered(a, newer, Policy.monthly, Month)]_vars

\* A listing that leaves out the archive just uploaded, or that has less than
\* half of what was there last time, deletes nothing, whatever the destination
\* really holds; nor does it become what the next is measured against
\* (docs/backup.md: "never pruned on"; retention.go, UnknownSeen).
ShortListingsChangeNothing ==
  [][\A d \in Dests :
       LET listed == Ours(worker'.listing)
           full   == /\ Archive \in listed
                     /\ lastSeen[d] < 4 \/ Cardinality(listed) >= lastSeen[d] \div 2
       IN  /\ held[d] \ held'[d] # {} => full
           /\ lastSeen'[d] # lastSeen[d] => full /\ lastSeen'[d] = Cardinality(listed)]_vars

\* What a destination leaves out of a listing costs no archive that the policy
\* promises to keep, now or at the next run.
RetentionKeepsItsWord == RecentAreKept /\ ShortListingsChangeNothing

\* Every accepted backup ends: it is carried out, or a later start calls it
\* interrupted, unless the write that would have said so was refused
\* (runner.go, execute: "always settles the row").
EveryRunEnds ==
  \A r \in Runs : Running(r) ~> (~Running(r) \/ r \in orphaned)
=============================================================================
