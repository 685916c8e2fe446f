------------------------------- MODULE Tunnel -------------------------------
(* The supervised tunnel: internal/tunnel/tunnel.go (Manager) and           *)
(* internal/tunnel/group.go (Group), for one tunnel id.                     *)
(*                                                                          *)
(* A Manager owns at most one client at a time. Its lifecycle calls (Start, *)
(* Stop, Reconfigure, Restart, halt) run end to end under the mutex ops;    *)
(* its fields are guarded by a second mutex, mu, which a call takes several *)
(* times. A step here is one section under mu, or one wait of a caller that *)
(* holds ops. Three goroutines are detached from the call that made them:   *)
(* the retry timer, the halt after a rejected key and the restart the       *)
(* watchdog asks for.                                                       *)
(*                                                                          *)
(* A Group maps the tunnel id to a manager. Its calls read the map, then    *)
(* work on the manager they found with the map unlocked.                    *)
EXTENDS Naturals, FiniteSets, TLC

CONSTANTS Configs,      \* configurations an operator can store
          EnabledCfg,   \* those with the tunnel switched on
          ValidCfg,     \* those Validate accepts
          Threads,      \* goroutines and callers
          NoTunnel,     \* the setting of a host with no tunnel assigned
          Nil,
          StillDownAfter,
          MaxManagers, MaxClients, MaxSettings, MaxFaults, MaxCalls

ASSUME TunnelAssumption ==
  /\ EnabledCfg \subseteq Configs /\ ValidCfg \subseteq Configs
  /\ NoTunnel \notin Configs /\ Nil \notin Threads
  /\ {MaxManagers, MaxClients, StillDownAfter} \subseteq Nat \ {0}
  /\ {MaxSettings, MaxFaults, MaxCalls} \subseteq Nat

Managers == 1 .. MaxManagers
Clients  == 1 .. MaxClients

VARIABLES
  setting,   \* what tunnelConfigs resolves for this id: a config or NoTunnel
  phase,     \* of the host: Group.started is phase # "boot"
  mapped,    \* Group.managers[key], 0 when absent
  listed,    \* whether Group.order names the key
  mgr,       \* each manager's fields
  ops,       \* who holds each manager's ops
  client,    \* each client: its manager, its phase, what it has reported
  timers,    \* retry timers that may still call retryNow, by manager
  thread,    \* each caller's position
  settings, faults, calls   \* bounds

groupVars == <<setting, phase, mapped, listed>>
bounds == <<settings, faults, calls>>
vars == <<setting, phase, mapped, listed, mgr, ops, client, timers, thread,
          settings, faults, calls>>
-----------------------------------------------------------------------------
(* Manager fields and the sections under mu that change them.               *)

Unborn == [st |-> "unborn", cfg |-> NoTunnel, cancel |-> 0, retry |-> FALSE,
           attempts |-> 0, failedBefore |-> FALSE, told |-> "nothing",
           rejected |-> FALSE]

NewManager(c) == [Unborn EXCEPT !.st = "stopped", !.cfg = c]

\* The section under mu in stop: every trace of the last run is reset.
StopFields(r) ==
  [r EXCEPT !.st = "stopped", !.cancel = 0, !.retry = FALSE, !.attempts = 0,
            !.failedBefore = FALSE, !.told = "nothing"]

Schedules(r, retryable) == retryable /\ r.cfg \in EnabledCfg /\ ~r.retry

\* Nobody is told that a failure being retried has become final.
FailFieldsSilent(r, retryable) ==
  LET attempt == IF Schedules(r, retryable) THEN r.attempts + 1 ELSE 0
      notice  == CASE r.st # "failed" /\ ~r.failedBefore
                        -> IF retryable THEN "retrying" ELSE "final"
                   [] retryable /\ attempt = StillDownAfter -> "retrying"
                   [] OTHER -> r.told
  IN [r EXCEPT !.st = "failed", !.failedBefore = TRUE, !.told = notice,
               !.retry = @ \/ Schedules(r, retryable),
               !.attempts = IF Schedules(r, retryable) THEN @ + 1 ELSE @]

\* failWithCode: the state, the supervisor's next attempt, and the notice.
FailFields(r, retryable) ==
  LET attempt == IF Schedules(r, retryable) THEN r.attempts + 1 ELSE 0
      notice  == CASE r.st # "failed" /\ ~r.failedBefore
                        -> IF retryable THEN "retrying" ELSE "final"
                   [] retryable /\ attempt = StillDownAfter -> "retrying"
                   [] ~retryable /\ r.st # "failed" -> "final"
                   [] OTHER -> r.told
  IN [r EXCEPT !.st = "failed", !.failedBefore = TRUE, !.told = notice,
               !.retry = @ \/ Schedules(r, retryable),
               !.attempts = IF Schedules(r, retryable) THEN @ + 1 ELSE @]

\* Connected claimed whatever happened in the meantime.
ReadyFieldsAnyState(r) ==
  [r EXCEPT !.st = "connected", !.attempts = 0, !.failedBefore = FALSE,
            !.told = "nothing"]

\* The goroutine that watches client.Ready().
ReadyFields(r) ==
  IF r.st = "starting"
  THEN [r EXCEPT !.st = "connected", !.attempts = 0, !.failedBefore = FALSE,
                 !.told = "nothing"]
  ELSE r

-----------------------------------------------------------------------------
Idle == [job |-> "none", pc |-> "idle", m |-> 0, want |-> NoTunnel]

NoClient == [owner |-> 0, phase |-> "unborn", did |-> {}]

\* buildTunnel has applied the stored settings; nothing is connected yet.
Init ==
  /\ setting \in Configs \cup {NoTunnel}
  /\ phase = "boot"
  /\ mapped = IF setting = NoTunnel THEN 0 ELSE 1
  /\ listed = (setting # NoTunnel)
  /\ mgr = [m \in Managers |-> IF m = mapped THEN NewManager(setting) ELSE Unborn]
  /\ ops = [m \in Managers |-> Nil]
  /\ client = [c \in Clients |-> NoClient]
  /\ timers = [m \in Managers |-> 0]
  /\ thread = [t \in Threads |-> Idle]
  /\ settings = 0 /\ faults = 0 /\ calls = 0

Fresh(t) == thread[t].pc = "idle"

Spawn(t, job, pc, m) ==
  thread' = [thread EXCEPT ![t] = [job |-> job, pc |-> pc, m |-> m, want |-> NoTunnel]]

Goto(t, pc) == thread' = [thread EXCEPT ![t].pc = pc]
Return(t) == thread' = [thread EXCEPT ![t] = Idle]

\* The call is over: Apply goes on to store the order, the others end.
Finish(t) == IF thread[t].job \in {"create", "reconfigure"} THEN Goto(t, "order")
             ELSE Return(t)

Live(m) == {c \in Clients : client[c].owner = m /\ client[c].phase = "running"}
Ending(m) == {c \in Clients : client[c].owner = m /\ client[c].phase = "ending"}

\* The cancel function, if there is one.
Cancel(m) ==
  client' = [c \in Clients |->
               IF c = mgr[m].cancel /\ client[c].phase = "running"
               THEN [client[c] EXCEPT !.phase = "ending"] ELSE client[c]]
-----------------------------------------------------------------------------
(* Lifecycle calls. The caller takes ops with its first section under mu.   *)

Lock(t, m) == ops[m] = Nil /\ ops' = [ops EXCEPT ![m] = t]
Unlock(m) == ops' = [ops EXCEPT ![m] = Nil]

\* start: nothing to do when it is starting or connected already.
StartReturns(t) ==
  /\ thread[t].pc = "lock" /\ thread[t].job \in {"start", "create"}
  /\ ops[thread[t].m] = Nil
  /\ mgr[thread[t].m].st \in {"starting", "connected"}
  /\ Finish(t)
  /\ UNCHANGED <<groupVars, mgr, ops, client, timers, bounds>>

\* The check for a tunnel that is up already forgotten.
StartBeginsAnyway(t) ==
  LET m == thread[t].m IN
  /\ thread[t].pc = "lock" /\ thread[t].job \in {"start", "create"}
  /\ Lock(t, m)
  /\ mgr' = [mgr EXCEPT ![m].st = "starting"]
  /\ thread' = [thread EXCEPT ![t].pc = "dial", ![t].want = mgr[m].cfg]
  /\ UNCHANGED <<groupVars, client, timers, bounds>>

StartBegins(t) ==
  LET m == thread[t].m IN
  /\ thread[t].pc = "lock" /\ thread[t].job \in {"start", "create"}
  /\ mgr[m].st \notin {"starting", "connected"}
  /\ Lock(t, m)
  /\ mgr' = [mgr EXCEPT ![m].st = "starting"]
  /\ thread' = [thread EXCEPT ![t].pc = "dial", ![t].want = mgr[m].cfg]
  /\ UNCHANGED <<groupVars, client, timers, bounds>>

Fail(m, retryable) ==
  /\ mgr' = [mgr EXCEPT ![m] = FailFields(@, retryable)]
  /\ timers' = [timers EXCEPT ![m] = IF Schedules(mgr[m], retryable) THEN @ + 1 ELSE @]

\* The bound on clients is reached: no further dial can succeed.
NoClientLeft == \A c \in Clients : client[c].phase # "unborn"

\* Validate refuses the snapshot, or the server cannot be built.
DialRefused(t) ==
  LET m == thread[t].m IN
  /\ thread[t].pc = "dial"
  /\ \/ thread[t].want \notin ValidCfg /\ faults' = faults
     \/ thread[t].want \in ValidCfg /\ faults < MaxFaults /\ faults' = faults + 1
     \/ NoClientLeft /\ faults' = faults
  /\ Fail(m, FALSE)
  /\ Unlock(m) /\ Finish(t)
  /\ UNCHANGED <<groupVars, client, settings, calls>>

\* newRuntime or client.Start returns an error.
DialFails(t) ==
  LET m == thread[t].m IN
  /\ thread[t].pc = "dial" /\ thread[t].want \in ValidCfg
  /\ faults < MaxFaults /\ faults' = faults + 1
  /\ Fail(m, TRUE)
  /\ Unlock(m) /\ Finish(t)
  /\ UNCHANGED <<groupVars, client, settings, calls>>

NextClient(c) ==
  /\ client[c].phase = "unborn"
  /\ \A d \in Clients : client[d].phase = "unborn" => c <= d

\* The client runs, its three goroutines run, and cancel reaches it.
DialSucceeds(t) ==
  LET m == thread[t].m IN
  /\ thread[t].pc = "dial" /\ thread[t].want \in ValidCfg
  /\ \E c \in Clients :
       /\ NextClient(c)
       /\ client' = [client EXCEPT ![c] = [owner |-> m, phase |-> "running", did |-> {}]]
       /\ mgr' = [mgr EXCEPT ![m].cancel = c]
  /\ Unlock(m) /\ Finish(t)
  /\ UNCHANGED <<groupVars, timers, bounds>>

\* retry.Stop: a timer that has fired already still calls retryNow.
StopTimer(m) ==
  \/ timers' = timers
  \/ mgr[m].retry /\ timers[m] > 0 /\ timers' = [timers EXCEPT ![m] = @ - 1]

\* stop, called by every job that takes a client down and resets the state.
StopSection(t) ==
  LET m == thread[t].m IN
  /\ thread[t].pc = "lock"
  /\ thread[t].job \in {"restart", "reconfigure", "remove", "rebuild", "shutdown"}
  /\ Lock(t, m)
  /\ mgr' = [mgr EXCEPT ![m] = StopFields(@)]
  /\ Cancel(m) /\ StopTimer(m)
  /\ Goto(t, "wait")
  /\ UNCHANGED <<groupVars, bounds>>

\* halt: the client goes and the failure stays.
HaltSection(t) ==
  LET m == thread[t].m IN
  /\ thread[t].pc = "lock" /\ thread[t].job = "halt"
  /\ Lock(t, m)
  /\ mgr' = [mgr EXCEPT ![m].cancel = 0]
  /\ Cancel(m)
  /\ Goto(t, "wait")
  /\ UNCHANGED <<groupVars, timers, bounds>>

\* running.Wait returns once no client of the manager is left, or the
\* caller's context expires first and the client is left ending.
Waited(m) == Live(m) \cup Ending(m) = {} /\ UNCHANGED faults
TimedOut(m) == Live(m) \cup Ending(m) # {} /\ faults < MaxFaults /\ faults' = faults + 1

\* Stop and halt return; a rebuild goes on only if the stop was clean.
WaitReturns(t) ==
  LET m == thread[t].m IN
  /\ thread[t].pc = "wait"
  /\ \/ Waited(m) /\ thread[t].job \in {"halt", "shutdown"} /\ Return(t)
     \/ Waited(m) /\ thread[t].job = "remove" /\ Goto(t, "drop")
     \/ Waited(m) /\ thread[t].job = "rebuild" /\ Goto(t, "swap")
     \/ TimedOut(m) /\ thread[t].job \in {"halt", "shutdown", "rebuild"} /\ Return(t)
     \/ TimedOut(m) /\ thread[t].job = "remove" /\ Goto(t, "drop")
  /\ Unlock(m)
  /\ UNCHANGED <<groupVars, mgr, client, timers, settings, calls>>

\* Restart goes on to start with the configuration the manager has, and
\* Reconfigure with the one it was given, if that is switched on. Neither is
\* stopped by a stop that timed out.
RestartGoesOn(t) ==
  LET m == thread[t].m IN
  /\ thread[t].pc = "wait" /\ thread[t].job = "restart"
  /\ Waited(m) \/ TimedOut(m)
  /\ mgr' = [mgr EXCEPT ![m].st = "starting"]
  /\ thread' = [thread EXCEPT ![t].pc = "dial", ![t].want = mgr[m].cfg]
  /\ UNCHANGED <<groupVars, ops, client, timers, settings, calls>>

ReconfigureGoesOn(t) ==
  LET m == thread[t].m IN
  /\ thread[t].pc = "wait" /\ thread[t].job = "reconfigure"
  /\ Waited(m) \/ TimedOut(m)
  /\ \/ /\ thread[t].want \in EnabledCfg
        /\ mgr' = [mgr EXCEPT ![m].cfg = thread[t].want, ![m].st = "starting"]
        /\ Goto(t, "dial") /\ UNCHANGED ops
     \/ /\ thread[t].want \notin EnabledCfg
        /\ mgr' = [mgr EXCEPT ![m].cfg = thread[t].want, ![m].st = "stopped"]
        /\ Unlock(m) /\ Goto(t, "order")
  /\ UNCHANGED <<groupVars, client, timers, settings, calls>>
-----------------------------------------------------------------------------
(* What a client and the timers report, with no lock but mu.                *)

Reporting(c) == client[c].phase \in {"running", "ending"}
Did(c, what) == client' = [client EXCEPT ![c].did = @ \cup {what}]

ClientReady(c) ==
  /\ Reporting(c) /\ "ready" \notin client[c].did
  /\ Did(c, "ready")
  /\ mgr' = [mgr EXCEPT ![client[c].owner] = ReadyFields(@)]
  /\ UNCHANGED <<groupVars, ops, timers, thread, bounds>>

\* The control plane refuses the key: a final failure, and a halt of its own.
ClientRejected(c, t) ==
  /\ Reporting(c) /\ "rejected" \notin client[c].did
  /\ faults < MaxFaults /\ faults' = faults + 1
  /\ Fresh(t) /\ Spawn(t, "halt", "lock", client[c].owner)
  /\ Did(c, "rejected")
  /\ LET m == client[c].owner IN
       mgr' = [mgr EXCEPT ![m] = [FailFields(@, FALSE) EXCEPT !.rejected = TRUE]]
  /\ UNCHANGED <<groupVars, ops, timers, settings, calls>>

\* The client has complained for restartAfter with nothing served since, which
\* noteTrouble and noteRequest time and degradedLocked measures.
WatchdogRestarts(c, t) ==
  /\ client[c].phase = "running" /\ "watchdog" \notin client[c].did
  /\ mgr[client[c].owner].st = "connected"
  /\ Fresh(t) /\ Spawn(t, "restart", "lock", client[c].owner)
  /\ Did(c, "watchdog")
  /\ UNCHANGED <<groupVars, mgr, ops, timers, bounds>>

\* The watchdog restarts in its own goroutine, which the stop waits for.
ClientEndsAfterItsRestart(c) ==
  /\ client[c].phase = "ending"
  /\ \A t \in Threads : thread[t].job = "restart" => thread[t].m # client[c].owner
  /\ client' = [client EXCEPT ![c] = [NoClient EXCEPT !.phase = "gone"]]
  /\ UNCHANGED <<groupVars, mgr, ops, timers, thread, bounds>>

\* client.Stop after the run context was cancelled.
ClientEnds(c) ==
  /\ client[c].phase = "ending"
  /\ client' = [client EXCEPT ![c] = [NoClient EXCEPT !.phase = "gone"]]
  /\ UNCHANGED <<groupVars, mgr, ops, timers, thread, bounds>>

\* retryNow decides under mu and calls Start with it released.
RetryNow(m, t) ==
  /\ timers[m] > 0 /\ timers' = [timers EXCEPT ![m] = @ - 1]
  /\ mgr' = [mgr EXCEPT ![m].retry = FALSE]
  /\ IF mgr[m].cfg \in EnabledCfg /\ mgr[m].st = "failed"
     THEN Fresh(t) /\ Spawn(t, "start", "lock", m)
     ELSE UNCHANGED thread
  /\ UNCHANGED <<groupVars, ops, client, bounds>>
-----------------------------------------------------------------------------
(* The group.                                                               *)

\* A save in the dashboard; the settings watcher spawns an Apply.
SettingsChange(t, s) ==
  /\ settings < MaxSettings /\ settings' = settings + 1
  /\ s # setting /\ setting' = s
  /\ Fresh(t) /\ Spawn(t, "apply", "read", 0)
  /\ UNCHANGED <<phase, mapped, listed, mgr, ops, client, timers, faults, calls>>

ApplyReads(t) ==
  /\ thread[t].pc = "read"
  /\ thread' = [thread EXCEPT ![t].pc = "find", ![t].want = setting]
  /\ UNCHANGED <<groupVars, mgr, ops, client, timers, bounds>>

\* The copy of the map decides what Apply does with this id.
ApplyFinds(t) ==
  LET want == thread[t].want IN
  /\ thread[t].pc = "find" /\ thread[t].job = "apply"
  /\ \/ mapped = 0 /\ want = NoTunnel /\ Goto(t, "order")
     \/ mapped = 0 /\ want # NoTunnel /\ Goto(t, "create")
     \/ /\ mapped # 0 /\ want = NoTunnel
        /\ thread' = [thread EXCEPT ![t].job = "remove", ![t].pc = "lock", ![t].m = mapped]
     \/ /\ mapped # 0 /\ want # NoTunnel /\ mgr[mapped].cfg = want /\ Goto(t, "order")
     \/ /\ mapped # 0 /\ want # NoTunnel /\ mgr[mapped].cfg # want
        /\ thread' = [thread EXCEPT ![t].job = "reconfigure", ![t].pc = "lock", ![t].m = mapped]
  /\ UNCHANGED <<groupVars, mgr, ops, client, timers, bounds>>

Born == {m \in Managers : mgr[m].st # "unborn"}
NextManager == Cardinality(Born) + 1

\* NewManager, put in the map and, on a serving host, started if it is on.
Adopt(t, job, idle) ==
  /\ NextManager \in Managers
  /\ mgr' = [mgr EXCEPT ![NextManager] = NewManager(thread[t].want)]
  /\ mapped' = NextManager
  /\ IF phase # "boot" /\ thread[t].want \in EnabledCfg
     THEN thread' = [thread EXCEPT ![t].job = job, ![t].pc = "lock", ![t].m = NextManager]
     ELSE thread' = [thread EXCEPT ![t] = idle]
  /\ UNCHANGED <<setting, phase, listed, ops, client, timers, bounds>>

ApplyCreates(t) ==
  /\ thread[t].pc = "create"
  /\ Adopt(t, "create", [thread[t] EXCEPT !.pc = "order"])

ApplyDrops(t) ==
  /\ thread[t].pc = "drop"
  /\ mapped' = 0
  /\ Goto(t, "order")
  /\ UNCHANGED <<setting, phase, listed, mgr, ops, client, timers, bounds>>

ApplyOrders(t) ==
  /\ thread[t].pc = "order"
  /\ listed' = (thread[t].want # NoTunnel)
  /\ Return(t)
  /\ UNCHANGED <<setting, phase, mapped, mgr, ops, client, timers, bounds>>

\* A plugin was remounted, or somebody pressed Restart.
CallRebuild(t) ==
  /\ calls < MaxCalls /\ calls' = calls + 1
  /\ mapped # 0
  /\ Fresh(t)
  /\ thread' = [thread EXCEPT ![t] = [job |-> "rebuild", pc |-> "lock", m |-> mapped,
                                      want |-> mgr[mapped].cfg]]
  /\ UNCHANGED <<groupVars, mgr, ops, client, timers, settings, faults>>

\* The replacement is put back whatever the map holds by now.
RebuildSwaps(t) ==
  /\ thread[t].pc = "swap"
  /\ Adopt(t, "start", Idle)

\* Group.Start once the listeners answer, and Group.Stop at shutdown.
GroupStart(t) ==
  /\ phase = "boot" /\ phase' = "serving"
  /\ IF listed /\ mapped # 0 THEN Fresh(t) /\ Spawn(t, "start", "lock", mapped)
     ELSE UNCHANGED thread
  /\ UNCHANGED <<setting, mapped, listed, mgr, ops, client, timers, bounds>>

GroupStop(t) ==
  /\ phase = "serving" /\ phase' = "down"
  /\ IF listed /\ mapped # 0 THEN Fresh(t) /\ Spawn(t, "shutdown", "lock", mapped)
     ELSE UNCHANGED thread
  /\ UNCHANGED <<setting, mapped, listed, mgr, ops, client, timers, bounds>>
-----------------------------------------------------------------------------
Step(t) ==
  \/ StartReturns(t) \/ StartBegins(t) \/ DialRefused(t) \/ DialFails(t)
  \/ DialSucceeds(t) \/ StopSection(t) \/ HaltSection(t) \/ WaitReturns(t)
  \/ RestartGoesOn(t) \/ ReconfigureGoesOn(t)
  \/ ApplyReads(t) \/ ApplyFinds(t) \/ ApplyCreates(t) \/ ApplyDrops(t)
  \/ ApplyOrders(t) \/ RebuildSwaps(t)

Next ==
  \/ \E t \in Threads :
       \/ Step(t) \/ CallRebuild(t) \/ GroupStart(t) \/ GroupStop(t)
       \/ \E s \in Configs \cup {NoTunnel} : SettingsChange(t, s)
       \/ \E c \in Clients : ClientRejected(c, t) \/ WatchdogRestarts(c, t)
       \/ \E m \in Managers : RetryNow(m, t)
  \/ \E c \in Clients :
       ClientReady(c) \/ ClientEnds(c)

Spec == Init /\ [][Next]_vars

\* Goroutines are scheduled, and every wait and dial has a deadline of its own
\* (10 seconds for client.Stop, 10 to 60 for the callers' contexts).
FairSpec ==
  /\ Spec
  /\ \A t \in Threads : WF_vars(Step(t))
  /\ \A c \in Clients : WF_vars(ClientEnds(c))
-----------------------------------------------------------------------------
(* Every variable holds a value of its kind.                                *)
TypeOK ==
  /\ setting \in Configs \cup {NoTunnel}
  /\ phase \in {"boot", "serving", "down"}
  /\ mapped \in 0 .. MaxManagers /\ listed \in BOOLEAN
  /\ \A m \in Managers :
       /\ mgr[m].st \in {"unborn", "stopped", "starting", "connected", "failed"}
       /\ mgr[m].cancel \in 0 .. MaxClients
       /\ mgr[m].told \in {"nothing", "retrying", "final"}
       /\ ops[m] \in Threads \cup {Nil}
       /\ timers[m] \in 0 .. MaxFaults
  /\ \A c \in Clients : client[c].phase \in {"unborn", "running", "ending", "gone"}

\* Whether a client of this manager was refused its key. The halt that follows
\* is detached, and what it meets when it gets ops is outside these properties.
Rejected(m) == m \in Managers /\ mgr[m].rejected

(* A manager that reads stopped, with no call under way, runs no client:    *)
(* stop takes the client down whichever call made it.                       *)
StoppedIsSilent ==
  \A m \in Managers :
    ops[m] = Nil /\ mgr[m].st = "stopped" /\ ~Rejected(m) => Live(m) = {}

(* A manager never runs two clients, however retries, restarts, rebuilds    *)
(* and reconfigurations interleave: cancel reaches the only one there is.   *)
OneClientPerManager == \A m \in Managers : ~Rejected(m) => Cardinality(Live(m)) <= 1

(* A manager that reads starting or connected, with no call under way, has  *)
(* a client behind it: a readiness that arrives after a stop claims nothing. *)
ServingIsBacked ==
  \A m \in Managers :
    /\ ops[m] = Nil /\ mgr[m].st \in {"starting", "connected"} /\ ~Rejected(m)
    => Live(m) # {}

(* What a manager reports, once no call is under way, is what it runs.      *)
ReportsAreTrue == TypeOK /\ StoppedIsSilent /\ ServingIsBacked

(* Whoever was told that mcpd would keep trying was told when it stopped: a *)
(* tunnel that failed, with nothing left that will retry it, was reported   *)
(* as final.  Except one that is switched off in its settings and runs all  *)
(* the same: Group.Start starts every manager that is not disabled, and a   *)
(* retry that was already under way starts one that Reconfigure has just    *)
(* switched off.  Its failure was reported, but maybe as being retried,     *)
(* though no attempt is ever scheduled for it (failWithCode).               *)
ToldTheTruth ==
  \A m \in Managers :
    /\ mgr[m].st = "failed" /\ timers[m] = 0
    /\ \A t \in Threads : thread[t].m # m
    => \/ mgr[m].told = "final"
       \/ mgr[m].cfg \notin EnabledCfg /\ mgr[m].told = "retrying"

(* Every call that waits for ops, for the goroutines of a client or for a   *)
(* dial goes on, without waiting out its deadline: no goroutine the stop    *)
(* waits for waits for the stop.                                            *)
EveryCallReturns ==
  \A t \in Threads : thread[t].pc \in {"lock", "wait", "dial"} ~>
    thread[t].pc \notin {"lock", "wait", "dial"} \/ Rejected(thread[t].m)

=============================================================================
