---------------------------- MODULE TunnelProofs ----------------------------
(* What holds of a supervised tunnel for any number of managers, clients,   *)
(* callers, retries and faults.                                             *)
EXTENDS Tunnel, FiniteSetTheorems, TLAPS

Starting == {"start", "create", "restart", "reconfigure"}
Stopping == {"restart", "reconfigure", "remove", "rebuild", "shutdown"}
Jobs == Starting \cup Stopping \cup {"none", "apply", "halt"}
Pcs == {"idle", "read", "find", "create", "lock", "dial", "wait", "drop", "swap", "order"}

MgrState ==
  [st : {"unborn", "stopped", "starting", "connected", "failed"},
   cfg : Configs \cup {NoTunnel}, cancel : 0 .. MaxClients, retry : BOOLEAN,
   attempts : Nat, failedBefore : BOOLEAN, told : {"nothing", "retrying", "final"},
   rejected : BOOLEAN]
ClientState ==
  [owner : 0 .. MaxManagers, phase : {"unborn", "running", "ending", "gone"},
   did : SUBSET {"ready", "rejected", "watchdog"}]
ThreadState ==
  [job : Jobs, pc : Pcs, m : 0 .. MaxManagers, want : Configs \cup {NoTunnel}]

TypeInv ==
  /\ setting \in Configs \cup {NoTunnel}
  /\ phase \in {"boot", "serving", "down"}
  /\ mapped \in 0 .. MaxManagers /\ listed \in BOOLEAN
  /\ mgr \in [Managers -> MgrState]
  /\ ops \in [Managers -> Threads \cup {Nil}]
  /\ client \in [Clients -> ClientState]
  /\ timers \in [Managers -> Nat] /\ faults \in 0 .. MaxFaults
  /\ \A m \in Managers : timers[m] <= faults
  /\ thread \in [Threads -> ThreadState]

\* The manager's mutex is held from the first section of a call to its last.
Holds(t) == thread[t].pc \in {"dial", "wait"}

(* Whoever is in the middle of a call holds ops, and ops is held by such a  *)
(* one; what a call works on is a manager, and a halt follows a rejection.  *)
OwnInv ==
  /\ \A t \in Threads :
       /\ thread[t].pc \in {"lock", "dial", "wait", "swap"} => thread[t].m \in Managers
       /\ Holds(t) => ops[thread[t].m] = t
       /\ thread[t].pc = "dial" => thread[t].job \in Starting
       /\ thread[t].pc = "wait" => thread[t].job \in Stopping \cup {"halt"}
       /\ thread[t].pc \in {"lock", "wait"} /\ thread[t].job = "halt"
            => mgr[thread[t].m].rejected
  /\ \A m \in Managers : ops[m] # Nil => thread[ops[m]].m = m /\ Holds(ops[m])

(* Managers come into being in order, and nobody refers to one before.      *)
BornInv ==
  /\ \E k \in 0 .. MaxManagers : Born = 1 .. k
  /\ mapped \in Born \cup {0}
  /\ \A t \in Threads : thread[t].m \in Born \cup {0}
  /\ \A c \in Clients : client[c].phase \in {"running", "ending"} => client[c].owner \in Born

\* The cancel function of a manager reaches no client but its own.
CancelInv ==
  \A m \in Managers : mgr[m].cancel # 0 =>
    /\ client[mgr[m].cancel].phase # "unborn"
    /\ client[mgr[m].cancel].phase \in {"running", "ending"}
         => client[mgr[m].cancel].owner = m

(* A manager that was not refused its key runs nothing but what cancel      *)
(* reaches: nothing while a call is under way, nothing once it is stopped   *)
(* or failed, and something while it reads starting or connected.           *)
LiveAt(m) ==
  ~mgr[m].rejected =>
    /\ Live(m) \subseteq {mgr[m].cancel}
    /\ ops[m] # Nil \/ mgr[m].st \in {"unborn", "stopped", "failed"} => Live(m) = {}
    /\ ops[m] = Nil /\ mgr[m].st \in {"starting", "connected"} => Live(m) # {}
    /\ ops[m] # Nil /\ thread[ops[m]].pc = "wait" => mgr[m].st = "stopped"
    /\ ops[m] # Nil /\ thread[ops[m]].pc = "dial" => mgr[m].st \in {"starting", "connected"}

LiveInv == \A m \in Managers : LiveAt(m)

Retries(m) ==
  \/ timers[m] > 0
  \/ \E t \in Threads :
       thread[t].m = m /\ thread[t].pc = "lock" /\ thread[t].job \in {"start", "create"}

(* No failure goes without a report. *)
Announced(r) == r.st = "failed" \/ r.failedBefore => r.told \in {"retrying", "final"}

(* A failure that was not reported as final will be retried. A client left  *)
(* ending may be refused its key while the next one is dialled, and then    *)
(* the failure was final before the dial returned.                          *)
ToldAt(m) ==
  /\ mgr[m].retry => timers[m] > 0
  /\ mgr[m].st = "failed" /\ mgr[m].cfg \in EnabledCfg /\ mgr[m].told # "final" => Retries(m)
  /\ ops[m] # Nil /\ thread[ops[m]].pc = "dial" =>
       \/ mgr[m].st \in {"starting", "connected"}
       \/ mgr[m].st = "failed" /\ mgr[m].told = "final"
  /\ Announced(mgr[m])

ToldInv == \A m \in Managers : ToldAt(m)

IInv == TypeInv /\ OwnInv /\ BornInv /\ CancelInv /\ LiveInv /\ ToldInv

-----------------------------------------------------------------------------
(* The fields of a manager.                                                 *)

LEMMA Stops ==
  ASSUME NEW r \in MgrState
  PROVE  /\ StopFields(r) \in MgrState
         /\ StopFields(r).st = "stopped" /\ StopFields(r).cancel = 0
         /\ StopFields(r).rejected = r.rejected /\ StopFields(r).retry = FALSE
         /\ Announced(StopFields(r))
<1>1. 0 \in 0 .. MaxClients BY TunnelAssumption
<1>. QED BY <1>1 DEF StopFields, MgrState, Announced

LEMMA Fails ==
  ASSUME NEW r \in MgrState, NEW retryable \in BOOLEAN
  PROVE  /\ FailFields(r, retryable) \in MgrState
         /\ FailFields(r, retryable).st = "failed"
         /\ FailFields(r, retryable).cfg = r.cfg
         /\ FailFields(r, retryable).cancel = r.cancel
         /\ FailFields(r, retryable).rejected = r.rejected
         /\ FailFields(r, retryable).retry = (r.retry \/ Schedules(r, retryable))
         /\ ~retryable => FailFields(r, retryable).told \in {"final", r.told}
         /\ ~retryable /\ r.st # "failed" => FailFields(r, retryable).told = "final"
         /\ Announced(r) => Announced(FailFields(r, retryable))
<1> DEFINE attempt == IF Schedules(r, retryable) THEN r.attempts + 1 ELSE 0
           notice == CASE r.st # "failed" /\ ~r.failedBefore
                             -> IF retryable THEN "retrying" ELSE "final"
                        [] retryable /\ attempt = StillDownAfter -> "retrying"
                        [] ~retryable /\ r.st # "failed" -> "final"
                        [] OTHER -> r.told
           again == r.retry \/ Schedules(r, retryable)
           count == IF Schedules(r, retryable) THEN r.attempts + 1 ELSE r.attempts
<1>1. notice \in {"retrying", "final", r.told} OBVIOUS
<1>2. ~retryable => notice \in {"final", r.told} OBVIOUS
<1>3. ~retryable /\ r.st # "failed" => notice = "final" OBVIOUS
<1>4. again \in BOOLEAN BY DEF MgrState
<1>5. count \in Nat BY DEF MgrState
<1>6. notice \in {"nothing", "retrying", "final"} BY <1>1 DEF MgrState
<1>7. Announced(r) => notice \in {"retrying", "final"}
      BY DEF Announced, MgrState
<1>8. FailFields(r, retryable) =
        [r EXCEPT !.st = "failed", !.failedBefore = TRUE, !.told = notice,
                  !.retry = again, !.attempts = count]
      BY DEF FailFields, MgrState
<1> HIDE DEF notice, again, count
<1>9. /\ FailFields(r, retryable) \in MgrState
      /\ FailFields(r, retryable).st = "failed"
      /\ FailFields(r, retryable).cfg = r.cfg
      /\ FailFields(r, retryable).cancel = r.cancel
      /\ FailFields(r, retryable).rejected = r.rejected
      /\ FailFields(r, retryable).retry = again
      /\ FailFields(r, retryable).told = notice
      BY <1>4, <1>5, <1>6, <1>8 DEF MgrState
<1>. QED BY <1>2, <1>3, <1>7, <1>9 DEF again, Announced

LEMMA Readies ==
  ASSUME NEW r \in MgrState
  PROVE  /\ ReadyFields(r) \in MgrState
         /\ ReadyFields(r).st = IF r.st = "starting" THEN "connected" ELSE r.st
         /\ ReadyFields(r).cancel = r.cancel /\ ReadyFields(r).cfg = r.cfg
         /\ ReadyFields(r).rejected = r.rejected /\ ReadyFields(r).retry = r.retry
         /\ r.st # "starting" => ReadyFields(r).told = r.told
         /\ Announced(r) => Announced(ReadyFields(r))
BY DEF ReadyFields, MgrState, Announced

-----------------------------------------------------------------------------
(* Types.                                                                   *)

LEMMA ManagersAre ==
  /\ 0 \notin Managers /\ Managers \subseteq 0 .. MaxManagers
  /\ 0 \notin Clients /\ Clients \subseteq 0 .. MaxClients
  /\ NoTunnel \in Configs \cup {NoTunnel} /\ Idle \in ThreadState /\ Idle.pc = "idle"
  /\ NoClient \in ClientState /\ Unborn \in MgrState
  /\ \A c \in Configs \cup {NoTunnel} : NewManager(c) \in MgrState
<1>1. /\ 0 \notin Managers /\ Managers \subseteq 0 .. MaxManagers
      /\ 0 \notin Clients /\ Clients \subseteq 0 .. MaxClients
      BY TunnelAssumption DEF Managers, Clients
<1>2. 0 \in 0 .. MaxManagers /\ 0 \in 0 .. MaxClients BY TunnelAssumption
<1>3. Idle \in ThreadState /\ Idle.pc = "idle" BY <1>2 DEF Idle, ThreadState, Jobs, Pcs
<1>4. NoClient \in ClientState BY <1>2 DEF NoClient, ClientState
<1>5. Unborn \in MgrState BY <1>2 DEF Unborn, MgrState
<1>6. \A c \in Configs \cup {NoTunnel} : NewManager(c) \in MgrState
      BY <1>5 DEF NewManager, MgrState
<1>. QED BY <1>1, <1>3, <1>4, <1>5, <1>6

LEMMA InitType == Init => TypeInv
<1> SUFFICES ASSUME Init PROVE TypeInv OBVIOUS
<1>1. mapped \in 0 .. MaxManagers BY TunnelAssumption DEF Init
<1>2. mgr \in [Managers -> MgrState] BY ManagersAre DEF Init
<1>3. client \in [Clients -> ClientState] /\ thread \in [Threads -> ThreadState]
      BY ManagersAre DEF Init
<1>4. ops \in [Managers -> Threads \cup {Nil}] BY DEF Init
<1>5. timers \in [Managers -> Nat] /\ faults \in 0 .. MaxFaults
        /\ \A m \in Managers : timers[m] <= faults
      BY TunnelAssumption DEF Init
<1>6. /\ setting \in Configs \cup {NoTunnel} /\ phase \in {"boot", "serving", "down"}
      /\ listed \in BOOLEAN
      BY DEF Init
<1>. QED BY <1>1, <1>2, <1>3, <1>4, <1>5, <1>6 DEF TypeInv

\* Nobody but t goes anywhere.
Moves(t) == \A u \in Threads \ {t} : thread'[u] = thread[u]

LEMMA Goes ==
  ASSUME TypeInv, NEW t \in Threads, NEW pc \in Pcs, Goto(t, pc)
  PROVE  /\ thread' \in [Threads -> ThreadState] /\ Moves(t)
         /\ thread'[t].pc = pc /\ thread'[t].job = thread[t].job
         /\ thread'[t].m = thread[t].m /\ thread'[t].want = thread[t].want
<1> DEFINE s == [thread[t] EXCEPT !.pc = pc]
<1>1. s \in ThreadState /\ s.pc = pc /\ s.job = thread[t].job /\ s.m = thread[t].m
        /\ s.want = thread[t].want
      BY DEF TypeInv, ThreadState
<1>2. thread' = [thread EXCEPT ![t] = s] BY DEF Goto
<1>. QED BY <1>1, <1>2 DEF TypeInv, Moves

LEMMA Returns ==
  ASSUME TypeInv, NEW t \in Threads, Return(t)
  PROVE  thread' \in [Threads -> ThreadState] /\ Moves(t) /\ thread'[t] = Idle
BY ManagersAre DEF TypeInv, Moves, Return

LEMMA Finishes ==
  ASSUME TypeInv, NEW t \in Threads, Finish(t)
  PROVE  /\ thread' \in [Threads -> ThreadState] /\ Moves(t)
         /\ thread'[t].pc \in {"idle", "order"} /\ thread'[t].m \in {0, thread[t].m}
<1>1. CASE Goto(t, "order") BY <1>1, Goes DEF Pcs
<1>2. CASE Return(t) BY <1>2, Returns DEF Idle
<1>. QED BY <1>1, <1>2 DEF Finish

LEMMA Spawns ==
  ASSUME TypeInv, NEW t \in Threads, NEW job \in Jobs, NEW pc \in Pcs,
         NEW m \in 0 .. MaxManagers, Spawn(t, job, pc, m)
  PROVE  /\ thread' \in [Threads -> ThreadState] /\ Moves(t)
         /\ thread'[t].pc = pc /\ thread'[t].job = job /\ thread'[t].m = m
<1> DEFINE s == [job |-> job, pc |-> pc, m |-> m, want |-> NoTunnel]
<1>1. s \in ThreadState BY DEF ThreadState
<1>2. thread' = [thread EXCEPT ![t] = s] BY DEF Spawn
<1>. QED BY <1>1, <1>2 DEF TypeInv, Moves

\* A call gets as far as the section that makes it dial.
LEMMA Dials ==
  ASSUME TypeInv, NEW t \in Threads, NEW c \in Configs \cup {NoTunnel},
         thread' = [thread EXCEPT ![t].pc = "dial", ![t].want = c]
  PROVE  /\ thread' \in [Threads -> ThreadState] /\ Moves(t)
         /\ thread'[t].pc = "dial" /\ thread'[t].job = thread[t].job
         /\ thread'[t].m = thread[t].m
<1> DEFINE s == [thread[t] EXCEPT !.pc = "dial", !.want = c]
<1>1. s \in ThreadState /\ s.pc = "dial" /\ s.job = thread[t].job /\ s.m = thread[t].m
      BY DEF TypeInv, ThreadState, Pcs
<1>2. thread' = [thread EXCEPT ![t] = s] OBVIOUS
<1>. QED BY <1>1, <1>2 DEF TypeInv, Moves

\* A call turns to a manager, or to what is left to do without one.
LEMMA Turns ==
  ASSUME TypeInv, NEW t \in Threads, NEW job \in Jobs, NEW m \in 0 .. MaxManagers,
         thread' = [thread EXCEPT ![t].job = job, ![t].pc = "lock", ![t].m = m]
  PROVE  /\ thread' \in [Threads -> ThreadState] /\ Moves(t)
         /\ thread'[t].pc = "lock" /\ thread'[t].job = job /\ thread'[t].m = m
<1> DEFINE s == [thread[t] EXCEPT !.job = job, !.pc = "lock", !.m = m]
<1>1. s \in ThreadState /\ s.pc = "lock" /\ s.job = job /\ s.m = m
      BY DEF TypeInv, ThreadState, Pcs
<1>2. thread' = [thread EXCEPT ![t] = s] OBVIOUS
<1>. QED BY <1>1, <1>2 DEF TypeInv, Moves

-----------------------------------------------------------------------------
(* The steps that leave every manager and its mutex alone.                  *)

Quiet(t) ==
  /\ Moves(t) /\ UNCHANGED <<mgr, ops, timers>> /\ mapped' \in Born \cup {0}
  /\ \A c \in Clients : client'[c].owner = client[c].owner /\ client'[c].phase = client[c].phase
  /\ \/ thread'[t] = thread[t]
     \/ /\ ~Holds(t) /\ thread'[t].pc \notin {"dial", "wait"}
        /\ thread[t].pc = "lock" /\ thread[t].job \in {"start", "create"}
             => mgr[thread[t].m].st \in {"starting", "connected"}
        /\ thread'[t].m \in Born \cup {0}
        /\ thread'[t].pc \in {"lock", "swap"} => thread'[t].m # 0 /\ thread'[t].job # "halt"

QuietStep(t) ==
  \/ StartReturns(t) \/ ApplyReads(t) \/ ApplyFinds(t) \/ ApplyDrops(t) \/ ApplyOrders(t)
  \/ CallRebuild(t) \/ GroupStart(t) \/ GroupStop(t)
  \/ \E s \in Configs \cup {NoTunnel} : SettingsChange(t, s)
  \/ \E c \in Clients : WatchdogRestarts(c, t)

LEMMA QuietIsQuiet ==
  ASSUME TypeInv, OwnInv, BornInv, NEW t \in Threads, QuietStep(t)
  PROVE  TypeInv' /\ Quiet(t)
<1> USE DEF groupVars, bounds
<1>0. /\ Idle.pc = "idle" /\ Idle.m = 0 /\ Born \subseteq Managers
      /\ Managers \subseteq 0 .. MaxManagers /\ 0 \in 0 .. MaxManagers
      /\ thread[t].m \in Born \cup {0} /\ mapped \in Born \cup {0}
      BY ManagersAre, TunnelAssumption DEF Idle, Born, BornInv
<1>1. CASE StartReturns(t)
  <2>1. Finish(t) BY <1>1 DEF StartReturns
  <2>2. TypeInv' BY <1>1, <2>1, Finishes DEF StartReturns, TypeInv
  <2>3. /\ UNCHANGED <<mgr, ops, timers, mapped, client>> /\ thread[t].pc = "lock"
        /\ mgr[thread[t].m].st \in {"starting", "connected"}
        BY <1>1 DEF StartReturns
  <2>. QED BY <1>0, <2>1, <2>2, <2>3, Finishes DEF Quiet, Holds
<1>2. CASE ApplyReads(t)
  <2>1. setting \in Configs \cup {NoTunnel} BY DEF TypeInv
  <2> DEFINE s == [thread[t] EXCEPT !.pc = "find", !.want = setting]
  <2>2. s \in ThreadState /\ s.pc = "find" /\ s.m = thread[t].m
        BY <2>1 DEF TypeInv, ThreadState, Pcs
  <2>3. /\ thread' \in [Threads -> ThreadState] /\ Moves(t) /\ thread'[t].pc = "find"
        /\ thread'[t].m = thread[t].m /\ thread[t].pc = "read"
        BY <1>2, <2>2 DEF ApplyReads, TypeInv, Moves
  <2>4. UNCHANGED <<mgr, ops, timers, mapped, client>> BY <1>2 DEF ApplyReads
  <2>5. TypeInv' BY <1>2, <2>3 DEF ApplyReads, TypeInv
  <2>. QED BY <1>0, <2>3, <2>4, <2>5 DEF Quiet, Holds
<1>3. CASE ApplyFinds(t)
  <2>1. /\ UNCHANGED <<mgr, ops, timers, mapped, client>> /\ thread[t].pc = "find"
        BY <1>3 DEF ApplyFinds
  <2>2. \/ \E pc \in {"order", "create"} : Goto(t, pc)
        \/ \E job \in {"remove", "reconfigure"} : mapped # 0 /\
             thread' = [thread EXCEPT ![t].job = job, ![t].pc = "lock", ![t].m = mapped]
        BY <1>3 DEF ApplyFinds
  <2>3. CASE \E pc \in {"order", "create"} : Goto(t, pc)
    <3>1. /\ thread' \in [Threads -> ThreadState] /\ Moves(t)
          /\ thread'[t].pc \in {"order", "create"} /\ thread'[t].m = thread[t].m
          BY <2>3, Goes DEF Pcs
    <3>2. TypeInv' BY <1>3, <3>1 DEF ApplyFinds, TypeInv
    <3>. QED BY <1>0, <2>1, <3>1, <3>2 DEF Quiet, Holds
  <2>4. CASE \E job \in {"remove", "reconfigure"} : mapped # 0 /\
              thread' = [thread EXCEPT ![t].job = job, ![t].pc = "lock", ![t].m = mapped]
    <3>1. PICK job \in {"remove", "reconfigure"} :
            thread' = [thread EXCEPT ![t].job = job, ![t].pc = "lock", ![t].m = mapped]
          BY <2>4
    <3>2. mapped \in 0 .. MaxManagers /\ mapped # 0 /\ job \in Jobs
          BY <1>0, <2>4 DEF Jobs, Stopping
    <3>3. /\ thread' \in [Threads -> ThreadState] /\ Moves(t)
          /\ thread'[t].pc = "lock" /\ thread'[t].m = mapped /\ thread'[t].job = job
          BY <3>1, <3>2, Turns
    <3>4. TypeInv' BY <1>3, <3>3 DEF ApplyFinds, TypeInv
    <3>. QED BY <1>0, <2>1, <3>2, <3>3, <3>4 DEF Quiet, Holds
  <2>. QED BY <2>2, <2>3, <2>4
<1>4. CASE ApplyDrops(t)
  <2>1. /\ thread' \in [Threads -> ThreadState] /\ Moves(t)
        /\ thread'[t].pc = "order" /\ thread'[t].m = thread[t].m
        BY <1>4, Goes DEF ApplyDrops, Pcs
  <2>2. UNCHANGED <<mgr, ops, timers, client>> /\ mapped' = 0 /\ thread[t].pc = "drop"
        BY <1>4 DEF ApplyDrops
  <2>3. TypeInv' BY <1>0, <1>4, <2>1 DEF ApplyDrops, TypeInv
  <2>. QED BY <1>0, <2>1, <2>2, <2>3 DEF Quiet, Holds
<1>5. CASE ApplyOrders(t)
  <2>1. /\ thread' \in [Threads -> ThreadState] /\ Moves(t) /\ thread'[t] = Idle
        BY <1>5, Returns DEF ApplyOrders
  <2>2. UNCHANGED <<mgr, ops, timers, client, mapped>> /\ thread[t].pc = "order"
        BY <1>5 DEF ApplyOrders
  <2>3. TypeInv' BY <1>5, <2>1 DEF ApplyOrders, TypeInv
  <2>. QED BY <1>0, <2>1, <2>2, <2>3 DEF Quiet, Holds
<1>6. CASE CallRebuild(t)
  <2> DEFINE s == [job |-> "rebuild", pc |-> "lock", m |-> mapped, want |-> mgr[mapped].cfg]
  <2>1. mapped \in Managers /\ mapped # 0 BY <1>0, <1>6 DEF CallRebuild
  <2>2. mgr[mapped].cfg \in Configs \cup {NoTunnel} BY <2>1 DEF TypeInv, MgrState
  <2>3. s \in ThreadState BY <1>0, <2>1, <2>2 DEF ThreadState, Jobs, Stopping, Pcs
  <2>4. /\ thread' \in [Threads -> ThreadState] /\ Moves(t)
        /\ thread'[t].pc = "lock" /\ thread'[t].job = "rebuild" /\ thread'[t].m = mapped
        BY <1>6, <2>3 DEF CallRebuild, TypeInv, Moves
  <2>5. UNCHANGED <<mgr, ops, timers, client, mapped>> /\ thread[t].pc = "idle"
        BY <1>6 DEF CallRebuild, Fresh
  <2>6. TypeInv' BY <1>6, <2>4 DEF CallRebuild, TypeInv
  <2>. QED BY <1>0, <2>1, <2>4, <2>5, <2>6 DEF Quiet, Holds
<1>7. CASE GroupStart(t) \/ GroupStop(t)
  <2>1. /\ UNCHANGED <<mgr, ops, timers, client, mapped>>
        /\ phase' \in {"serving", "down"}
        /\ UNCHANGED <<setting, listed, settings, faults, calls>>
        BY <1>7 DEF GroupStart, GroupStop
  <2>2. CASE UNCHANGED thread
    <3>1. TypeInv' BY <2>1, <2>2 DEF TypeInv
    <3>2. Moves(t) /\ thread'[t] = thread[t] BY <2>2 DEF Moves
    <3>. QED BY <1>0, <2>1, <3>1, <3>2 DEF Quiet
  <2>3. CASE mapped # 0 /\ Fresh(t) /\ \E job \in {"start", "shutdown"} :
                                          Spawn(t, job, "lock", mapped)
    <3>1. /\ thread' \in [Threads -> ThreadState] /\ Moves(t)
          /\ thread'[t].pc = "lock" /\ thread'[t].m = mapped /\ mapped # 0
          /\ thread'[t].job \in {"start", "shutdown"}
          BY ZenonT(30), <1>0, <2>3, Spawns DEF Jobs, Starting, Stopping, Pcs
    <3>2. TypeInv' BY <2>1, <3>1 DEF TypeInv
    <3>. QED BY <1>0, <2>1, <2>3, <3>1, <3>2 DEF Quiet, Holds, Fresh
  <2>. QED BY <1>7, <2>2, <2>3 DEF GroupStart, GroupStop
<1>8. ASSUME NEW s \in Configs \cup {NoTunnel}, SettingsChange(t, s) PROVE TypeInv' /\ Quiet(t)
  <2>1. /\ thread' \in [Threads -> ThreadState] /\ Moves(t)
        /\ thread'[t].pc = "read" /\ thread'[t].m = 0 /\ thread[t].pc = "idle"
        BY <1>0, <1>8, Spawns DEF SettingsChange, Fresh, Jobs, Pcs
  <2>2. UNCHANGED <<mgr, ops, timers, client, mapped>> BY <1>8 DEF SettingsChange
  <2>3. TypeInv' BY <1>8, <2>1 DEF SettingsChange, TypeInv
  <2>. QED BY <1>0, <2>1, <2>2, <2>3 DEF Quiet, Holds
<1>9. ASSUME NEW c \in Clients, WatchdogRestarts(c, t) PROVE TypeInv' /\ Quiet(t)
  <2>1. client[c].phase = "running" /\ client[c].owner \in Born
        BY <1>9 DEF WatchdogRestarts, BornInv
  <2>2. Spawn(t, "restart", "lock", client[c].owner) /\ thread[t].pc = "idle"
        BY <1>9 DEF WatchdogRestarts, Fresh
  <2>3. "restart" \in Jobs /\ "lock" \in Pcs BY DEF Jobs, Starting, Pcs
  <2>4. client[c].owner \in 0 .. MaxManagers BY <1>0, <2>1
  <2>5. /\ thread' \in [Threads -> ThreadState] /\ Moves(t)
        /\ thread'[t].pc = "lock" /\ thread'[t].job = "restart"
        /\ thread'[t].m = client[c].owner
        BY <2>2, <2>3, <2>4, Spawns
  <2>6. /\ client' \in [Clients -> ClientState]
        /\ \A d \in Clients :
             client'[d].owner = client[d].owner /\ client'[d].phase = client[d].phase
        BY <1>9 DEF WatchdogRestarts, Did, TypeInv, ClientState
  <2>7. UNCHANGED <<mgr, ops, timers, mapped>> BY <1>9 DEF WatchdogRestarts
  <2>8. TypeInv' BY <1>9, <2>5, <2>6 DEF WatchdogRestarts, TypeInv
  <2>9. client[c].owner # 0 BY <1>0, <2>1, ManagersAre
  <2>. QED BY <1>0, <2>1, <2>2, <2>5, <2>6, <2>7, <2>8, <2>9 DEF Quiet, Holds
<1>. QED BY <1>1, <1>2, <1>3, <1>4, <1>5, <1>6, <1>7, <1>8, <1>9 DEF QuietStep

-----------------------------------------------------------------------------
(* The steps of a call that holds a manager's mutex, from the section that  *)
(* takes it to the one that gives it back.                                  *)

\* What becomes of a client while manager m is worked on.
Evolves(c, m) ==
  \/ client'[c] = client[c]
  \/ /\ client[c].phase = "running" /\ client'[c].phase = "ending"
     /\ client[c].owner = m /\ client'[c].owner = m
  \/ client[c].phase = "unborn" /\ client'[c].phase = "running" /\ client'[c].owner = m

Works(t) ==
  LET m == thread[t].m IN
  /\ Moves(t) /\ m \in Born /\ mapped' = mapped
  /\ \A n \in Managers \ {m} :
       mgr'[n] = mgr[n] /\ ops'[n] = ops[n] /\ timers'[n] = timers[n]
  /\ \A c \in Clients : Evolves(c, m)
  /\ \/ mgr'[m].cancel \in {0, mgr[m].cancel}
     \/ /\ mgr'[m].cancel \in Clients /\ client'[mgr'[m].cancel].phase = "running"
        /\ client'[mgr'[m].cancel].owner = m
  /\ mgr'[m].rejected = mgr[m].rejected /\ mgr'[m].st # "unborn"
  /\ ops[m] \in {Nil, t}
  /\ ops'[m] = IF thread'[t].pc \in {"dial", "wait"} THEN t ELSE Nil
  /\ thread[t].pc \in {"lock", "dial", "wait"} /\ thread'[t].pc # "lock"
  /\ thread'[t].m \in {0, m} /\ (thread'[t].pc \in {"dial", "wait", "swap"} => thread'[t].m = m)
  /\ thread'[t].pc = "dial" => thread'[t].job \in Starting
  /\ thread'[t].pc = "wait" => /\ thread'[t].job \in Stopping \cup {"halt"}
                               /\ thread'[t].job = "halt" => mgr[m].rejected

LEMMA Rewrites ==
  ASSUME TypeInv, NEW m \in Managers, NEW r \in MgrState, mgr' = [mgr EXCEPT ![m] = r]
  PROVE  /\ mgr' \in [Managers -> MgrState] /\ mgr'[m] = r
         /\ \A n \in Managers \ {m} : mgr'[n] = mgr[n]
BY DEF TypeInv

LEMMA Mutex ==
  ASSUME TypeInv, NEW m \in Managers, NEW h \in Threads \cup {Nil}, ops' = [ops EXCEPT ![m] = h]
  PROVE  /\ ops' \in [Managers -> Threads \cup {Nil}] /\ ops'[m] = h
         /\ \A n \in Managers \ {m} : ops'[n] = ops[n]
BY DEF TypeInv

\* The manager of a call exists, and the call holds it if it is under way.
LEMMA WorksOn ==
  ASSUME TypeInv, OwnInv, BornInv, NEW t \in Threads, thread[t].pc \in {"lock", "dial", "wait"}
  PROVE  /\ thread[t].m \in Managers /\ thread[t].m \in Born
         /\ mgr[thread[t].m].st # "unborn" /\ mgr[thread[t].m] \in MgrState
         /\ thread[t].pc # "lock" => ops[thread[t].m] = t
<1>1. thread[t].m \in Managers /\ 0 \notin Managers BY ManagersAre DEF OwnInv
<1>2. thread[t].m \in Born BY <1>1 DEF BornInv
<1>. QED BY <1>1, <1>2 DEF OwnInv, Holds, Born, TypeInv

LEMMA Cancels ==
  ASSUME TypeInv, CancelInv, NEW m \in Managers, Cancel(m)
  PROVE  /\ client' \in [Clients -> ClientState]
         /\ \A c \in Clients : Evolves(c, m)
         /\ \A c \in Clients :
              client'[c].phase = "running" => c # mgr[m].cancel /\ client'[c] = client[c]
<1>1. \A c \in Clients :
        client'[c] = IF c = mgr[m].cancel /\ client[c].phase = "running"
                     THEN [client[c] EXCEPT !.phase = "ending"] ELSE client[c]
      BY DEF Cancel
<1>2. \A c \in Clients : [client[c] EXCEPT !.phase = "ending"] \in ClientState
      BY DEF TypeInv, ClientState
<1>3. client' \in [Clients -> ClientState] BY <1>1, <1>2 DEF Cancel, TypeInv
<1>4. ASSUME NEW c \in Clients PROVE Evolves(c, m)
  <2>1. CASE c = mgr[m].cancel /\ client[c].phase = "running"
    <3>1. client[c].owner = m BY <2>1, ManagersAre DEF CancelInv
    <3>2. client'[c].phase = "ending" /\ client'[c].owner = client[c].owner
          BY <1>1, <2>1 DEF TypeInv, ClientState
    <3>. QED BY <2>1, <3>1, <3>2 DEF Evolves
  <2>2. CASE ~(c = mgr[m].cancel /\ client[c].phase = "running")
        BY <1>1, <2>2 DEF Evolves
  <2>. QED BY <2>1, <2>2
<1>5. \A c \in Clients :
        client'[c].phase = "running" => c # mgr[m].cancel /\ client'[c] = client[c]
      BY <1>1 DEF TypeInv, ClientState
<1>. QED BY <1>3, <1>4, <1>5

WorkStep(t) ==
  \/ StartBegins(t) \/ DialRefused(t) \/ DialFails(t) \/ DialSucceeds(t) \/ StopSection(t)
  \/ HaltSection(t) \/ WaitReturns(t) \/ RestartGoesOn(t) \/ ReconfigureGoesOn(t)

LEMMA DialingWorks ==
  ASSUME TypeInv, OwnInv, BornInv, CancelInv, NEW t \in Threads,
         StartBegins(t) \/ RestartGoesOn(t)
  PROVE  TypeInv' /\ Works(t)
<1> DEFINE m == thread[t].m
           r == [mgr[m] EXCEPT !.st = "starting"]
<1> USE DEF groupVars, bounds
<1>1. thread[t].pc \in {"lock", "wait"} /\ thread[t].job \in Starting
      BY DEF StartBegins, RestartGoesOn, Starting
<1>2. /\ m \in Managers /\ m \in Born /\ mgr[m] \in MgrState
      /\ thread[t].pc # "lock" => ops[m] = t
      BY <1>1, WorksOn
<1>3. r \in MgrState /\ r.st = "starting" /\ r.cancel = mgr[m].cancel
        /\ r.rejected = mgr[m].rejected /\ mgr[m].cfg \in Configs \cup {NoTunnel}
      BY <1>2 DEF MgrState
<1>4. mgr' = [mgr EXCEPT ![m] = r] BY DEF StartBegins, RestartGoesOn
<1>5. /\ mgr' \in [Managers -> MgrState] /\ mgr'[m] = r
      /\ \A n \in Managers \ {m} : mgr'[n] = mgr[n]
      BY <1>2, <1>3, <1>4, Rewrites
<1>6. /\ thread' \in [Threads -> ThreadState] /\ Moves(t)
      /\ thread'[t].pc = "dial" /\ thread'[t].job = thread[t].job /\ thread'[t].m = m
      BY <1>3, Dials DEF StartBegins, RestartGoesOn
<1>7. /\ ops' \in [Managers -> Threads \cup {Nil}] /\ ops'[m] = t /\ ops[m] \in {Nil, t}
      /\ \A n \in Managers \ {m} : ops'[n] = ops[n]
  <2>1. CASE StartBegins(t) BY <1>2, <2>1, Mutex DEF StartBegins, Lock
  <2>2. CASE RestartGoesOn(t) BY <1>2, <2>2 DEF RestartGoesOn, TypeInv
  <2>. QED BY <2>1, <2>2
<1>8. UNCHANGED <<setting, phase, mapped, listed, client, timers>> /\ faults' \in 0 .. MaxFaults
        /\ \A n \in Managers : timers[n] <= faults'
      BY TunnelAssumption DEF StartBegins, RestartGoesOn, Waited, TimedOut, TypeInv
<1>9. TypeInv' BY <1>5, <1>6, <1>7, <1>8 DEF TypeInv
<1>10. \A c \in Clients : Evolves(c, m) BY <1>8 DEF Evolves
<1>. QED BY <1>1, <1>2, <1>3, <1>5, <1>6, <1>7, <1>8, <1>9, <1>10 DEF Works

LEMMA DialedWorks ==
  ASSUME TypeInv, OwnInv, BornInv, CancelInv, NEW t \in Threads,
         DialRefused(t) \/ DialFails(t) \/ DialSucceeds(t)
  PROVE  TypeInv' /\ Works(t)
<1> DEFINE m == thread[t].m
<1> USE DEF groupVars, bounds
<1>1. thread[t].pc = "dial" /\ Unlock(m) /\ Finish(t)
      BY DEF DialRefused, DialFails, DialSucceeds
<1>2. /\ m \in Managers /\ m \in Born /\ mgr[m] \in MgrState /\ ops[m] = t
      /\ mgr[m].st # "unborn"
      BY <1>1, WorksOn
<1>3. /\ thread' \in [Threads -> ThreadState] /\ Moves(t)
      /\ thread'[t].pc \in {"idle", "order"} /\ thread'[t].m \in {0, m}
      BY <1>1, Finishes
<1>4. /\ ops' \in [Managers -> Threads \cup {Nil}] /\ ops'[m] = Nil
      /\ \A n \in Managers \ {m} : ops'[n] = ops[n]
      BY <1>1, <1>2, Mutex DEF Unlock
<1>5. UNCHANGED <<setting, phase, mapped, listed>>
      BY DEF DialRefused, DialFails, DialSucceeds
<1>6. ASSUME NEW retryable \in BOOLEAN, Fail(m, retryable), client' = client,
             faults' \in {faults, faults + 1}, faults' <= MaxFaults,
             retryable => faults' = faults + 1
      PROVE  TypeInv' /\ Works(t)
  <2> DEFINE r == FailFields(mgr[m], retryable)
  <2>1. r \in MgrState /\ r.st = "failed" /\ r.cancel = mgr[m].cancel
          /\ r.rejected = mgr[m].rejected
        BY <1>2, Fails
  <2>2. mgr' = [mgr EXCEPT ![m] = r] BY <1>6 DEF Fail
  <2>3. /\ mgr' \in [Managers -> MgrState] /\ mgr'[m] = r
        /\ \A n \in Managers \ {m} : mgr'[n] = mgr[n]
        BY <1>2, <2>1, <2>2, Rewrites
  <2>4. /\ timers' \in [Managers -> Nat]
        /\ timers'[m] = timers[m] \/ (retryable /\ timers'[m] = timers[m] + 1)
        /\ \A n \in Managers \ {m} : timers'[n] = timers[n]
        BY <1>2, <1>6 DEF Fail, TypeInv, Schedules
  <2>5. faults' \in 0 .. MaxFaults BY <1>6, TunnelAssumption DEF TypeInv
  <2>6. \A n \in Managers : timers'[n] <= faults'
        BY <1>6, <2>4, TunnelAssumption DEF TypeInv
  <2>7. TypeInv' BY <1>3, <1>4, <1>5, <1>6, <2>3, <2>4, <2>5, <2>6 DEF TypeInv
  <2>8. \A c \in Clients : Evolves(c, m) BY <1>6 DEF Evolves
  <2>. QED BY <1>1, <1>2, <1>3, <1>4, <1>5, <2>1, <2>3, <2>4, <2>7, <2>8 DEF Works
<1>7. CASE DialRefused(t)
  <2>1. /\ Fail(m, FALSE) /\ client' = client
        /\ faults' = faults \/ (faults < MaxFaults /\ faults' = faults + 1)
        BY <1>7 DEF DialRefused
  <2>2. faults' \in {faults, faults + 1} /\ faults' <= MaxFaults
        BY <2>1, TunnelAssumption DEF TypeInv
  <2>. QED BY <1>6, <2>1, <2>2
<1>8. CASE DialFails(t)
  <2>1. Fail(m, TRUE) /\ client' = client /\ faults' = faults + 1 /\ faults < MaxFaults
        BY <1>8 DEF DialFails
  <2>2. faults' <= MaxFaults BY <2>1, TunnelAssumption DEF TypeInv
  <2>. QED BY <1>6, <2>1, <2>2
<1>9. CASE DialSucceeds(t)
  <2> DEFINE k(c) == [owner |-> m, phase |-> "running", did |-> {}]
             r(c) == [mgr[m] EXCEPT !.cancel = c]
  <2>1. PICK c \in Clients :
          /\ NextClient(c) /\ client' = [client EXCEPT ![c] = k(c)]
          /\ mgr' = [mgr EXCEPT ![m].cancel = c]
        BY <1>9 DEF DialSucceeds
  <2>2. k(c) \in ClientState BY <1>2, ManagersAre DEF ClientState
  <2>3. /\ client' \in [Clients -> ClientState] /\ client'[c] = k(c)
        /\ \A d \in Clients \ {c} : client'[d] = client[d]
        BY <2>1, <2>2 DEF TypeInv
  <2>4. c \in 0 .. MaxClients BY ManagersAre
  <2>5. r(c) \in MgrState /\ r(c).st = mgr[m].st /\ r(c).cancel = c
          /\ r(c).rejected = mgr[m].rejected
        BY <1>2, <2>4 DEF MgrState
  <2>6. mgr' = [mgr EXCEPT ![m] = r(c)] BY <2>1
  <2>7. /\ mgr' \in [Managers -> MgrState] /\ mgr'[m] = r(c)
        /\ \A n \in Managers \ {m} : mgr'[n] = mgr[n]
        BY <1>2, <2>5, <2>6, Rewrites
  <2>8. UNCHANGED <<timers, faults>> BY <1>9 DEF DialSucceeds
  <2>9. TypeInv' BY <1>3, <1>4, <1>5, <2>3, <2>7, <2>8 DEF TypeInv
  <2>10. \A d \in Clients : Evolves(d, m) BY <2>1, <2>3 DEF Evolves, NextClient
  <2>. QED BY <1>1, <1>2, <1>3, <1>4, <1>5, <2>3, <2>5, <2>7, <2>8, <2>9, <2>10 DEF Works
<1>. QED BY <1>7, <1>8, <1>9

LEMMA StoppingWorks ==
  ASSUME TypeInv, OwnInv, BornInv, CancelInv, NEW t \in Threads,
         StopSection(t) \/ HaltSection(t)
  PROVE  /\ TypeInv' /\ Works(t)
         /\ mgr'[thread[t].m].cancel = 0
         /\ \A c \in Clients : client'[c].phase = "running" =>
              c # mgr[thread[t].m].cancel /\ client'[c] = client[c]
<1> DEFINE m == thread[t].m
<1> USE DEF groupVars, bounds
<1>1. /\ thread[t].pc = "lock" /\ Lock(t, m) /\ Cancel(m) /\ Goto(t, "wait")
      /\ UNCHANGED <<setting, phase, mapped, listed, faults>>
      BY DEF StopSection, HaltSection
<1>2. m \in Managers /\ m \in Born /\ mgr[m] \in MgrState /\ mgr[m].st # "unborn"
      BY <1>1, WorksOn
<1>3. /\ thread' \in [Threads -> ThreadState] /\ Moves(t)
      /\ thread'[t].pc = "wait" /\ thread'[t].job = thread[t].job /\ thread'[t].m = m
      BY <1>1, Goes DEF Pcs
<1>4. /\ ops' \in [Managers -> Threads \cup {Nil}] /\ ops'[m] = t /\ ops[m] = Nil
      /\ \A n \in Managers \ {m} : ops'[n] = ops[n]
      BY <1>1, <1>2, Mutex DEF Lock
<1>5. /\ client' \in [Clients -> ClientState]
      /\ \A c \in Clients : Evolves(c, m)
      /\ \A c \in Clients :
           client'[c].phase = "running" => c # mgr[m].cancel /\ client'[c] = client[c]
      BY <1>1, <1>2, Cancels
<1>6. ASSUME NEW r \in MgrState, mgr' = [mgr EXCEPT ![m] = r], r.st # "unborn",
             r.cancel = 0, r.rejected = mgr[m].rejected,
             \/ timers' = timers
             \/ timers[m] > 0 /\ timers' = [timers EXCEPT ![m] = @ - 1],
             \/ thread[t].job \in Stopping
             \/ thread[t].job = "halt" /\ mgr[m].rejected
      PROVE  TypeInv' /\ Works(t) /\ mgr'[m].cancel = 0
  <2>1. /\ mgr' \in [Managers -> MgrState] /\ mgr'[m] = r
        /\ \A n \in Managers \ {m} : mgr'[n] = mgr[n]
        BY <1>2, <1>6, Rewrites
  <2>2. /\ timers' \in [Managers -> Nat] /\ \A n \in Managers \ {m} : timers'[n] = timers[n]
        /\ timers'[m] <= timers[m]
        BY <1>2, <1>6 DEF TypeInv
  <2>3. \A n \in Managers : timers'[n] <= faults'
        BY <1>1, <1>2, <2>2, TunnelAssumption DEF TypeInv
  <2>4. TypeInv' BY <1>1, <1>3, <1>4, <1>5, <2>1, <2>2, <2>3 DEF TypeInv
  <2>. QED BY <1>1, <1>2, <1>3, <1>4, <1>5, <1>6, <2>1, <2>2, <2>4 DEF Works, Stopping
<1>7. CASE StopSection(t)
  <2>1. /\ StopFields(mgr[m]) \in MgrState /\ StopFields(mgr[m]).st = "stopped"
        /\ StopFields(mgr[m]).cancel = 0 /\ StopFields(mgr[m]).rejected = mgr[m].rejected
        BY <1>2, Stops
  <2>2. mgr' = [mgr EXCEPT ![m] = StopFields(mgr[m])] /\ StopTimer(m) /\ thread[t].job \in Stopping
        BY <1>7 DEF StopSection, Stopping
  <2>3. \/ timers' = timers
        \/ timers[m] > 0 /\ timers' = [timers EXCEPT ![m] = @ - 1]
        BY <2>2 DEF StopTimer
  <2>. QED BY <1>5, <1>6, <2>1, <2>2, <2>3
<1>8. CASE HaltSection(t)
  <2> DEFINE r == [mgr[m] EXCEPT !.cancel = 0]
  <2>1. r \in MgrState /\ r.st = mgr[m].st /\ r.cancel = 0 /\ r.rejected = mgr[m].rejected
    <3>1. 0 \in 0 .. MaxClients BY TunnelAssumption
    <3>. QED BY <1>2, <3>1 DEF MgrState
  <2>2. mgr' = [mgr EXCEPT ![m] = r] /\ timers' = timers /\ thread[t].job = "halt"
        BY <1>8 DEF HaltSection
  <2>3. mgr[m].rejected BY <1>1, <2>2 DEF OwnInv
  <2>. QED BY <1>2, <1>5, <1>6, <2>1, <2>2, <2>3
<1>. QED BY <1>7, <1>8

LEMMA WaitedWorks ==
  ASSUME TypeInv, OwnInv, BornInv, CancelInv, NEW t \in Threads,
         WaitReturns(t) \/ ReconfigureGoesOn(t)
  PROVE  TypeInv' /\ Works(t)
<1> DEFINE m == thread[t].m
<1> USE DEF groupVars, bounds
<1>1. thread[t].pc = "wait" BY DEF WaitReturns, ReconfigureGoesOn
<1>2. /\ m \in Managers /\ m \in Born /\ mgr[m] \in MgrState /\ ops[m] = t
      /\ mgr[m].st # "unborn"
      BY <1>1, WorksOn
<1>3. UNCHANGED <<setting, phase, mapped, listed, client, timers>>
      BY DEF WaitReturns, ReconfigureGoesOn
<1>4. \A c \in Clients : Evolves(c, m) BY <1>3 DEF Evolves
<1>5. faults' \in 0 .. MaxFaults /\ \A n \in Managers : timers[n] <= faults'
  <2>1. faults' = faults \/ (faults < MaxFaults /\ faults' = faults + 1)
        BY DEF WaitReturns, ReconfigureGoesOn, Waited, TimedOut
  <2>. QED BY <2>1, TunnelAssumption DEF TypeInv
<1>6. ASSUME Unlock(m)
      PROVE  /\ ops' \in [Managers -> Threads \cup {Nil}] /\ ops'[m] = Nil
             /\ \A n \in Managers \ {m} : ops'[n] = ops[n]
      BY <1>2, <1>6, Mutex DEF Unlock
<1>7. CASE WaitReturns(t)
  <2>1. Unlock(m) /\ mgr' = mgr /\ (Return(t) \/ Goto(t, "drop") \/ Goto(t, "swap"))
        BY <1>7 DEF WaitReturns
  <2>2. /\ thread' \in [Threads -> ThreadState] /\ Moves(t)
        /\ thread'[t].pc \in {"idle", "drop", "swap"} /\ thread'[t].m \in {0, m}
        /\ thread'[t].pc = "swap" => thread'[t].m = m
        BY <2>1, Returns, Goes DEF Idle, Pcs
  <2>3. TypeInv' BY <1>3, <1>5, <1>6, <2>1, <2>2 DEF TypeInv
  <2>. QED BY <1>1, <1>2, <1>3, <1>4, <1>6, <2>1, <2>2, <2>3 DEF Works
<1>8. CASE ReconfigureGoesOn(t)
  <2>1. thread[t].want \in Configs \cup {NoTunnel} BY DEF TypeInv, ThreadState
  <2>2. ASSUME NEW st \in {"starting", "stopped"},
               mgr' = [mgr EXCEPT ![m].cfg = thread[t].want, ![m].st = st]
        PROVE  /\ mgr' \in [Managers -> MgrState] /\ mgr'[m].st = st
               /\ mgr'[m].cancel = mgr[m].cancel /\ mgr'[m].rejected = mgr[m].rejected
               /\ \A n \in Managers \ {m} : mgr'[n] = mgr[n]
    <3> DEFINE r == [mgr[m] EXCEPT !.cfg = thread[t].want, !.st = st]
    <3>1. r \in MgrState /\ r.st = st /\ r.cancel = mgr[m].cancel
            /\ r.rejected = mgr[m].rejected
          BY <1>2, <2>1 DEF MgrState
    <3>2. mgr' = [mgr EXCEPT ![m] = r] BY <1>2, <2>2 DEF TypeInv
    <3>. QED BY <1>2, <3>1, <3>2, Rewrites
  <2>3. CASE mgr' = [mgr EXCEPT ![m].cfg = thread[t].want, ![m].st = "starting"]
               /\ Goto(t, "dial") /\ UNCHANGED ops
    <3>1. /\ thread' \in [Threads -> ThreadState] /\ Moves(t)
          /\ thread'[t].pc = "dial" /\ thread'[t].job = thread[t].job /\ thread'[t].m = m
          BY <2>3, Goes DEF Pcs
    <3>2. thread[t].job \in Starting BY <1>8 DEF ReconfigureGoesOn, Starting
    <3>3. TypeInv' BY <1>3, <1>5, <2>2, <2>3, <3>1 DEF TypeInv
    <3>. QED BY <1>1, <1>2, <1>3, <1>4, <2>2, <2>3, <3>1, <3>2, <3>3 DEF Works
  <2>4. CASE mgr' = [mgr EXCEPT ![m].cfg = thread[t].want, ![m].st = "stopped"]
               /\ Unlock(m) /\ Goto(t, "order")
    <3>1. /\ thread' \in [Threads -> ThreadState] /\ Moves(t)
          /\ thread'[t].pc = "order" /\ thread'[t].m = m
          BY <2>4, Goes DEF Pcs
    <3>2. TypeInv' BY <1>3, <1>5, <1>6, <2>2, <2>4, <3>1 DEF TypeInv
    <3>. QED BY <1>1, <1>2, <1>3, <1>4, <1>6, <2>2, <2>4, <3>1, <3>2 DEF Works
  <2>. QED BY <1>8, <2>3, <2>4 DEF ReconfigureGoesOn
<1>. QED BY <1>7, <1>8

LEMMA WorkIsWork ==
  ASSUME TypeInv, OwnInv, BornInv, CancelInv, NEW t \in Threads, WorkStep(t)
  PROVE  TypeInv' /\ Works(t)
BY DialingWorks, DialedWorks, StoppingWorks, WaitedWorks DEF WorkStep

-----------------------------------------------------------------------------
(* A manager that comes into being, and what clients and timers report.     *)

Adopts(t) ==
  /\ NextManager \in Managers /\ NextManager \notin Born /\ Born' = Born \cup {NextManager}
  /\ \E k \in 0 .. MaxManagers : Born' = 1 .. k
  /\ Moves(t) /\ mapped' = NextManager /\ UNCHANGED <<ops, client, timers>>
  /\ \A n \in Managers \ {NextManager} : mgr'[n] = mgr[n]
  /\ mgr'[NextManager] = NewManager(thread[t].want)
  /\ thread[t].pc \in {"create", "swap"}
  /\ \/ thread'[t].pc \in {"idle", "order"} /\ thread'[t].m \in {0, thread[t].m}
     \/ /\ thread'[t].pc = "lock" /\ thread'[t].m = NextManager
        /\ thread'[t].job \in {"create", "start"}

LEMMA NextIsNew ==
  ASSUME TypeInv, BornInv, NextManager \in Managers
  PROVE  NextManager \notin Born /\ Born = 1 .. NextManager - 1
<1>1. PICK k \in 0 .. MaxManagers : Born = 1 .. k BY DEF BornInv
<1>2. k \in Nat BY TunnelAssumption
<1>3. Cardinality(1 .. k) = k BY <1>2, FS_Interval
<1>. QED BY <1>1, <1>2, <1>3 DEF NextManager

LEMMA AdoptAdopts ==
  ASSUME TypeInv, OwnInv, BornInv, NEW t \in Threads, ApplyCreates(t) \/ RebuildSwaps(t)
  PROVE  TypeInv' /\ Adopts(t)
<1> DEFINE k == NextManager
           r == NewManager(thread[t].want)
<1>1. PICK job \in {"create", "start"}, idle \in ThreadState :
        /\ Adopt(t, job, idle) /\ thread[t].pc \in {"create", "swap"}
        /\ idle.pc \in {"idle", "order"} /\ idle.m \in {0, thread[t].m}
  <2> DEFINE s == [thread[t] EXCEPT !.pc = "order"]
  <2>1. s \in ThreadState /\ s.pc = "order" /\ s.m = thread[t].m
        BY DEF TypeInv, ThreadState, Pcs
  <2>2. Idle \in ThreadState /\ Idle.pc = "idle" /\ Idle.m = 0
        BY ManagersAre DEF Idle
  <2>3. CASE ApplyCreates(t) BY <2>1, <2>3 DEF ApplyCreates
  <2>4. CASE RebuildSwaps(t) BY <2>2, <2>4 DEF RebuildSwaps
  <2>. QED BY <2>3, <2>4
<1>2. k \in Managers /\ mgr' = [mgr EXCEPT ![k] = r] /\ mapped' = k
        /\ UNCHANGED <<setting, phase, listed, ops, client, timers, faults>>
      BY <1>1 DEF Adopt, bounds
<1>3. k \notin Born /\ Born = 1 .. k - 1 BY <1>2, NextIsNew
<1>4. thread[t].want \in Configs \cup {NoTunnel} BY DEF TypeInv, ThreadState
<1>5. r \in MgrState /\ r.st = "stopped" BY <1>4, ManagersAre DEF NewManager, Unborn
<1>6. /\ mgr' \in [Managers -> MgrState] /\ mgr'[k] = r
      /\ \A n \in Managers \ {k} : mgr'[n] = mgr[n]
      BY <1>2, <1>5, Rewrites
<1>7. Born' = Born \cup {k} BY <1>2, <1>5, <1>6 DEF Born
<1>8. k \in Nat /\ k \in 0 .. MaxManagers /\ k \in 1 .. MaxManagers
      BY <1>2, TunnelAssumption DEF Managers
<1>9. Born' = 1 .. k BY <1>3, <1>7, <1>8
<1>10. /\ thread' \in [Threads -> ThreadState] /\ Moves(t)
       /\ \/ thread'[t].pc \in {"idle", "order"} /\ thread'[t].m \in {0, thread[t].m}
          \/ /\ thread'[t].pc = "lock" /\ thread'[t].m = k
             /\ thread'[t].job \in {"create", "start"}
  <2>1. CASE thread' = [thread EXCEPT ![t].job = job, ![t].pc = "lock", ![t].m = k]
    <3>1. job \in Jobs BY DEF Jobs, Starting
    <3>2. /\ thread' \in [Threads -> ThreadState] /\ Moves(t)
          /\ thread'[t].pc = "lock" /\ thread'[t].job = job /\ thread'[t].m = k
          BY <1>8, <2>1, <3>1, Turns
    <3>. QED BY <3>2
  <2>2. CASE thread' = [thread EXCEPT ![t] = idle]
        BY <1>1, <2>2 DEF TypeInv, Moves
  <2>. QED BY <1>1, <2>1, <2>2 DEF Adopt
<1>11. TypeInv' BY <1>2, <1>6, <1>8, <1>10 DEF TypeInv
<1>. QED BY <1>1, <1>2, <1>3, <1>6, <1>7, <1>8, <1>9, <1>10, <1>11 DEF Adopts

Reports(m) ==
  /\ m \in Managers /\ UNCHANGED <<mapped, ops>>
  /\ \A n \in Managers \ {m} : mgr'[n] = mgr[n] /\ timers'[n] = timers[n]
  /\ mgr'[m].cancel = mgr[m].cancel /\ (mgr[m].rejected => mgr'[m].rejected)
  /\ mgr'[m].st = "unborn" <=> mgr[m].st = "unborn"
  /\ \A c \in Clients :
       \/ client'[c].owner = client[c].owner /\ client'[c].phase = client[c].phase
       \/ client[c].phase = "ending" /\ client'[c].phase = "gone"
  /\ \/ UNCHANGED thread
     \/ \E t \in Threads :
          /\ Moves(t) /\ thread[t].pc = "idle" /\ thread'[t].pc = "lock"
          /\ thread'[t].m = m /\ mgr[m].st # "unborn"
          /\ thread'[t].job \in {"start", "halt"}
          /\ thread'[t].job = "halt" => mgr'[m].rejected

LEMMA ReadyReports ==
  ASSUME TypeInv, BornInv, NEW c \in Clients, ClientReady(c)
  PROVE  TypeInv' /\ Reports(client[c].owner)
<1> DEFINE m == client[c].owner
<1> USE DEF groupVars, bounds
<1>1. m \in Managers /\ mgr[m] \in MgrState
      BY DEF ClientReady, Reporting, BornInv, Born, TypeInv
<1>2. /\ ReadyFields(mgr[m]) \in MgrState
      /\ ReadyFields(mgr[m]).st = IF mgr[m].st = "starting" THEN "connected" ELSE mgr[m].st
      /\ ReadyFields(mgr[m]).cancel = mgr[m].cancel
      /\ ReadyFields(mgr[m]).rejected = mgr[m].rejected
      BY <1>1, Readies
<1>3. mgr' = [mgr EXCEPT ![m] = ReadyFields(mgr[m])] BY DEF ClientReady
<1>4. /\ mgr' \in [Managers -> MgrState] /\ mgr'[m] = ReadyFields(mgr[m])
      /\ \A n \in Managers \ {m} : mgr'[n] = mgr[n]
      BY <1>1, <1>2, <1>3, Rewrites
<1>5. /\ client' \in [Clients -> ClientState]
      /\ \A d \in Clients :
           client'[d].owner = client[d].owner /\ client'[d].phase = client[d].phase
      BY DEF ClientReady, Did, TypeInv, ClientState
<1>6. UNCHANGED <<setting, phase, mapped, listed, ops, timers, thread, faults>>
      BY DEF ClientReady
<1>7. TypeInv' BY <1>4, <1>5, <1>6 DEF TypeInv
<1>. QED BY <1>1, <1>2, <1>4, <1>5, <1>6, <1>7 DEF Reports

LEMMA EndReports ==
  ASSUME TypeInv, BornInv, NEW c \in Clients, ClientEnds(c)
  PROVE  TypeInv' /\ Reports(client[c].owner)
<1> USE DEF groupVars, bounds
<1>1. client[c].owner \in Managers /\ client[c].phase = "ending"
      BY DEF ClientEnds, BornInv, Born
<1>2. /\ client' \in [Clients -> ClientState] /\ client'[c].phase = "gone"
      /\ \A d \in Clients \ {c} : client'[d] = client[d]
  <2> DEFINE k == [NoClient EXCEPT !.phase = "gone"]
  <2>1. k \in ClientState /\ k.phase = "gone" BY ManagersAre DEF ClientState
  <2>. QED BY <2>1 DEF ClientEnds, TypeInv
<1>3. UNCHANGED <<setting, phase, mapped, listed, mgr, ops, timers, thread, faults>>
      BY DEF ClientEnds
<1>4. TypeInv' BY <1>2, <1>3 DEF TypeInv
<1>. QED BY <1>1, <1>2, <1>3, <1>4 DEF Reports

LEMMA RejectedReports ==
  ASSUME TypeInv, BornInv, NEW c \in Clients, NEW t \in Threads, ClientRejected(c, t)
  PROVE  /\ TypeInv' /\ Reports(client[c].owner)
         /\ mgr'[client[c].owner] =
              [FailFields(mgr[client[c].owner], FALSE) EXCEPT !.rejected = TRUE]
         /\ timers' = timers /\ Moves(t) /\ thread[t].pc = "idle"
<1> DEFINE m == client[c].owner
           f == FailFields(mgr[m], FALSE)
           r == [f EXCEPT !.rejected = TRUE]
<1> USE DEF groupVars, bounds
<1>1. m \in Managers /\ mgr[m] \in MgrState /\ mgr[m].st # "unborn" /\ m \in 0 .. MaxManagers
      BY ManagersAre DEF ClientRejected, Reporting, BornInv, Born, TypeInv
<1>2. f \in MgrState /\ f.st = "failed" /\ f.cancel = mgr[m].cancel BY <1>1, Fails
<1> HIDE DEF f
<1>3. r \in MgrState /\ r.st = "failed" /\ r.cancel = mgr[m].cancel /\ r.rejected = TRUE
      BY <1>2 DEF MgrState
<1>4. mgr' = [mgr EXCEPT ![m] = r] BY DEF ClientRejected, f
<1>5. /\ mgr' \in [Managers -> MgrState] /\ mgr'[m] = r
      /\ \A n \in Managers \ {m} : mgr'[n] = mgr[n]
      BY <1>1, <1>3, <1>4, Rewrites
<1>6. /\ client' \in [Clients -> ClientState]
      /\ \A d \in Clients :
           client'[d].owner = client[d].owner /\ client'[d].phase = client[d].phase
      BY DEF ClientRejected, Did, TypeInv, ClientState
<1>7. Spawn(t, "halt", "lock", m) /\ thread[t].pc = "idle" BY DEF ClientRejected, Fresh
<1>8. "halt" \in Jobs /\ "lock" \in Pcs BY DEF Jobs, Pcs
<1>9. /\ thread' \in [Threads -> ThreadState] /\ Moves(t)
      /\ thread'[t].pc = "lock" /\ thread'[t].job = "halt" /\ thread'[t].m = m
      BY <1>1, <1>7, <1>8, Spawns
<1>10. UNCHANGED <<setting, phase, mapped, listed, ops, timers>>
         /\ faults < MaxFaults /\ faults' = faults + 1
      BY DEF ClientRejected
<1>11. faults' \in 0 .. MaxFaults /\ \A n \in Managers : timers'[n] <= faults'
      BY <1>10, TunnelAssumption DEF TypeInv
<1>12. TypeInv' BY <1>5, <1>6, <1>9, <1>10, <1>11 DEF TypeInv
<1>13. Reports(m) BY <1>1, <1>3, <1>5, <1>6, <1>7, <1>9, <1>10 DEF Reports
<1>. QED BY <1>5, <1>7, <1>9, <1>10, <1>12, <1>13 DEF f

LEMMA RetryReports ==
  ASSUME TypeInv, NEW m \in Managers, NEW t \in Threads, RetryNow(m, t)
  PROVE  /\ TypeInv' /\ Reports(m)
         /\ mgr'[m] = [mgr[m] EXCEPT !.retry = FALSE]
         /\ mgr[m].st = "failed" /\ mgr[m].cfg \in EnabledCfg => Retries(m)'
<1> DEFINE r == [mgr[m] EXCEPT !.retry = FALSE]
<1> USE DEF groupVars, bounds
<1>1. /\ r \in MgrState /\ r.st = mgr[m].st /\ r.cancel = mgr[m].cancel
      /\ r.rejected = mgr[m].rejected
      BY DEF TypeInv, MgrState
<1>2. mgr' = [mgr EXCEPT ![m] = r] BY DEF RetryNow
<1>3. /\ mgr' \in [Managers -> MgrState] /\ mgr'[m] = r
      /\ \A n \in Managers \ {m} : mgr'[n] = mgr[n]
      BY <1>1, <1>2, Rewrites
<1>4. /\ timers' \in [Managers -> Nat] /\ timers'[m] <= timers[m]
      /\ \A n \in Managers \ {m} : timers'[n] = timers[n]
      BY DEF RetryNow, TypeInv
<1>5. UNCHANGED <<setting, phase, mapped, listed, ops, client, faults>> BY DEF RetryNow
<1>6. \A n \in Managers : timers'[n] <= faults'
      BY <1>4, <1>5, TunnelAssumption DEF TypeInv
<1>7. CASE mgr[m].cfg \in EnabledCfg /\ mgr[m].st = "failed"
  <2>1. Spawn(t, "start", "lock", m) /\ thread[t].pc = "idle"
        BY <1>7 DEF RetryNow, Fresh
  <2>2. "start" \in Jobs /\ "lock" \in Pcs BY DEF Jobs, Starting, Pcs
  <2>3. /\ thread' \in [Threads -> ThreadState] /\ Moves(t)
        /\ thread'[t].pc = "lock" /\ thread'[t].job = "start" /\ thread'[t].m = m
        BY <2>1, <2>2, Spawns, ManagersAre
  <2>4. TypeInv' BY <1>3, <1>4, <1>5, <1>6, <2>3 DEF TypeInv
  <2>5. Reports(m) BY <1>1, <1>3, <1>4, <1>5, <1>7, <2>1, <2>3 DEF Reports
  <2>6. Retries(m)' BY <2>3 DEF Retries
  <2>. QED BY <1>3, <2>4, <2>5, <2>6
<1>8. CASE ~(mgr[m].cfg \in EnabledCfg /\ mgr[m].st = "failed")
  <2>1. UNCHANGED thread BY <1>8 DEF RetryNow
  <2>2. TypeInv' BY <1>3, <1>4, <1>5, <1>6, <2>1 DEF TypeInv
  <2>3. Reports(m) BY <1>1, <1>3, <1>4, <1>5, <2>1 DEF Reports
  <2>. QED BY <1>3, <1>8, <2>2, <2>3
<1>. QED BY <1>7, <1>8

ReportStep ==
  \E c \in Clients :
    ClientReady(c) \/ ClientEnds(c) \/ \E t \in Threads : ClientRejected(c, t)

LEMMA NextIsOneOf ==
  ASSUME Next
  PROVE  \/ \E t \in Threads : \/ QuietStep(t) \/ WorkStep(t)
                               \/ ApplyCreates(t) \/ RebuildSwaps(t)
         \/ ReportStep \/ \E t \in Threads, m \in Managers : RetryNow(m, t)
BY DEF Next, Step, QuietStep, WorkStep, ReportStep

LEMMA StepShape ==
  ASSUME TypeInv, OwnInv, BornInv, CancelInv, Next
  PROVE  /\ TypeInv'
         /\ \/ \E t \in Threads : Quiet(t) \/ Works(t) \/ Adopts(t)
            \/ \E m \in Managers : Reports(m)
<1>1. ASSUME NEW t \in Threads, QuietStep(t) PROVE TypeInv' /\ Quiet(t)
      BY <1>1, QuietIsQuiet
<1>2. ASSUME NEW t \in Threads, WorkStep(t) PROVE TypeInv' /\ Works(t)
      BY <1>2, WorkIsWork
<1>3. ASSUME NEW t \in Threads, ApplyCreates(t) \/ RebuildSwaps(t) PROVE TypeInv' /\ Adopts(t)
      BY <1>3, AdoptAdopts
<1>4. ASSUME ReportStep PROVE TypeInv' /\ \E m \in Managers : Reports(m)
      BY <1>4, ReadyReports, EndReports, RejectedReports DEF ReportStep, Reports
<1>5. ASSUME NEW t \in Threads, NEW m \in Managers, RetryNow(m, t)
      PROVE  TypeInv' /\ Reports(m)
      BY <1>5, RetryReports
<1>. QED BY NextIsOneOf, <1>1, <1>2, <1>3, <1>4, <1>5

-----------------------------------------------------------------------------
(* Who holds what, and what has come into being.                            *)

LEMMA InitOwn == Init => OwnInv /\ BornInv /\ CancelInv
<1> SUFFICES ASSUME Init PROVE OwnInv /\ BornInv /\ CancelInv OBVIOUS
<1>1. /\ \A t \in Threads : thread[t].pc = "idle" /\ thread[t].m = 0
      /\ \A m \in Managers : ops[m] = Nil
      /\ \A c \in Clients : client[c].phase = "unborn"
      BY DEF Init, Idle, NoClient
<1>2. OwnInv BY <1>1 DEF OwnInv, Holds
<1>3. \A m \in Managers : mgr[m].cancel = 0 /\ (mgr[m].st # "unborn" <=> m = mapped)
      BY DEF Init, NewManager, Unborn
<1>4. mapped \in {0, 1} /\ 1 \in Managers /\ 1 \in 0 .. MaxManagers /\ 0 \in 0 .. MaxManagers
      BY TunnelAssumption DEF Init, Managers
<1>5. Born = 1 .. mapped
  <2>1. CASE mapped = 0
    <3>1. Born = {} BY <1>3, <2>1, ManagersAre DEF Born
    <3>. QED BY <2>1, <3>1
  <2>2. CASE mapped = 1
    <3>1. Born = {1} BY <1>3, <1>4, <2>2 DEF Born
    <3>. QED BY <2>2, <3>1
  <2>. QED BY <1>4, <2>1, <2>2
<1>6. BornInv BY <1>1, <1>4, <1>5 DEF BornInv
<1>. QED BY <1>2, <1>3, <1>6 DEF CancelInv

LEMMA Ranges ==
  ASSUME TypeInv
  PROVE  \A n \in Managers : /\ mgr[n].cancel # 0 => mgr[n].cancel \in Clients
                             /\ ops[n] \in Threads \cup {Nil}
<1>1. \A n \in Managers : mgr[n].cancel \in 0 .. MaxClients /\ ops[n] \in Threads \cup {Nil}
      BY DEF TypeInv, MgrState
<1>. QED BY <1>1, TunnelAssumption DEF Clients

LEMMA QuietOwn ==
  ASSUME TypeInv, OwnInv, BornInv, CancelInv, NEW t \in Threads, Quiet(t)
  PROVE  OwnInv' /\ BornInv' /\ CancelInv'
<1>1. Born' = Born /\ Born \subseteq Managers BY DEF Quiet, Born
<1>2. \A m \in Managers : mgr[m].cancel # 0 => mgr[m].cancel \in Clients
      BY Ranges
<1>3. CancelInv' BY <1>2 DEF CancelInv, Quiet
<1>4. /\ \A u \in Threads : thread'[u].m \in Born \cup {0}
      /\ \A c \in Clients : client'[c].phase \in {"running", "ending"} => client'[c].owner \in Born
      BY DEF BornInv, Quiet, Moves
<1>5. BornInv' BY <1>1, <1>4 DEF BornInv, Quiet
<1>6. ASSUME NEW u \in Threads
      PROVE  /\ thread'[u].pc \in {"lock", "dial", "wait", "swap"} => thread'[u].m \in Managers
             /\ Holds(u)' => ops'[thread'[u].m] = u
             /\ thread'[u].pc = "dial" => thread'[u].job \in Starting
             /\ thread'[u].pc = "wait" => thread'[u].job \in Stopping \cup {"halt"}
             /\ thread'[u].pc \in {"lock", "wait"} /\ thread'[u].job = "halt"
                  => mgr'[thread'[u].m].rejected
      BY <1>1 DEF OwnInv, Holds, Quiet, Moves
<1>7. \A m \in Managers : ops'[m] # Nil => thread'[ops'[m]].m = m
                                          /\ thread'[ops'[m]].pc \in {"dial", "wait"}
  <2>1. \A m \in Managers : ops[m] \in Threads \cup {Nil} BY DEF TypeInv
  <2>. QED BY <2>1 DEF OwnInv, Holds, Quiet, Moves
<1>. QED BY <1>3, <1>5, <1>6, <1>7 DEF OwnInv, Holds

LEMMA WorkOwn ==
  ASSUME TypeInv, OwnInv, BornInv, CancelInv, NEW t \in Threads, Works(t), TypeInv'
  PROVE  OwnInv' /\ BornInv' /\ CancelInv'
<1> DEFINE m == thread[t].m
<1>0. m \in Managers /\ m # 0 BY ManagersAre DEF Works, Born
<1>1. Born' = Born BY <1>0 DEF Works, Born
<1>2. \A n \in Managers : /\ mgr[n].cancel # 0 => mgr[n].cancel \in Clients
                          /\ ops[n] \in Threads \cup {Nil}
      BY Ranges
<1>3. CancelInv'
  <2> SUFFICES ASSUME NEW n \in Managers, mgr'[n].cancel # 0
               PROVE  /\ client'[mgr'[n].cancel].phase # "unborn"
                      /\ client'[mgr'[n].cancel].phase \in {"running", "ending"}
                           => client'[mgr'[n].cancel].owner = n
      BY DEF CancelInv
  <2>1. CASE mgr'[n].cancel = mgr[n].cancel
    <3> DEFINE c == mgr[n].cancel
    <3>1. c \in Clients /\ client[c].phase # "unborn" /\ Evolves(c, m)
          /\ (client[c].phase \in {"running", "ending"} => client[c].owner = n)
          BY <1>2, <2>1 DEF CancelInv, Works
    <3>. QED BY <2>1, <3>1 DEF Evolves
  <2>2. CASE n = m /\ client'[mgr'[n].cancel].phase = "running"
               /\ client'[mgr'[n].cancel].owner = m
        BY <2>2
  <2>. QED BY <1>0, <2>1, <2>2 DEF Works
<1>4. \A u \in Threads : thread'[u].m \in Born \cup {0}
      BY DEF BornInv, Works, Moves
<1>5. \A c \in Clients : client'[c].phase \in {"running", "ending"} => client'[c].owner \in Born
      BY DEF BornInv, Works, Evolves
<1>6. BornInv' BY <1>1, <1>4, <1>5 DEF BornInv, Works
<1>7. \A n \in Managers : mgr'[n].rejected = mgr[n].rejected
      BY <1>0 DEF Works
<1>8. ASSUME NEW u \in Threads
      PROVE  /\ thread'[u].pc \in {"lock", "dial", "wait", "swap"} => thread'[u].m \in Managers
             /\ Holds(u)' => ops'[thread'[u].m] = u
             /\ thread'[u].pc = "dial" => thread'[u].job \in Starting
             /\ thread'[u].pc = "wait" => thread'[u].job \in Stopping \cup {"halt"}
             /\ thread'[u].pc \in {"lock", "wait"} /\ thread'[u].job = "halt"
                  => mgr'[thread'[u].m].rejected
  <2>1. CASE u = t BY <1>0, <1>7, <2>1 DEF Works, Holds
  <2>2. CASE u # t
    <3>1. thread'[u] = thread[u] BY <2>2 DEF Works, Moves
    <3>2. Holds(u) => thread[u].m \in Managers /\ ops[thread[u].m] = u
          BY DEF OwnInv, Holds
    <3>3. Holds(u) => thread[u].m # m
          BY <2>2, <3>2, TunnelAssumption DEF Works
    <3>4. Holds(u) => ops'[thread[u].m] = u BY <3>2, <3>3 DEF Works
    <3>. QED BY <1>7, <3>1, <3>4 DEF OwnInv, Holds
  <2>. QED BY <2>1, <2>2
<1>9. ASSUME NEW n \in Managers, ops'[n] # Nil
      PROVE  thread'[ops'[n]].m = n /\ thread'[ops'[n]].pc \in {"dial", "wait"}
  <2>1. CASE n = m BY <1>9, <2>1 DEF Works
  <2>2. CASE n # m
    <3>1. ops'[n] = ops[n] /\ ops[n] \in Threads /\ thread[ops[n]].m = n /\ Holds(ops[n])
          BY <1>2, <1>9, <2>2 DEF Works, OwnInv
    <3>2. thread'[ops[n]] = thread[ops[n]] BY <2>2, <3>1 DEF Works, Moves
    <3>3. thread'[ops'[n]] = thread[ops[n]] BY <3>1, <3>2
    <3>. QED BY <3>1, <3>3 DEF Holds
  <2>. QED BY <2>1, <2>2
<1>. QED BY <1>3, <1>6, <1>8, <1>9 DEF OwnInv, Holds

LEMMA AdoptOwn ==
  ASSUME TypeInv, OwnInv, BornInv, CancelInv, NEW t \in Threads, Adopts(t), TypeInv'
  PROVE  OwnInv' /\ BornInv' /\ CancelInv'
<1> DEFINE k == NextManager
<1>0. k \in Managers /\ k # 0 /\ k \notin Born BY ManagersAre DEF Adopts
<1>1. \A n \in Managers : /\ mgr[n].cancel # 0 => mgr[n].cancel \in Clients
                          /\ ops[n] \in Threads \cup {Nil}
      BY Ranges
<1>2. mgr'[k].cancel = 0 BY DEF Adopts, NewManager, Unborn
<1>3. CancelInv' BY <1>0, <1>1, <1>2 DEF CancelInv, Adopts
<1>4. \A u \in Threads : thread'[u].m \in Born' \cup {0}
      BY DEF BornInv, Adopts, Moves
<1>5. BornInv' BY <1>4 DEF BornInv, Adopts
<1>6. \A u \in Threads : thread[u].m # k BY <1>0 DEF BornInv
<1>7. ASSUME NEW u \in Threads
      PROVE  /\ thread'[u].pc \in {"lock", "dial", "wait", "swap"} => thread'[u].m \in Managers
             /\ Holds(u)' => ops'[thread'[u].m] = u
             /\ thread'[u].pc = "dial" => thread'[u].job \in Starting
             /\ thread'[u].pc = "wait" => thread'[u].job \in Stopping \cup {"halt"}
             /\ thread'[u].pc \in {"lock", "wait"} /\ thread'[u].job = "halt"
                  => mgr'[thread'[u].m].rejected
  <2>1. CASE u = t BY <1>0, <2>1 DEF Adopts, Holds
  <2>2. CASE u # t
    <3>1. thread'[u] = thread[u] BY <2>2 DEF Adopts, Moves
    <3>2. \A n \in Managers \ {k} : mgr'[n] = mgr[n] BY DEF Adopts
    <3>3. ops' = ops BY DEF Adopts
    <3>. QED BY <1>6, <3>1, <3>2, <3>3 DEF OwnInv, Holds
  <2>. QED BY <2>1, <2>2
<1>8. ASSUME NEW n \in Managers, ops'[n] # Nil
      PROVE  thread'[ops'[n]].m = n /\ thread'[ops'[n]].pc \in {"dial", "wait"}
  <2>1. ops'[n] = ops[n] /\ ops[n] \in Threads /\ thread[ops[n]].m = n /\ Holds(ops[n])
        BY <1>1, <1>8 DEF Adopts, OwnInv
  <2>2. ops[n] # t BY <2>1 DEF Adopts, Holds
  <2>3. thread'[ops'[n]] = thread[ops[n]] BY <2>1, <2>2 DEF Adopts, Moves
  <2>. QED BY <2>1, <2>3 DEF Holds
<1>. QED BY <1>3, <1>5, <1>7, <1>8 DEF OwnInv, Holds

LEMMA ReportOwn ==
  ASSUME TypeInv, OwnInv, BornInv, CancelInv, NEW m \in Managers, Reports(m), TypeInv'
  PROVE  OwnInv' /\ BornInv' /\ CancelInv'
<1>0. m # 0 BY ManagersAre
<1>1. \A n \in Managers : /\ mgr[n].cancel # 0 => mgr[n].cancel \in Clients
                          /\ ops[n] \in Threads \cup {Nil}
      BY Ranges
<1>2. \A n \in Managers : /\ mgr'[n].cancel = mgr[n].cancel
                          /\ mgr[n].rejected => mgr'[n].rejected
                          /\ mgr'[n].st = "unborn" <=> mgr[n].st = "unborn"
      BY DEF Reports
<1>3. CancelInv' BY <1>1, <1>2 DEF CancelInv, Reports
<1>4. Born' = Born BY <1>2 DEF Born
<1>5. ASSUME NEW u \in Threads
      PROVE  \/ thread'[u] = thread[u]
             \/ /\ thread[u].pc = "idle" /\ thread'[u].pc = "lock"
                /\ thread'[u].m = m /\ m \in Born
                /\ thread'[u].job = "halt" => mgr'[m].rejected
      BY <1>5 DEF Reports, Moves, Born
<1>6. \A c \in Clients : client'[c].phase \in {"running", "ending"} => client'[c].owner \in Born
      BY DEF BornInv, Reports
<1>7. \A u \in Threads : thread'[u].m \in Born \cup {0} BY <1>5 DEF BornInv
<1>8. BornInv' BY <1>4, <1>6, <1>7 DEF BornInv, Reports
<1>9. ops' = ops BY DEF Reports
<1>10. ASSUME NEW u \in Threads
       PROVE  /\ thread'[u].pc \in {"lock", "dial", "wait", "swap"} => thread'[u].m \in Managers
              /\ Holds(u)' => ops'[thread'[u].m] = u
              /\ thread'[u].pc = "dial" => thread'[u].job \in Starting
              /\ thread'[u].pc = "wait" => thread'[u].job \in Stopping \cup {"halt"}
              /\ thread'[u].pc \in {"lock", "wait"} /\ thread'[u].job = "halt"
                   => mgr'[thread'[u].m].rejected
       BY <1>2, <1>5, <1>9 DEF OwnInv, Holds
<1>11. ASSUME NEW n \in Managers, ops'[n] # Nil
       PROVE  thread'[ops'[n]].m = n /\ thread'[ops'[n]].pc \in {"dial", "wait"}
  <2>1. ops'[n] = ops[n] /\ ops[n] \in Threads /\ thread[ops[n]].m = n /\ Holds(ops[n])
        BY <1>1, <1>9, <1>11 DEF OwnInv
  <2>2. thread[ops[n]].pc \in {"dial", "wait"} BY <2>1 DEF Holds
  <2>3. thread'[ops[n]] = thread[ops[n]] BY <1>5, <2>1, <2>2
  <2>4. thread'[ops'[n]] = thread[ops[n]] BY <2>1, <2>3
  <2>. QED BY <2>1, <2>4 DEF Holds
<1>. QED BY <1>3, <1>8, <1>10, <1>11 DEF OwnInv, Holds

-----------------------------------------------------------------------------
(* What a manager runs.                                                     *)

LEMMA InitLive == Init => LiveInv
<1> SUFFICES ASSUME Init, NEW m \in Managers PROVE LiveAt(m) BY DEF LiveInv
<1>1. Live(m) = {} BY DEF Live, Init, NoClient
<1>2. ops[m] = Nil /\ mgr[m].st \in {"unborn", "stopped"} BY DEF Init, NewManager, Unborn
<1>. QED BY <1>1, <1>2 DEF LiveAt

LEMMA LiveKept ==
  ASSUME NEW n \in Managers, LiveAt(n), Live(n)' = Live(n), ops'[n] = ops[n],
         mgr'[n].cancel = mgr[n].cancel, mgr[n].rejected => mgr'[n].rejected,
         \/ mgr'[n].st = mgr[n].st
         \/ mgr[n].st = "starting" /\ mgr'[n].st = "connected",
         ops[n] # Nil => thread'[ops[n]].pc = thread[ops[n]].pc
  PROVE  LiveAt(n)'
<1>1. CASE mgr'[n].rejected BY <1>1 DEF LiveAt
<1>2. CASE ~mgr'[n].rejected
  <2>1. /\ Live(n)' \subseteq {mgr'[n].cancel}
        /\ ops'[n] # Nil \/ mgr'[n].st \in {"unborn", "stopped", "failed"} => Live(n)' = {}
        /\ ops'[n] = Nil /\ mgr'[n].st \in {"starting", "connected"} => Live(n)' # {}
        BY <1>2 DEF LiveAt
  <2>2. ops'[n] # Nil =>
          /\ thread'[ops'[n]].pc = "wait" => mgr'[n].st = "stopped"
          /\ thread'[ops'[n]].pc = "dial" => mgr'[n].st \in {"starting", "connected"}
        BY <1>2 DEF LiveAt
  <2>. QED BY <2>1, <2>2 DEF LiveAt
<1>. QED BY <1>1, <1>2

\* Whoever holds a manager is not the thread that goes somewhere else.
LEMMA HolderStays ==
  ASSUME TypeInv, OwnInv, NEW n \in Managers, NEW t \in Threads, Moves(t),
         ops[n] # Nil => thread[t].m # n \/ ~Holds(t) \/ thread'[t] = thread[t]
  PROVE  ops[n] # Nil => thread'[ops[n]] = thread[ops[n]]
BY Ranges DEF OwnInv, Moves

LEMMA QuietLive ==
  ASSUME TypeInv, OwnInv, LiveInv, NEW t \in Threads, Quiet(t)
  PROVE  LiveInv'
<1> SUFFICES ASSUME NEW n \in Managers PROVE LiveAt(n)' BY DEF LiveInv
<1>1. Live(n)' = Live(n) BY DEF Live, Quiet
<1>2. ops[n] # Nil => thread'[ops[n]] = thread[ops[n]] BY HolderStays DEF Quiet
<1>. QED BY <1>1, <1>2, LiveKept DEF Quiet, LiveInv

LEMMA ReportLive ==
  ASSUME TypeInv, OwnInv, LiveInv, NEW m \in Managers, Reports(m),
         \/ mgr'[m].rejected \/ mgr'[m].st = mgr[m].st
         \/ mgr[m].st = "starting" /\ mgr'[m].st = "connected"
  PROVE  LiveInv'
<1> SUFFICES ASSUME NEW n \in Managers, ~mgr'[n].rejected PROVE LiveAt(n)'
    BY DEF LiveInv, LiveAt
<1>1. Live(n)' = Live(n) BY DEF Live, Reports
<1>2. ops[n] # Nil => thread'[ops[n]] = thread[ops[n]]
  <2>1. ASSUME UNCHANGED thread PROVE ops[n] # Nil => thread'[ops[n]] = thread[ops[n]]
        BY <2>1
  <2>2. ASSUME NEW t \in Threads, Moves(t), thread[t].pc = "idle"
        PROVE  ops[n] # Nil => thread'[ops[n]] = thread[ops[n]]
        BY <2>2, HolderStays DEF Holds
  <2>. QED BY <2>1, <2>2 DEF Reports
<1>3. /\ mgr'[n].cancel = mgr[n].cancel /\ ops'[n] = ops[n]
      /\ mgr[n].rejected => mgr'[n].rejected
      /\ \/ mgr'[n].st = mgr[n].st
         \/ mgr[n].st = "starting" /\ mgr'[n].st = "connected"
      BY DEF Reports
<1>. QED BY <1>1, <1>2, <1>3, LiveKept DEF LiveInv

LEMMA AdoptLive ==
  ASSUME TypeInv, OwnInv, BornInv, LiveInv, NEW t \in Threads, Adopts(t)
  PROVE  LiveInv'
<1> SUFFICES ASSUME NEW n \in Managers PROVE LiveAt(n)' BY DEF LiveInv
<1>1. CASE n = NextManager
  <2>1. n \notin Born /\ n # 0 BY <1>1, ManagersAre DEF Adopts
  <2>2. Live(n)' = {} BY <2>1 DEF Live, Adopts, BornInv
  <2>3. ops[n] = Nil BY <2>1, Ranges DEF OwnInv, BornInv
  <2>4. ops'[n] = Nil /\ mgr'[n].st = "stopped"
        BY <1>1, <2>3 DEF Adopts, NewManager, Unborn
  <2>. QED BY <2>2, <2>4 DEF LiveAt
<1>2. CASE n # NextManager
  <2>1. Live(n)' = Live(n) /\ mgr'[n] = mgr[n] /\ ops'[n] = ops[n]
        BY <1>2 DEF Live, Adopts
  <2>2. ops[n] # Nil => thread'[ops[n]] = thread[ops[n]] BY HolderStays DEF Adopts, Holds
  <2>. QED BY <2>1, <2>2, LiveKept DEF LiveInv
<1>. QED BY <1>1, <1>2

LEMMA OthersLive ==
  ASSUME TypeInv, OwnInv, LiveInv, NEW t \in Threads, Works(t),
         NEW m \in Managers, m = thread[t].m, LiveAt(m)'
  PROVE  LiveInv'
<1> SUFFICES ASSUME NEW n \in Managers, n # m PROVE LiveAt(n)' BY DEF LiveInv
<1>1. Live(n)' = Live(n) BY DEF Live, Works, Evolves
<1>2. ops[n] # Nil => thread'[ops[n]] = thread[ops[n]] BY HolderStays DEF Works
<1>. QED BY <1>1, <1>2, LiveKept DEF Works, LiveInv

LEMMA WorkLive ==
  ASSUME TypeInv, OwnInv, BornInv, CancelInv, LiveInv, NEW t \in Threads, WorkStep(t)
  PROVE  LiveInv'
<1>1. Works(t) /\ TypeInv' BY WorkIsWork
<1>2. PICK m \in Managers : m = thread[t].m BY <1>1 DEF Works, Born
<1>3. LiveAt(m) /\ mgr[m] \in MgrState /\ mgr'[m] \in MgrState
      BY <1>1 DEF LiveInv, TypeInv
<1>4. thread[t].pc # "lock" => ops[m] = t /\ t # Nil /\ Holds(t)
      BY <1>1, <1>2, WorksOn, TunnelAssumption DEF Works, Holds
<1>5. mgr'[m].rejected = mgr[m].rejected
        /\ ops'[m] = IF thread'[t].pc \in {"dial", "wait"} THEN t ELSE Nil
      BY <1>1, <1>2 DEF Works
<1> SUFFICES ASSUME ~mgr[m].rejected PROVE LiveAt(m)'
    BY <1>1, <1>2, <1>5, OthersLive DEF LiveAt
<1>6. ASSUME StartBegins(t) \/ RestartGoesOn(t) PROVE LiveAt(m)'
  <2>1. mgr' = [mgr EXCEPT ![m].st = "starting"] /\ client' = client
        BY <1>2, <1>6 DEF StartBegins, RestartGoesOn
  <2>2. mgr'[m].st = "starting" BY <2>1 DEF TypeInv, MgrState
  <2>3. Live(m)' = {}
    <3>1. Live(m)' = Live(m) BY <2>1 DEF Live
    <3>2. CASE StartBegins(t)
          BY <1>2, <1>3, <3>1, <3>2 DEF StartBegins, MgrState, LiveAt
    <3>3. CASE RestartGoesOn(t) BY <1>3, <1>4, <3>1, <3>3 DEF RestartGoesOn, LiveAt
    <3>. QED BY <1>6, <3>2, <3>3
  <2>4. thread'[t].pc = "dial"
        BY <1>6 DEF StartBegins, RestartGoesOn, TypeInv, ThreadState
  <2>5. ops'[m] = t /\ t # Nil BY <1>5, <2>4, TunnelAssumption
  <2>. QED BY <2>2, <2>3, <2>4, <2>5 DEF LiveAt
<1>7. ASSUME DialRefused(t) \/ DialFails(t) PROVE LiveAt(m)'
  <2>1. PICK retryable \in BOOLEAN : Fail(m, retryable)
        BY <1>2, <1>7 DEF DialRefused, DialFails
  <2>2. mgr'[m] = FailFields(mgr[m], retryable) BY <2>1 DEF Fail, TypeInv
  <2>3. mgr'[m].st = "failed" BY <1>3, <2>2, Fails
  <2>4. thread[t].pc = "dial" /\ client' = client BY <1>7 DEF DialRefused, DialFails
  <2>5. Live(m)' = {} BY <1>3, <1>4, <2>4 DEF Live, LiveAt
  <2>6. Finish(t) BY <1>7 DEF DialRefused, DialFails
  <2>7. ops'[m] = Nil BY <1>5, <2>6, Finishes
  <2>. QED BY <2>3, <2>5, <2>7 DEF LiveAt
<1>8. ASSUME DialSucceeds(t) PROVE LiveAt(m)'
  <2>1. PICK c \in Clients :
          /\ client' = [client EXCEPT ![c] = [owner |-> m, phase |-> "running", did |-> {}]]
          /\ mgr' = [mgr EXCEPT ![m].cancel = c]
        BY <1>2, <1>8 DEF DialSucceeds
  <2>2. thread[t].pc = "dial" /\ Finish(t) BY <1>8 DEF DialSucceeds
  <2>3. Live(m) = {} /\ mgr[m].st \in {"starting", "connected"}
        BY <1>3, <1>4, <2>2 DEF LiveAt
  <2>4. mgr'[m].cancel = c /\ mgr'[m].st = mgr[m].st BY <2>1 DEF TypeInv, MgrState
  <2>5. Live(m)' = {c} BY <2>1, <2>3 DEF Live, TypeInv
  <2>6. ops'[m] = Nil BY <1>5, <2>2, Finishes
  <2>. QED BY <2>3, <2>4, <2>5, <2>6 DEF LiveAt
<1>9. ASSUME StopSection(t) PROVE LiveAt(m)'
  <2>1. mgr'[m] = StopFields(mgr[m]) /\ thread[t].pc = "lock" /\ Goto(t, "wait")
        BY <1>2, <1>9 DEF StopSection, TypeInv
  <2>2. mgr'[m].st = "stopped" BY <1>3, <2>1, Stops
  <2>3. \A c \in Clients :
          client'[c].phase = "running" => c # mgr[m].cancel /\ client'[c] = client[c]
        BY <1>2, <1>9, StoppingWorks
  <2>4. Live(m)' = {} BY <1>3, <2>3 DEF Live, LiveAt
  <2>5. thread'[t].pc = "wait" BY <2>1, Goes DEF Pcs
  <2>6. ops'[m] = t /\ t # Nil BY <1>5, <2>5, TunnelAssumption
  <2>. QED BY <2>2, <2>4, <2>5, <2>6 DEF LiveAt
<1>10. ASSUME HaltSection(t) PROVE LiveAt(m)'
       BY <1>2, <1>10 DEF HaltSection, OwnInv
<1>11. ASSUME WaitReturns(t) \/ ReconfigureGoesOn(t) PROVE LiveAt(m)'
  <2>1. thread[t].pc = "wait" /\ client' = client BY <1>11 DEF WaitReturns, ReconfigureGoesOn
  <2>2. Live(m)' = {} /\ mgr[m].st = "stopped"
        BY <1>3, <1>4, <2>1 DEF Live, LiveAt
  <2>3. CASE mgr'[m].st = "stopped" /\ thread'[t].pc # "dial"
    <3>1. thread'[t].pc \in {"dial", "wait"} => ops'[m] = t BY <1>5
    <3>2. ops'[m] \in {t, Nil} BY <1>5
    <3>. QED BY <2>2, <2>3, <3>2 DEF LiveAt
  <2>4. CASE mgr'[m].st = "starting" /\ thread'[t].pc = "dial"
    <3>1. ops'[m] = t /\ t # Nil BY <1>5, <2>4, TunnelAssumption
    <3>. QED BY <2>2, <2>4, <3>1 DEF LiveAt
  <2>5. CASE WaitReturns(t)
    <3>1. mgr' = mgr /\ (Return(t) \/ Goto(t, "drop") \/ Goto(t, "swap"))
          BY <2>5 DEF WaitReturns
    <3>2. thread'[t].pc \in {"idle", "drop", "swap"} BY <3>1, Returns, Goes DEF Idle, Pcs
    <3>. QED BY <2>2, <2>3, <3>1, <3>2
  <2>6. CASE ReconfigureGoesOn(t)
    <3>1. \/ /\ mgr' = [mgr EXCEPT ![m].cfg = thread[t].want, ![m].st = "starting"]
             /\ Goto(t, "dial")
          \/ /\ mgr' = [mgr EXCEPT ![m].cfg = thread[t].want, ![m].st = "stopped"]
             /\ Goto(t, "order")
          BY <1>2, <2>6 DEF ReconfigureGoesOn
    <3>2. \/ mgr'[m].st = "starting" /\ Goto(t, "dial")
          \/ mgr'[m].st = "stopped" /\ Goto(t, "order")
          BY <3>1 DEF TypeInv, MgrState
    <3>3. \/ mgr'[m].st = "starting" /\ thread'[t].pc = "dial"
          \/ mgr'[m].st = "stopped" /\ thread'[t].pc = "order"
          BY <3>2, Goes DEF Pcs
    <3>. QED BY <2>3, <2>4, <3>3
  <2>. QED BY <1>11, <2>5, <2>6
<1>. QED BY <1>6, <1>7, <1>8, <1>9, <1>10, <1>11 DEF WorkStep

-----------------------------------------------------------------------------
(* What people were told.                                                   *)

LEMMA InitTold == Init => ToldInv
<1> SUFFICES ASSUME Init, NEW m \in Managers PROVE ToldAt(m) BY DEF ToldInv
<1>1. ops[m] = Nil /\ mgr[m].st \in {"unborn", "stopped"} /\ mgr[m].retry = FALSE
        /\ mgr[m].failedBefore = FALSE
      BY DEF Init, NewManager, Unborn
<1>. QED BY <1>1 DEF ToldAt, Announced

LEMMA ToldKept ==
  ASSUME NEW n \in Managers, ToldAt(n), ops'[n] = ops[n], mgr'[n] = mgr[n],
         timers'[n] = timers[n],
         ops[n] # Nil => thread'[ops[n]].pc = thread[ops[n]].pc,
         mgr[n].st = "failed" /\ Retries(n) => Retries(n)'
  PROVE  ToldAt(n)'
<1>1. mgr'[n].st = "failed" /\ mgr'[n].cfg \in EnabledCfg /\ mgr'[n].told # "final"
        => Retries(n)'
      BY DEF ToldAt
<1>2. ops'[n] # Nil /\ thread'[ops'[n]].pc = "dial" =>
        \/ mgr'[n].st \in {"starting", "connected"}
        \/ mgr'[n].st = "failed" /\ mgr'[n].told = "final"
      BY DEF ToldAt
<1>3. mgr'[n].retry => timers'[n] > 0 BY DEF ToldAt
<1>4. Announced(mgr'[n]) BY DEF ToldAt
<1>. QED BY <1>1, <1>2, <1>3, <1>4 DEF ToldAt

\* A start that is about to take the mutex stays there unless it goes itself.
LEMMA StaysAtLock ==
  ASSUME TypeInv, NEW n \in Managers, NEW t \in Threads, Moves(t), timers'[n] = timers[n],
         ~(thread[t].m = n /\ thread[t].pc = "lock" /\ thread[t].job \in {"start", "create"}),
         Retries(n)
  PROVE  Retries(n)'
<1>1. CASE timers[n] > 0 BY <1>1 DEF Retries
<1>2. ASSUME NEW u \in Threads, thread[u].m = n, thread[u].pc = "lock",
             thread[u].job \in {"start", "create"}
      PROVE  Retries(n)'
  <2>1. u # t BY <1>2
  <2>2. thread'[u] = thread[u] BY <2>1 DEF Moves
  <2>3. /\ thread'[u].m = n /\ thread'[u].pc = "lock"
        /\ thread'[u].job \in {"start", "create"}
        BY <1>2, <2>2
  <2>. QED BY <2>3 DEF Retries
<1>. QED BY <1>1, <1>2 DEF Retries

LEMMA QuietTold ==
  ASSUME TypeInv, OwnInv, ToldInv, NEW t \in Threads, Quiet(t)
  PROVE  ToldInv'
<1> SUFFICES ASSUME NEW n \in Managers PROVE ToldAt(n)' BY DEF ToldInv
<1>1. ops[n] # Nil => thread'[ops[n]] = thread[ops[n]] BY HolderStays DEF Quiet
<1>2. mgr[n].st = "failed" /\ Retries(n) => Retries(n)'
  <2> SUFFICES ASSUME mgr[n].st = "failed", Retries(n) PROVE Retries(n)' OBVIOUS
  <2>1. CASE thread'[t] = thread[t]
    <3>1. \A u \in Threads : thread'[u] = thread[u] BY <2>1 DEF Quiet, Moves
    <3>. QED BY <3>1 DEF Quiet, Retries
  <2>2. CASE ~(thread[t].m = n /\ thread[t].pc = "lock" /\ thread[t].job \in {"start", "create"})
        BY <2>2, StaysAtLock DEF Quiet
  <2>. QED BY <2>1, <2>2 DEF Quiet
<1>. QED BY <1>1, <1>2, ToldKept DEF Quiet, ToldInv

LEMMA AdoptTold ==
  ASSUME TypeInv, OwnInv, BornInv, ToldInv, NEW t \in Threads, Adopts(t)
  PROVE  ToldInv'
<1> SUFFICES ASSUME NEW n \in Managers PROVE ToldAt(n)' BY DEF ToldInv
<1>1. CASE n = NextManager
  <2>1. n \notin Born /\ n # 0 BY <1>1, ManagersAre DEF Adopts
  <2>2. ops[n] = Nil BY <2>1, Ranges DEF OwnInv, BornInv
  <2>3. ops'[n] = Nil /\ mgr'[n].st = "stopped" /\ mgr'[n].retry = FALSE
          /\ mgr'[n].failedBefore = FALSE
        BY <1>1, <2>2 DEF Adopts, NewManager, Unborn
  <2>. QED BY <2>3 DEF ToldAt, Announced
<1>2. CASE n # NextManager
  <2>1. mgr'[n] = mgr[n] /\ ops'[n] = ops[n] /\ timers'[n] = timers[n]
        BY <1>2 DEF Adopts
  <2>2. ops[n] # Nil => thread'[ops[n]] = thread[ops[n]] BY HolderStays DEF Adopts, Holds
  <2>3. Retries(n) => Retries(n)' BY <2>1, StaysAtLock DEF Adopts
  <2>. QED BY <2>1, <2>2, <2>3, ToldKept DEF ToldInv
<1>. QED BY <1>1, <1>2

LEMMA OthersTold ==
  ASSUME TypeInv, OwnInv, ToldInv, NEW t \in Threads, Works(t),
         NEW m \in Managers, m = thread[t].m, ToldAt(m)'
  PROVE  ToldInv'
<1> SUFFICES ASSUME NEW n \in Managers, n # m PROVE ToldAt(n)' BY DEF ToldInv
<1>1. mgr'[n] = mgr[n] /\ ops'[n] = ops[n] /\ timers'[n] = timers[n] BY DEF Works
<1>2. ops[n] # Nil => thread'[ops[n]] = thread[ops[n]] BY HolderStays DEF Works
<1>3. Retries(n) => Retries(n)' BY <1>1, StaysAtLock DEF Works
<1>. QED BY <1>1, <1>2, <1>3, ToldKept DEF ToldInv

\* Whoever is told something new by a report, and whoever is not.
LEMMA ReportKeepsOthers ==
  ASSUME TypeInv, OwnInv, ToldInv, NEW m \in Managers, Reports(m)
  PROVE  /\ \A n \in Managers : ops[n] # Nil => thread'[ops[n]] = thread[ops[n]]
         /\ \A n \in Managers : timers'[n] = timers[n] /\ Retries(n) => Retries(n)'
         /\ ToldAt(m)' => ToldInv'
<1>1. ASSUME NEW n \in Managers PROVE ops[n] # Nil => thread'[ops[n]] = thread[ops[n]]
  <2>1. ASSUME UNCHANGED thread PROVE ops[n] # Nil => thread'[ops[n]] = thread[ops[n]]
        BY <2>1
  <2>2. ASSUME NEW t \in Threads, Moves(t), thread[t].pc = "idle"
        PROVE  ops[n] # Nil => thread'[ops[n]] = thread[ops[n]]
        BY <2>2, HolderStays DEF Holds
  <2>. QED BY <2>1, <2>2 DEF Reports
<1>2. ASSUME NEW n \in Managers, timers'[n] = timers[n], Retries(n) PROVE Retries(n)'
  <2>1. ASSUME UNCHANGED thread PROVE Retries(n)' BY <1>2, <2>1 DEF Retries
  <2>2. ASSUME NEW t \in Threads, Moves(t), thread[t].pc = "idle" PROVE Retries(n)'
        BY <1>2, <2>2, StaysAtLock
  <2>. QED BY <2>1, <2>2 DEF Reports
<1>3. ASSUME ToldAt(m)', NEW n \in Managers PROVE ToldAt(n)'
  <2>1. CASE n = m BY <1>3, <2>1
  <2>2. CASE n # m
    <3>1. mgr'[n] = mgr[n] /\ timers'[n] = timers[n] /\ ops'[n] = ops[n]
          BY <2>2 DEF Reports
    <3>. QED BY <1>1, <1>2, <3>1, ToldKept DEF ToldInv
  <2>. QED BY <2>1, <2>2
<1>. QED BY <1>1, <1>2, <1>3 DEF ToldInv

LEMMA ReportTold ==
  ASSUME TypeInv, OwnInv, BornInv, ToldInv,
         ReportStep \/ \E t \in Threads, m \in Managers : RetryNow(m, t)
  PROVE  ToldInv'
<1>1. ASSUME NEW c \in Clients, ClientReady(c) PROVE ToldInv'
  <2>1. Reports(client[c].owner) BY <1>1, ReadyReports
  <2>2. PICK m \in Managers : m = client[c].owner BY <2>1 DEF Reports
  <2>3. mgr'[m] = ReadyFields(mgr[m]) /\ timers' = timers
        BY <1>1, <2>2 DEF ClientReady, TypeInv
  <2>4. /\ mgr'[m].st = IF mgr[m].st = "starting" THEN "connected" ELSE mgr[m].st
        /\ mgr'[m].cfg = mgr[m].cfg /\ mgr'[m].retry = mgr[m].retry
        /\ mgr[m].st # "starting" => mgr'[m].told = mgr[m].told
        /\ Announced(mgr[m]) => Announced(mgr'[m])
        BY <2>3, Readies DEF TypeInv
  <2>5. /\ ops[m] # Nil => thread'[ops[m]] = thread[ops[m]]
        /\ Retries(m) => Retries(m)'
        /\ ops'[m] = ops[m]
        BY <2>1, <2>2, <2>3, ReportKeepsOthers DEF Reports
  <2>6. ToldAt(m)' BY <2>3, <2>4, <2>5 DEF ToldAt, ToldInv
  <2>. QED BY <2>1, <2>2, <2>6, ReportKeepsOthers
<1>2. ASSUME NEW c \in Clients, ClientEnds(c) PROVE ToldInv'
  <2>1. Reports(client[c].owner) BY <1>2, EndReports
  <2>2. PICK m \in Managers : m = client[c].owner BY <2>1 DEF Reports
  <2>3. UNCHANGED <<mgr, timers, ops>> BY <1>2 DEF ClientEnds
  <2>4. /\ ops[m] # Nil => thread'[ops[m]] = thread[ops[m]]
        /\ Retries(m) => Retries(m)'
        BY <2>1, <2>2, <2>3, ReportKeepsOthers
  <2>5. ToldAt(m)' BY <2>3, <2>4, ToldKept DEF ToldInv
  <2>. QED BY <2>1, <2>2, <2>5, ReportKeepsOthers
<1>3. ASSUME NEW c \in Clients, NEW t \in Threads, ClientRejected(c, t) PROVE ToldInv'
  <2>1. Reports(client[c].owner) BY <1>3, RejectedReports
  <2>2. PICK m \in Managers : m = client[c].owner BY <2>1 DEF Reports
  <2> DEFINE f == FailFields(mgr[m], FALSE)
  <2>3. mgr'[m] = [f EXCEPT !.rejected = TRUE] /\ timers' = timers
        BY <1>3, <2>2, RejectedReports
  <2>4. /\ f \in MgrState /\ f.st = "failed" /\ f.cfg = mgr[m].cfg
        /\ f.retry = (mgr[m].retry \/ Schedules(mgr[m], FALSE))
        /\ f.told \in {"final", mgr[m].told}
        /\ mgr[m].st # "failed" => f.told = "final"
    <3> DEFINE r == mgr[m]
    <3>1. r \in MgrState BY DEF TypeInv
    <3> HIDE DEF r
    <3>2. /\ FailFields(r, FALSE) \in MgrState /\ FailFields(r, FALSE).st = "failed"
          /\ FailFields(r, FALSE).cfg = r.cfg
          /\ FailFields(r, FALSE).retry = (r.retry \/ Schedules(r, FALSE))
          /\ FailFields(r, FALSE).told \in {"final", r.told}
          /\ r.st # "failed" => FailFields(r, FALSE).told = "final"
          BY <3>1, Fails
    <3>. QED BY <3>2 DEF r
  <2> HIDE DEF f
  <2>5. f.retry = mgr[m].retry BY <2>4 DEF Schedules, TypeInv, MgrState
  <2>6. /\ mgr'[m].st = "failed" /\ mgr'[m].cfg = mgr[m].cfg
        /\ mgr'[m].retry = mgr[m].retry /\ mgr'[m].told \in {"final", mgr[m].told}
        /\ mgr[m].st # "failed" => mgr'[m].told = "final"
        BY <2>3, <2>4, <2>5 DEF MgrState
  <2>7. /\ ops[m] # Nil => thread'[ops[m]] = thread[ops[m]]
        /\ Retries(m) => Retries(m)'
        /\ ops'[m] = ops[m]
        BY <2>1, <2>2, <2>3, ReportKeepsOthers DEF Reports
  <2>8. Announced(mgr'[m])
    <3>1. Announced(f) BY Fails DEF f, ToldInv, ToldAt, TypeInv
    <3>. QED BY <2>3, <2>4, <3>1 DEF Announced, MgrState
  <2>9. ToldAt(m)' BY <2>3, <2>6, <2>7, <2>8 DEF ToldAt, ToldInv
  <2>. QED BY <2>1, <2>2, <2>9, ReportKeepsOthers
<1>4. ASSUME NEW t \in Threads, NEW m \in Managers, RetryNow(m, t) PROVE ToldInv'
  <2>1. Reports(m) /\ mgr'[m] = [mgr[m] EXCEPT !.retry = FALSE]
          /\ (mgr[m].st = "failed" /\ mgr[m].cfg \in EnabledCfg => Retries(m)')
        BY <1>4, RetryReports
  <2>2. /\ mgr'[m].st = mgr[m].st /\ mgr'[m].cfg = mgr[m].cfg
        /\ mgr'[m].retry = FALSE /\ mgr'[m].told = mgr[m].told
        /\ mgr'[m].failedBefore = mgr[m].failedBefore
        BY <2>1 DEF TypeInv, MgrState
  <2>3. ops'[m] = ops[m] /\ (ops[m] # Nil => thread'[ops[m]] = thread[ops[m]])
        BY <2>1, ReportKeepsOthers DEF Reports
  <2>4. ToldAt(m)' BY <2>1, <2>2, <2>3 DEF ToldAt, ToldInv, Announced
  <2>. QED BY <2>1, <2>4, ReportKeepsOthers
<1>. QED BY <1>1, <1>2, <1>3, <1>4 DEF ReportStep

LEMMA WorkTold ==
  ASSUME TypeInv, OwnInv, BornInv, CancelInv, ToldInv, NEW t \in Threads, WorkStep(t)
  PROVE  ToldInv'
<1>1. Works(t) /\ TypeInv' BY WorkIsWork
<1>2. PICK m \in Managers : m = thread[t].m BY <1>1 DEF Works, Born
<1>3. ToldAt(m) /\ mgr[m] \in MgrState /\ mgr'[m] \in MgrState /\ timers[m] \in Nat
      BY <1>1 DEF ToldInv, TypeInv
<1>4. thread[t].pc # "lock" => ops[m] = t /\ t # Nil
      BY <1>1, <1>2, WorksOn, TunnelAssumption DEF Works
<1>5. ops'[m] = IF thread'[t].pc \in {"dial", "wait"} THEN t ELSE Nil
      BY <1>1, <1>2 DEF Works
<1> SUFFICES ToldAt(m)' BY <1>1, <1>2, OthersTold
<1>6. ASSUME StartBegins(t) \/ RestartGoesOn(t) PROVE ToldAt(m)'
  <2>1. mgr' = [mgr EXCEPT ![m].st = "starting"] /\ timers' = timers
        BY <1>2, <1>6 DEF StartBegins, RestartGoesOn
  <2>2. /\ mgr'[m].st = "starting" /\ mgr'[m].retry = mgr[m].retry
        /\ mgr'[m].told = mgr[m].told /\ mgr'[m].failedBefore = mgr[m].failedBefore
        BY <2>1 DEF TypeInv, MgrState
  <2>. QED BY <1>3, <2>1, <2>2 DEF ToldAt, Announced
<1>7. ASSUME NEW retryable \in BOOLEAN, Fail(m, retryable), thread[t].pc = "dial", Finish(t)
      PROVE  ToldAt(m)'
  <2> DEFINE f == FailFields(mgr[m], retryable)
  <2>1. mgr'[m] = f /\ timers'[m] = IF Schedules(mgr[m], retryable) THEN timers[m] + 1
                                    ELSE timers[m]
        BY <1>7 DEF Fail, TypeInv
  <2>2. /\ f.st = "failed" /\ f.cfg = mgr[m].cfg
        /\ f.retry = (mgr[m].retry \/ Schedules(mgr[m], retryable))
        /\ ~retryable => f.told \in {"final", mgr[m].told}
        /\ ~retryable /\ mgr[m].st # "failed" => f.told = "final"
        /\ Announced(mgr[m]) => Announced(f)
        BY <1>3, Fails
  <2> HIDE DEF f
  <2>3. mgr[m].st # "failed" \/ mgr[m].told = "final" BY <1>3, <1>4, <1>7 DEF ToldAt
  <2>4. ~retryable => mgr'[m].told = "final" BY <2>1, <2>2, <2>3
  <2>5. mgr'[m].retry => timers'[m] > 0
    <3>1. CASE Schedules(mgr[m], retryable)
      <4>1. timers'[m] = timers[m] + 1 BY <2>1, <3>1
      <4>. QED BY <1>3, <4>1
    <3>2. CASE ~Schedules(mgr[m], retryable)
      <4>1. timers'[m] = timers[m] BY <2>1, <3>2
      <4>2. mgr'[m].retry => mgr[m].retry BY <2>1, <2>2, <3>2
      <4>3. mgr[m].retry => timers[m] > 0 BY <1>3 DEF ToldAt
      <4>. QED BY <4>1, <4>2, <4>3
    <3>. QED BY <3>1, <3>2
  <2>6. retryable /\ mgr'[m].cfg \in EnabledCfg => mgr'[m].retry
        BY <2>1, <2>2 DEF Schedules
  <2>7. ops'[m] = Nil BY <1>5, <1>7, Finishes
  <2>8. Announced(mgr'[m]) BY <1>3, <2>1, <2>2 DEF ToldAt
  <2>. QED BY <2>1, <2>2, <2>4, <2>5, <2>6, <2>7, <2>8 DEF ToldAt, Retries
<1>8. ASSUME DialRefused(t) \/ DialFails(t) PROVE ToldAt(m)'
      BY <1>2, <1>7, <1>8 DEF DialRefused, DialFails
<1>9. ASSUME DialSucceeds(t) PROVE ToldAt(m)'
  <2>1. PICK c \in Clients : mgr' = [mgr EXCEPT ![m].cancel = c]
        BY <1>2, <1>9 DEF DialSucceeds
  <2>2. /\ mgr'[m].st = mgr[m].st /\ mgr'[m].retry = mgr[m].retry
        /\ mgr'[m].told = mgr[m].told /\ mgr'[m].failedBefore = mgr[m].failedBefore
        BY <2>1 DEF TypeInv, MgrState
  <2>3. thread[t].pc = "dial" /\ Finish(t) /\ timers' = timers BY <1>9 DEF DialSucceeds
  <2>4. mgr[m].st # "failed" \/ mgr[m].told = "final" BY <1>3, <1>4, <2>3 DEF ToldAt
  <2>5. ops'[m] = Nil BY <1>5, <2>3, Finishes
  <2>. QED BY <1>3, <2>2, <2>3, <2>4, <2>5 DEF ToldAt, Announced
<1>10. ASSUME StopSection(t) PROVE ToldAt(m)'
  <2>1. mgr'[m] = StopFields(mgr[m]) /\ Goto(t, "wait")
        BY <1>2, <1>10 DEF StopSection, TypeInv
  <2>2. mgr'[m].st = "stopped" /\ mgr'[m].retry = FALSE /\ Announced(mgr'[m])
        BY ZenonT(30), <1>3, <2>1, Stops
  <2>3. thread'[t].pc = "wait" BY <2>1, Goes DEF Pcs
  <2>4. ops'[m] = t BY <1>5, <2>3
  <2>. QED BY <2>2, <2>3, <2>4 DEF ToldAt
<1>11. ASSUME HaltSection(t) PROVE ToldAt(m)'
  <2>1. mgr' = [mgr EXCEPT ![m].cancel = 0] /\ Goto(t, "wait") /\ timers' = timers
          /\ thread[t].job = "halt"
        BY <1>2, <1>11 DEF HaltSection
  <2>2. /\ mgr'[m].st = mgr[m].st /\ mgr'[m].retry = mgr[m].retry
        /\ mgr'[m].told = mgr[m].told /\ mgr'[m].cfg = mgr[m].cfg
        /\ mgr'[m].failedBefore = mgr[m].failedBefore
        BY <2>1 DEF TypeInv, MgrState
  <2>3. Retries(m) => Retries(m)' BY <1>1, <2>1, StaysAtLock DEF Works
  <2>4. thread'[t].pc = "wait" BY <2>1, Goes DEF Pcs
  <2>5. ops'[m] = t BY <1>5, <2>4
  <2>. QED BY <1>3, <2>1, <2>2, <2>3, <2>4, <2>5 DEF ToldAt, Announced
<1>12. ASSUME WaitReturns(t) PROVE ToldAt(m)'
  <2>1. /\ UNCHANGED <<mgr, timers>> /\ thread[t].pc = "wait"
        /\ Return(t) \/ Goto(t, "drop") \/ Goto(t, "swap")
        BY <1>12 DEF WaitReturns
  <2>2. thread'[t].pc \in {"idle", "drop", "swap"} BY <2>1, Returns, Goes DEF Idle, Pcs
  <2>3. ops'[m] = Nil BY <1>5, <2>2
  <2>4. Retries(m) => Retries(m)' BY <1>1, <2>1, StaysAtLock DEF Works
  <2>. QED BY <1>3, <2>1, <2>3, <2>4 DEF ToldAt
<1>13. ASSUME ReconfigureGoesOn(t) PROVE ToldAt(m)'
  <2>1. PICK st \in {"starting", "stopped"} :
          /\ mgr' = [mgr EXCEPT ![m].cfg = thread[t].want, ![m].st = st]
          /\ st = "stopped" => Goto(t, "order")
        BY <1>2, <1>13 DEF ReconfigureGoesOn
  <2>2. /\ mgr'[m].st = st /\ mgr'[m].retry = mgr[m].retry
        /\ mgr'[m].told = mgr[m].told /\ mgr'[m].failedBefore = mgr[m].failedBefore
        BY <2>1 DEF TypeInv, MgrState
  <2>3. timers' = timers BY <1>13 DEF ReconfigureGoesOn
  <2>4. st = "stopped" => ops'[m] = Nil BY <1>5, <2>1, Goes DEF Pcs
  <2>. QED BY <1>3, <2>2, <2>3, <2>4 DEF ToldAt, Announced
<1>. QED BY <1>6, <1>8, <1>9, <1>10, <1>11, <1>12, <1>13 DEF WorkStep

-----------------------------------------------------------------------------
(* The properties.                                                          *)

LEMMA InitInv == Init => IInv
BY InitType, InitOwn, InitLive, InitTold DEF IInv

LEMMA StepInv == IInv /\ [Next]_vars => IInv'
<1> SUFFICES ASSUME IInv, [Next]_vars PROVE IInv' OBVIOUS
<1> USE DEF IInv
<1>1. CASE Next
  <2>1. TypeInv' BY <1>1, StepShape
  <2>2. OwnInv' /\ BornInv' /\ CancelInv'
        BY <1>1, <2>1, StepShape, QuietOwn, WorkOwn, AdoptOwn, ReportOwn
  <2>3. ASSUME NEW t \in Threads, QuietStep(t) PROVE LiveInv' /\ ToldInv'
        BY <2>3, QuietIsQuiet, QuietLive, QuietTold
  <2>4. ASSUME NEW t \in Threads, WorkStep(t) PROVE LiveInv' /\ ToldInv'
        BY <2>4, WorkLive, WorkTold
  <2>5. ASSUME NEW t \in Threads, ApplyCreates(t) \/ RebuildSwaps(t)
        PROVE  LiveInv' /\ ToldInv'
        BY <2>5, AdoptAdopts, AdoptLive, AdoptTold
  <2>6. ASSUME ReportStep PROVE LiveInv' /\ ToldInv'
    <3>1. ASSUME NEW c \in Clients, ClientReady(c) PROVE LiveInv'
      <4>1. Reports(client[c].owner) BY <3>1, ReadyReports
      <4>2. PICK m \in Managers : m = client[c].owner BY <4>1 DEF Reports
      <4>3. mgr'[m] = ReadyFields(mgr[m])
            BY <3>1, <4>2 DEF ClientReady, TypeInv
      <4>4. mgr'[m].st = mgr[m].st \/ (mgr[m].st = "starting" /\ mgr'[m].st = "connected")
            BY <4>3, Readies DEF TypeInv
      <4>. QED BY <4>1, <4>2, <4>4, ReportLive
    <3>2. ASSUME NEW c \in Clients, ClientEnds(c) PROVE LiveInv'
      <4>1. Reports(client[c].owner) BY <3>2, EndReports
      <4>2. mgr' = mgr BY <3>2 DEF ClientEnds
      <4>. QED BY <4>1, <4>2, ReportLive DEF Reports
    <3>3. ASSUME NEW c \in Clients, NEW t \in Threads, ClientRejected(c, t) PROVE LiveInv'
      <4>1. /\ Reports(client[c].owner)
            /\ mgr'[client[c].owner] =
                 [FailFields(mgr[client[c].owner], FALSE) EXCEPT !.rejected = TRUE]
            BY <3>3, RejectedReports
      <4>2. PICK m \in Managers : m = client[c].owner BY <4>1 DEF Reports
      <4>3. FailFields(mgr[m], FALSE) \in MgrState BY Fails DEF TypeInv
      <4>4. mgr'[m].rejected BY <4>1, <4>2, <4>3 DEF MgrState
      <4>. QED BY <4>1, <4>2, <4>4, ReportLive
    <3>. QED BY <2>6, <3>1, <3>2, <3>3, ReportTold DEF ReportStep
  <2>7. ASSUME NEW t \in Threads, NEW m \in Managers, RetryNow(m, t)
        PROVE  LiveInv' /\ ToldInv'
    <3>1. Reports(m) /\ mgr'[m] = [mgr[m] EXCEPT !.retry = FALSE] BY <2>7, RetryReports
    <3>2. mgr'[m].st = mgr[m].st BY <3>1 DEF TypeInv, MgrState
    <3>. QED BY <2>7, <3>1, <3>2, ReportLive, ReportTold
  <2>8. LiveInv' /\ ToldInv' BY <1>1, NextIsOneOf, <2>3, <2>4, <2>5, <2>6, <2>7
  <2>. QED BY <2>1, <2>2, <2>8
<1>2. CASE UNCHANGED vars
  <2>1. TypeInv' /\ OwnInv' /\ BornInv' /\ CancelInv'
        BY <1>2 DEF vars, TypeInv, OwnInv, Holds, BornInv, Born, CancelInv
  <2>2. LiveInv' /\ ToldInv'
        BY <1>2 DEF vars, LiveInv, LiveAt, Live, ToldInv, ToldAt, Retries
  <2>. QED BY <2>1, <2>2
<1>. QED BY <1>1, <1>2

LEMMA InvariantHolds == Spec => []IInv
BY InitInv, StepInv, PTL DEF Spec

(* No manager ever runs two clients, whatever retries, restarts, rebuilds,  *)
(* reconfigurations and timeouts do at once (Manager.Start, Stop,           *)
(* Reconfigure, Restart, retryNow): what a call leaves behind is ending.    *)
THEOREM NeverTwoClients == Spec => []OneClientPerManager
<1>1. IInv => OneClientPerManager
  <2> SUFFICES ASSUME IInv, NEW m \in Managers, ~Rejected(m)
               PROVE  Cardinality(Live(m)) <= 1
      BY DEF OneClientPerManager
  <2>1. Live(m) \subseteq {mgr[m].cancel} BY DEF IInv, LiveInv, LiveAt, Rejected
  <2>2. IsFiniteSet({mgr[m].cancel}) /\ Cardinality({mgr[m].cancel}) = 1 BY FS_Singleton
  <2>3. Cardinality(Live(m)) <= Cardinality({mgr[m].cancel}) BY <2>1, <2>2, FS_Subset
  <2>. QED BY <2>2, <2>3
<1>. QED BY InvariantHolds, <1>1, PTL

(* What a manager reports with no call under way is what it runs: nothing   *)
(* when it reads stopped, a client when it reads starting or connected      *)
(* (failWithCode, watchReady, stop).                                        *)
THEOREM ItRunsWhatItReports == Spec => []ReportsAreTrue
<1>1. IInv => ReportsAreTrue
  <2> SUFFICES ASSUME IInv PROVE ReportsAreTrue OBVIOUS
  <2>1. TypeOK
    <3>1. \A m \in Managers : timers[m] \in 0 .. MaxFaults
          BY TunnelAssumption DEF IInv, TypeInv
    <3>. QED BY <3>1 DEF IInv, TypeInv, TypeOK, MgrState, ClientState
  <2>2. StoppedIsSilent /\ ServingIsBacked
        BY DEF IInv, LiveInv, LiveAt, StoppedIsSilent, ServingIsBacked, Rejected
  <2>. QED BY <2>1, <2>2 DEF ReportsAreTrue
<1>. QED BY InvariantHolds, <1>1, PTL

(* Nobody is left believing that a failed tunnel is being retried, if it is *)
(* switched on: when no timer and no call is left to do it, the failure was *)
(* reported as final.  One that is switched off and was started all the     *)
(* same was reported, as final or as being retried (failWithCode, retryNow, *)
(* Group.Start).                                                            *)
THEOREM FinalMeansFinal == Spec => []ToldTheTruth
<1>1. IInv => ToldTheTruth
      BY DEF IInv, ToldInv, ToldAt, Announced, Retries, ToldTheTruth
<1>. QED BY InvariantHolds, <1>1, PTL
=============================================================================
