-------------------------------- MODULE Host --------------------------------
(* How a saved setting reaches a running plugin: the settings store and its *)
(* cache (internal/settings/store.go), the detached reconcile of one        *)
(* instance (internal/app/reconcile.go), the plugin manager that swaps what *)
(* is mounted and its cached aggregate server (internal/plugins/manager.go),*)
(* and the tunnel whose server holds the plugin it was built from           *)
(* (internal/tunnel/group.go, Rebuild).                                     *)
(*                                                                          *)
(* One plugin instance. A save and the reconcile it spawns share a thread;  *)
(* a step is one database transaction or one section under a lock.          *)
EXTENDS Naturals, FiniteSets

CONSTANTS Configs,      \* contents of the instance's settings
          Broken,       \* those a plugin cannot start with
          Threads,      \* saves and the reconciles they spawn
          Nil,
          ServesAll,    \* the tunnel serves every plugin, not this one alone
          MaxPlugins, MaxSaves, MaxFaults

ASSUME HostAssumption ==
  /\ Broken \subseteq Configs /\ ServesAll \in BOOLEAN
  /\ IsFiniteSet(Threads)
  /\ MaxPlugins \in Nat \ {0} /\ MaxSaves \in Nat /\ MaxFaults \in Nat

Plugins == 1 .. MaxPlugins
Values == [on : BOOLEAN, cfg : Configs]

VARIABLES
  db,        \* the committed setting
  cache,     \* Store.cache
  mounted,   \* Manager.mounted[instance], 0 when absent
  listed,    \* how often Manager.order names the instance
  plugin,    \* every plugin built: what with, and its phase
  agg,       \* the plugin the cached aggregate server holds, Nil when not cached
  building,  \* the plugin an aggregate build under aggMu has read, or Nil
  bound,     \* whether the tunnel group has a manager for this plugin
  tunnel,    \* the plugin the tunnel's server holds, 0 for none
  problem,   \* App.lastReconcileErr
  thread,    \* each save or reconcile
  overlaps,  \* saves made while another save or reconcile was under way
  alone,     \* the last save was not one of them
  recent,    \* history: what was stored since the host was last quiet
  saves, faults

hostVars == <<mounted, listed, plugin, agg, building, bound, tunnel>>
counts == <<overlaps, alone, recent, saves>>
vars == <<db, cache, hostVars, problem, thread, counts, faults>>
-----------------------------------------------------------------------------
Idle == [pc |-> "idle", v |-> Nil, p |-> 0, old |-> 0, job |-> "none"]
Quiet == \A t \in Threads : thread[t].pc = "idle"

Unbuilt == [cfg |-> Nil, phase |-> "unbuilt"]

\* A host that has registered and started what its settings asked for.
Init ==
  /\ db \in {v \in Values : v.on => v.cfg \notin Broken} /\ cache = db
  /\ mounted = IF db.on THEN 1 ELSE 0
  /\ listed = mounted
  /\ plugin = [p \in Plugins |-> IF p = mounted THEN [cfg |-> db.cfg, phase |-> "serving"]
                                 ELSE Unbuilt]
  /\ agg = Nil /\ building = Nil
  /\ bound = (mounted # 0) /\ tunnel = mounted
  /\ problem = FALSE
  /\ thread = [t \in Threads |-> Idle]
  /\ overlaps = 0 /\ alone = TRUE /\ recent = {db} /\ saves = 0 /\ faults = 0

At(t, pc) == thread[t].pc = pc
Goto(t, pc) == thread' = [thread EXCEPT ![t].pc = pc]

\* The deferred noteReconcile, on every path out.
Return(t, failed) ==
  /\ thread' = [thread EXCEPT ![t] = Idle]
  /\ problem' = failed
-----------------------------------------------------------------------------
(* Store.Apply: commit, then the cache, then the watchers.                  *)

Commit(t, v) ==
  /\ At(t, "idle") /\ saves < MaxSaves /\ v # db
  /\ saves' = saves + 1
  /\ overlaps' = IF Quiet THEN overlaps ELSE overlaps + 1
  /\ alone' = Quiet
  /\ recent' = IF Quiet THEN {v} ELSE recent \cup {v}
  /\ db' = v
  /\ thread' = [thread EXCEPT ![t].pc = "cache", ![t].v = v]
  /\ UNCHANGED <<cache, hostVars, problem, faults>>

\* A write that updates the cache only for a switch, not for the contents.
MutantUpdateCache(t) ==
  /\ At(t, "cache")
  /\ cache' = [cache EXCEPT !.on = thread[t].v.on]
  /\ Goto(t, "read")
  /\ UNCHANGED <<db, hostVars, problem, counts, faults>>

UpdateCache(t) ==
  /\ At(t, "cache")
  /\ cache' = thread[t].v
  /\ Goto(t, "read")
  /\ UNCHANGED <<db, hostVars, problem, counts, faults>>
-----------------------------------------------------------------------------
(* reconcileInstance.                                                       *)

\* Whether the instance is there, on and ready, and whether it is mounted.
Read(t) ==
  /\ At(t, "read")
  /\ \/ cache.on /\ Goto(t, "build") /\ UNCHANGED problem
     \/ ~cache.on /\ mounted # 0 /\ Goto(t, "unmount") /\ UNCHANGED problem
     \/ ~cache.on /\ mounted = 0 /\ Return(t, FALSE)
  /\ UNCHANGED <<db, cache, hostVars, counts, faults>>

Fresh == {p \in Plugins : plugin[p].phase = "unbuilt"}
Newest(p) == p \in Fresh /\ \A q \in Fresh : p <= q

\* buildInstance reads the settings again and constructs the plugin.
Build(t) ==
  /\ At(t, "build")
  /\ \E p \in Plugins :
       /\ Newest(p)
       /\ plugin' = [plugin EXCEPT ![p] = [cfg |-> cache.cfg, phase |-> "built"]]
       /\ thread' = [thread EXCEPT ![t].pc = "remount", ![t].p = p]
  /\ UNCHANGED <<db, cache, mounted, listed, agg, building, bound, tunnel, problem, counts, faults>>

\* Remount reads what is mounted, registers the tools and starts the plugin.
Remount(t) ==
  /\ At(t, "remount")
  /\ thread' = [thread EXCEPT ![t].pc = "start", ![t].old = mounted, ![t].job = "remount"]
  /\ UNCHANGED <<db, cache, hostVars, problem, counts, faults>>

\* The new plugin does not start: whatever is mounted stays.
StartFails(t) ==
  LET broken == plugin[thread[t].p].cfg \in Broken IN
  /\ At(t, "start")
  /\ broken \/ faults < MaxFaults
  /\ faults' = IF broken THEN faults ELSE faults + 1
  /\ plugin' = [plugin EXCEPT ![thread[t].p].phase = "discarded"]
  /\ Return(t, TRUE)
  /\ UNCHANGED <<db, cache, mounted, listed, agg, building, bound, tunnel, counts>>

Swap(t) ==
  /\ At(t, "start") /\ plugin[thread[t].p].cfg \notin Broken
  /\ mounted' = thread[t].p
  /\ listed' = IF thread[t].old = 0 THEN listed + 1 ELSE listed
  /\ plugin' = [plugin EXCEPT ![thread[t].p].phase = "serving"]
  /\ Goto(t, "invalidate")
  /\ UNCHANGED <<db, cache, agg, building, bound, tunnel, problem, counts, faults>>

\* Unmount: an error when it is not mounted any more.
UnmountFails(t) ==
  /\ At(t, "unmount") /\ mounted = 0
  /\ Return(t, TRUE)
  /\ UNCHANGED <<db, cache, hostVars, counts, faults>>

\* The name is left in the order.
MutantUnmount(t) ==
  /\ At(t, "unmount") /\ mounted # 0
  /\ mounted' = 0 /\ listed' = listed
  /\ thread' = [thread EXCEPT ![t].pc = "invalidate", ![t].old = mounted, ![t].job = "unmount"]
  /\ UNCHANGED <<db, cache, plugin, agg, building, bound, tunnel, problem, counts, faults>>

Unmount(t) ==
  /\ At(t, "unmount") /\ mounted # 0
  /\ mounted' = 0
  /\ listed' = IF listed = 0 THEN 0 ELSE listed - 1
  /\ thread' = [thread EXCEPT ![t].pc = "invalidate", ![t].old = mounted, ![t].job = "unmount"]
  /\ UNCHANGED <<db, cache, plugin, agg, building, bound, tunnel, problem, counts, faults>>

\* The cache is cleared without waiting for the build under way.
MutantInvalidate(t) ==
  /\ At(t, "invalidate")
  /\ agg' = Nil
  /\ Goto(t, "shut")
  /\ UNCHANGED <<db, cache, mounted, listed, plugin, building, bound, tunnel, problem, counts, faults>>

\* invalidateAggregates waits for aggMu.
Invalidate(t) ==
  /\ At(t, "invalidate") /\ building = Nil
  /\ agg' = Nil
  /\ Goto(t, "shut")
  /\ UNCHANGED <<db, cache, mounted, listed, plugin, building, bound, tunnel, problem, counts, faults>>

\* What was read before the build is shut down, and an unmount is over.
ShutOld(t) ==
  /\ At(t, "shut")
  /\ plugin' = [p \in Plugins |-> IF p = thread[t].old
                                  THEN [plugin[p] EXCEPT !.phase = "shut"] ELSE plugin[p]]
  /\ \/ thread[t].job = "remount" /\ Goto(t, "tunnel") /\ UNCHANGED problem
     \/ thread[t].job = "unmount" /\ Return(t, FALSE)
  /\ UNCHANGED <<db, cache, mounted, listed, agg, building, bound, tunnel, counts, faults>>

\* The tunnels bound to this plugin, and only those, build their server anew
\* from what is mounted at that moment.
RebuildTunnel(t) ==
  /\ At(t, "tunnel")
  /\ tunnel' = IF bound /\ ~ServesAll THEN mounted ELSE tunnel
  /\ Return(t, FALSE)
  /\ UNCHANGED <<db, cache, mounted, listed, plugin, agg, building, bound, counts, faults>>
-----------------------------------------------------------------------------
(* A request to the aggregate endpoint: a miss builds a server under aggMu. *)

AggregateBuild ==
  /\ agg = Nil /\ building = Nil
  /\ building' = mounted
  /\ UNCHANGED <<db, cache, mounted, listed, plugin, agg, bound, tunnel, problem, thread, counts, faults>>

AggregateStore ==
  /\ building # Nil
  /\ agg' = building /\ building' = Nil
  /\ UNCHANGED <<db, cache, mounted, listed, plugin, bound, tunnel, problem, thread, counts, faults>>

Step(t) ==
  \/ UpdateCache(t) \/ Read(t) \/ Build(t) \/ Remount(t) \/ StartFails(t) \/ Swap(t)
  \/ UnmountFails(t) \/ Unmount(t) \/ Invalidate(t) \/ ShutOld(t) \/ RebuildTunnel(t)

Next ==
  \/ \E t \in Threads : Step(t) \/ \E v \in Values : Commit(t, v)
  \/ AggregateBuild \/ AggregateStore

Spec == Init /\ [][Next]_vars
-----------------------------------------------------------------------------
(* Every variable holds a value of its kind.                                *)
TypeOK ==
  /\ db \in Values /\ cache \in Values
  /\ mounted \in 0 .. MaxPlugins /\ listed \in 0 .. MaxSaves + 1
  /\ \A p \in Plugins : plugin[p].phase \in {"unbuilt", "built", "serving", "discarded", "shut"}
  /\ agg \in 0 .. MaxPlugins \cup {Nil} /\ building \in 0 .. MaxPlugins \cup {Nil}
  /\ tunnel \in 0 .. MaxPlugins
  /\ recent \subseteq Values

(* The aggregate endpoint never goes on serving a plugin that was replaced: *)
(* a cached server that holds another than the one mounted is about to be   *)
(* thrown away, also when it was being built during the swap.               *)
AggregateIsFresh ==
  agg \in {Nil, mounted} \/ \E t \in Threads : At(t, "invalidate")

(* What is mounted is running, however saves, remounts and unmounts of the  *)
(* instance overlap: nobody shuts down a plugin that is being served.       *)
MountedIsAlive == mounted # 0 => plugin[mounted].phase = "serving"

\* A remount that has swapped and will build the tunnels' servers anew.
WillRebuild(t) == \/ At(t, "tunnel")
                  \/ thread[t].pc \in {"invalidate", "shut"} /\ thread[t].job = "remount"

(* While the instance is mounted, a tunnel bound to it serves the plugin    *)
(* that is mounted, or a remount is about to see to it.  Nothing does after *)
(* an unmount: a tunnel bound to an instance that was switched off keeps    *)
(* the plugin that was shut down (reconcileInstance rebuilds no tunnel on   *)
(* that path); nor is a tunnel that serves every plugin ever rebuilt.       *)
TunnelFollows ==
  bound /\ ~ServesAll /\ mounted # 0 => tunnel = mounted \/ \E t \in Threads : WillRebuild(t)

(* What the host answers from is a running plugin: what is mounted, always; *)
(* the cached aggregate server and the tunnel of a mounted plugin, but for  *)
(* the moment in which a swap has yet to throw away or rebuild what they    *)
(* hold.  A tunnel whose instance is not mounted is outside this.           *)
WhatIsServedIsAlive == TypeOK /\ AggregateIsFresh /\ MountedIsAlive /\ TunnelFollows

(* Once the host is quiet it serves nothing older than the saves since it   *)
(* was last quiet, or the Plugins page says why not: an instance that is    *)
(* off was switched off by one of them, one that runs was switched on by    *)
(* one, with the contents one stored.  Which one is not said: of saves that *)
(* overlapped, the older may be the last to write the cache or to mount.    *)
QuietHostServesSomethingRecent ==
  Quiet /\ ~problem =>
    IF mounted = 0 THEN \E v \in recent : ~v.on
    ELSE /\ \E v \in recent : v.on
         /\ \E v \in recent : plugin[mounted].cfg = v.cfg

(* A save that found nothing else under way is what the quiet host serves   *)
(* afterwards, or the Plugins page says why not.                            *)
QuietHostServesWhatIsStored ==
  Quiet /\ alone /\ ~problem =>
    IF db.on THEN mounted # 0 /\ plugin[mounted].cfg = db.cfg ELSE mounted = 0

(* The order names what is mounted once, and nothing else, as long as no    *)
(* two reconciles of the instance overlapped: Start, Shutdown, CheckHealth  *)
(* and All look every name up and use the result.                           *)
OrderNamesWhatIsMounted == overlaps = 0 => listed = IF mounted = 0 THEN 0 ELSE 1

(* A plugin that was replaced is shut down, but for at most one for each    *)
(* save that overlapped another.                                            *)
LeaksAreBounded ==
  Quiet => Cardinality({p \in Plugins : plugin[p].phase = "serving" /\ p # mounted}) <= overlaps

(* Saves take effect: what the quiet host serves was stored by the last     *)
(* stretch of saves, and by the last save if that one ran alone.            *)
SavesTakeEffect == QuietHostServesSomethingRecent /\ QuietHostServesWhatIsStored

(* The host knows what it runs: nothing is listed that is not mounted, and  *)
(* nothing replaced is left running, beyond what overlapping saves explain. *)
NothingIsLeftBehind == OrderNamesWhatIsMounted /\ LeaksAreBounded
=============================================================================
