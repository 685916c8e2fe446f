----------------------------- MODULE HostProofs -----------------------------
(* What holds of the plugin host for any number of saves and reconciles     *)
(* under way at once, and of plugins built.                                 *)
EXTENDS Host, FiniteSetTheorems, TLAPS

Pcs == {"idle", "cache", "read", "build", "remount", "start", "unmount", "invalidate",
        "shut", "tunnel"}
ThreadState == [pc : Pcs, v : Values \cup {Nil}, p : 0 .. MaxPlugins, old : 0 .. MaxPlugins,
                job : {"none", "remount", "unmount"}]
PluginState == [cfg : Configs \cup {Nil},
                phase : {"unbuilt", "built", "serving", "discarded", "shut"}]

TypeInv ==
  /\ db \in Values /\ cache \in Values
  /\ mounted \in 0 .. MaxPlugins /\ listed \in Nat
  /\ plugin \in [Plugins -> PluginState]
  /\ agg \in 0 .. MaxPlugins \cup {Nil} /\ building \in 0 .. MaxPlugins \cup {Nil}
  /\ tunnel \in 0 .. MaxPlugins
  /\ thread \in [Threads -> ThreadState]
  /\ \A t \in Threads : At(t, "cache") => thread[t].v \in Values
  /\ overlaps \in Nat /\ saves \in 0 .. MaxSaves /\ recent \subseteq Values

HasBuilt(t) == thread[t].pc \in {"remount", "start"}
Replaces(t) == thread[t].pc \in {"start", "invalidate", "shut"}
Replaced(t) == thread[t].pc \in {"invalidate", "shut"}

(* A plugin that is being mounted is one thread's own and was never         *)
(* mounted; one that is being replaced was, and is not mounted any more     *)
(* once the swap is done.                                                   *)
PluginInv ==
  /\ MountedIsAlive
  /\ \A t \in Threads :
       /\ HasBuilt(t) => thread[t].p \in Plugins /\ plugin[thread[t].p].phase = "built"
       /\ Replaces(t) /\ thread[t].old # 0 => plugin[thread[t].old].phase \in {"serving", "shut"}
       /\ Replaced(t) => thread[t].old = 0 \/ thread[t].old # mounted
  /\ \A t, u \in Threads :
       HasBuilt(t) /\ HasBuilt(u) /\ thread[t].p = thread[u].p => t = u

(* A server for every plugin is not newer than what it holds without        *)
(* somebody about to throw it away, nor is one being built.                 *)
AggInv ==
  /\ AggregateIsFresh
  /\ building \in {Nil, mounted} \/ \E t \in Threads : At(t, "invalidate")

\* The saves that may still mount something.
Pending ==
  {t \in Threads : thread[t].pc \in {"cache", "read", "build", "remount", "start", "unmount"}}

ListedInv == listed + Cardinality(Pending) <= saves + 1

(* What is behind the tunnel was mounted, or will be replaced.              *)
TunnelInv ==
  /\ TunnelFollows
  /\ \A t \in Threads : At(t, "start") => thread[t].job = "remount"

IInv == TypeInv /\ PluginInv /\ AggInv /\ ListedInv /\ TunnelInv

-----------------------------------------------------------------------------
(* Counting.                                                                *)

LEMMA Counting ==
  ASSUME NEW S, IsFiniteSet(S), NEW x, NEW T, T \subseteq S \cup {x}
  PROVE  /\ IsFiniteSet(T) /\ Cardinality(S) \in Nat /\ Cardinality(T) \in Nat
         /\ Cardinality(T) <= Cardinality(S) + 1
         /\ T \subseteq S => Cardinality(T) <= Cardinality(S)
         /\ T \subseteq S \ {x} /\ x \in S => Cardinality(T) + 1 <= Cardinality(S)
<1>1. /\ IsFiniteSet(S \cup {x})
      /\ Cardinality(S \cup {x}) = IF x \in S THEN Cardinality(S) ELSE Cardinality(S) + 1
      BY FS_AddElement
<1>2. IsFiniteSet(T) /\ Cardinality(T) <= Cardinality(S \cup {x}) BY <1>1, FS_Subset
<1>3. Cardinality(S) \in Nat /\ Cardinality(T) \in Nat BY <1>2, FS_CardinalityType
<1>4. T \subseteq S => Cardinality(T) <= Cardinality(S) BY FS_Subset
<1>5. ASSUME T \subseteq S \ {x}, x \in S PROVE Cardinality(T) + 1 <= Cardinality(S)
  <2>1. IsFiniteSet(S \ {x}) /\ Cardinality(S \ {x}) = Cardinality(S) - 1
        BY <1>5, FS_RemoveElement
  <2>2. Cardinality(T) <= Cardinality(S \ {x}) BY <1>5, <2>1, FS_Subset
  <2>. QED BY <1>3, <2>1, <2>2
<1>. QED BY <1>1, <1>2, <1>3, <1>4, <1>5

-----------------------------------------------------------------------------
(* Types.                                                                   *)

LEMMA InitType == Init => TypeInv
<1> SUFFICES ASSUME Init PROVE TypeInv OBVIOUS
<1>1. db \in Values /\ db.cfg \in Configs BY DEF Init, Values
<1>2. mounted \in {0, 1} /\ 1 \in Plugins BY HostAssumption DEF Init, Plugins
<1>3. plugin \in [Plugins -> PluginState]
      BY <1>1 DEF Init, PluginState, Unbuilt
<1>4. thread \in [Threads -> ThreadState] /\ \A t \in Threads : thread[t].pc = "idle"
      BY HostAssumption DEF Init, ThreadState, Idle, Pcs
<1>. QED BY <1>1, <1>2, <1>3, <1>4, HostAssumption DEF Init, TypeInv, At

LEMMA StepType == TypeInv /\ [Next]_vars => TypeInv'
<1> SUFFICES ASSUME TypeInv, [Next]_vars PROVE TypeInv' OBVIOUS
<1> USE DEF TypeInv, hostVars, counts
<1>0. Idle \in ThreadState /\ Idle.pc = "idle" BY HostAssumption DEF Idle, ThreadState, Pcs
<1>1. ASSUME NEW t \in Threads, NEW v \in Values, Commit(t, v) PROVE TypeInv'
  <2> DEFINE s == [thread[t] EXCEPT !.pc = "cache", !.v = v]
  <2>0. s \in ThreadState BY DEF ThreadState, Pcs
  <2>1. thread' \in [Threads -> ThreadState] BY <1>1, <2>0 DEF Commit
  <2>2. \A u \in Threads : At(u, "cache")' => thread'[u].v \in Values
        BY <1>1 DEF Commit, At, ThreadState
  <2>. QED BY <1>1, <2>1, <2>2, HostAssumption DEF Commit
<1>2. ASSUME NEW t \in Threads, UpdateCache(t) PROVE TypeInv'
  <2>1. thread' \in [Threads -> ThreadState] BY <1>2 DEF UpdateCache, Goto, ThreadState, Pcs
  <2>2. \A u \in Threads : At(u, "cache")' => thread'[u].v \in Values
        BY <1>2 DEF UpdateCache, Goto, At, ThreadState
  <2>. QED BY <1>2, <2>1, <2>2 DEF UpdateCache
<1>3. ASSUME NEW t \in Threads,
             thread' = [thread EXCEPT ![t] = Idle]
               \/ \E pc \in Pcs \ {"cache"} : thread' = [thread EXCEPT ![t].pc = pc]
      PROVE  /\ thread' \in [Threads -> ThreadState]
             /\ \A u \in Threads : At(u, "cache")' => thread'[u].v \in Values
  <2>1. thread' \in [Threads -> ThreadState] BY <1>0, <1>3 DEF ThreadState
  <2>2. \A u \in Threads : At(u, "cache")' => thread'[u].v \in Values
        BY <1>0, <1>3 DEF At, ThreadState
  <2>. QED BY <2>1, <2>2
<1>4. ASSUME NEW t \in Threads, Read(t) PROVE TypeInv'
      BY <1>3, <1>4 DEF Read, Goto, Return, Pcs
<1>5. ASSUME NEW t \in Threads, Build(t) PROVE TypeInv'
  <2>1. PICK p \in Plugins :
          /\ plugin' = [plugin EXCEPT ![p] = [cfg |-> cache.cfg, phase |-> "built"]]
          /\ thread' = [thread EXCEPT ![t].pc = "remount", ![t].p = p]
        BY <1>5 DEF Build
  <2>2. plugin' \in [Plugins -> PluginState] BY <2>1 DEF PluginState, Values
  <2> DEFINE s == [thread[t] EXCEPT !.pc = "remount", !.p = p]
  <2> p \in 0 .. MaxPlugins BY HostAssumption DEF Plugins
  <2>0. s \in ThreadState BY DEF ThreadState, Pcs
  <2>3. thread' \in [Threads -> ThreadState] BY <2>0, <2>1
  <2>4. \A u \in Threads : At(u, "cache")' => thread'[u].v \in Values
        BY <2>1 DEF At, ThreadState
  <2>. QED BY <1>5, <2>2, <2>3, <2>4 DEF Build
<1>6. ASSUME NEW t \in Threads, Remount(t) PROVE TypeInv'
  <2> DEFINE s == [thread[t] EXCEPT !.pc = "start", !.old = mounted, !.job = "remount"]
  <2>0. s \in ThreadState BY DEF ThreadState, Pcs
  <2>1. thread' \in [Threads -> ThreadState] BY <1>6, <2>0 DEF Remount
  <2>2. \A u \in Threads : At(u, "cache")' => thread'[u].v \in Values
        BY <1>6 DEF Remount, At, ThreadState
  <2>. QED BY <1>6, <2>1, <2>2 DEF Remount
<1>7. ASSUME NEW t \in Threads, StartFails(t) PROVE TypeInv'
  <2>1. plugin' \in [Plugins -> PluginState] BY <1>7 DEF StartFails, PluginState
  <2>. QED BY <1>3, <1>7, <2>1 DEF StartFails, Return
<1>8. ASSUME NEW t \in Threads, Swap(t) PROVE TypeInv'
  <2>1. plugin' \in [Plugins -> PluginState] BY <1>8 DEF Swap, PluginState
  <2>2. mounted' \in 0 .. MaxPlugins BY <1>8 DEF Swap, ThreadState
  <2>3. listed' \in Nat BY <1>8 DEF Swap
  <2>4. /\ thread' \in [Threads -> ThreadState]
        /\ \A u \in Threads : At(u, "cache")' => thread'[u].v \in Values
        BY <1>3, <1>8 DEF Swap, Goto, Pcs
  <2>. QED BY <1>8, <2>1, <2>2, <2>3, <2>4 DEF Swap
<1>9. ASSUME NEW t \in Threads, UnmountFails(t) PROVE TypeInv'
      BY <1>3, <1>9 DEF UnmountFails, Return
<1>10. ASSUME NEW t \in Threads, Unmount(t) PROVE TypeInv'
  <2> DEFINE s == [thread[t] EXCEPT !.pc = "invalidate", !.old = mounted, !.job = "unmount"]
  <2>0. s \in ThreadState BY DEF ThreadState, Pcs
  <2>1. thread' \in [Threads -> ThreadState] BY <1>10, <2>0 DEF Unmount
  <2>2. \A u \in Threads : At(u, "cache")' => thread'[u].v \in Values
        BY <1>10 DEF Unmount, At, ThreadState
  <2>3. listed' \in Nat /\ mounted' \in 0 .. MaxPlugins BY <1>10, HostAssumption DEF Unmount
  <2>. QED BY <1>10, <2>1, <2>2, <2>3 DEF Unmount
<1>11. ASSUME NEW t \in Threads, Invalidate(t) PROVE TypeInv'
      BY <1>3, <1>11 DEF Invalidate, Goto, Pcs
<1>12. ASSUME NEW t \in Threads, ShutOld(t) PROVE TypeInv'
  <2>1. plugin' \in [Plugins -> PluginState] BY <1>12 DEF ShutOld, PluginState
  <2>. QED BY <1>3, <1>12, <2>1 DEF ShutOld, Goto, Return, Pcs
<1>13. ASSUME NEW t \in Threads, RebuildTunnel(t) PROVE TypeInv'
      BY <1>3, <1>13 DEF RebuildTunnel, Return
<1>14. CASE AggregateBuild \/ AggregateStore \/ UNCHANGED vars
      BY <1>14 DEF AggregateBuild, AggregateStore, vars, At
<1>. QED BY <1>1, <1>2, <1>4, <1>5, <1>6, <1>7, <1>8, <1>9, <1>10, <1>11, <1>12, <1>13,
            <1>14 DEF Next, Step

-----------------------------------------------------------------------------
(* The plugins.                                                             *)

\* Only t moves, and only the plugins change that it builds, discards or mounts.
Moves(t) == \A u \in Threads \ {t} : thread'[u] = thread[u]

LEMMA OneThreadMoves ==
  ASSUME TypeInv, NEW t \in Threads, Step(t) \/ \E v \in Values : Commit(t, v)
  PROVE  Moves(t)
BY DEF Moves, TypeInv, Step, Commit, UpdateCache, Read, Build, Remount, StartFails, Swap,
       UnmountFails, Unmount, Invalidate, ShutOld, RebuildTunnel, Goto, Return

LEMMA InitPlugin == Init => PluginInv
<1> SUFFICES ASSUME Init PROVE PluginInv OBVIOUS
<1>1. mounted \in {0, 1} /\ 1 \in Plugins BY HostAssumption DEF Init, Plugins
<1>2. \A t \in Threads : thread[t].pc = "idle" BY DEF Init, Idle
<1>3. MountedIsAlive BY <1>1 DEF Init, MountedIsAlive
<1>. QED BY <1>2, <1>3 DEF PluginInv, HasBuilt, Replaces, Replaced

(* A step that leaves the plugins alone and mounts nothing.                 *)
LEMMA NothingMounted ==
  ASSUME TypeInv, PluginInv, NEW t \in Threads, Moves(t), UNCHANGED <<mounted, plugin>>,
         thread'[t].pc \in {"idle", "cache", "read", "build", "unmount", "tunnel"}
           \/ (thread'[t].pc \in {"shut"} /\ Replaced(t) /\ thread'[t].old = thread[t].old)
  PROVE  PluginInv'
BY DEF PluginInv, MountedIsAlive, Moves, HasBuilt, Replaces, Replaced

LEMMA StepPlugin == TypeInv /\ PluginInv /\ [Next]_vars => PluginInv'
<1> SUFFICES ASSUME TypeInv, PluginInv, [Next]_vars PROVE PluginInv' OBVIOUS
<1>0. DOMAIN thread = Threads /\ DOMAIN plugin = Plugins /\ 0 \notin Plugins
      BY HostAssumption DEF TypeInv, Plugins
<1>1. ASSUME NEW t \in Threads, NEW v \in Values, Commit(t, v) PROVE PluginInv'
      BY <1>0, <1>1, OneThreadMoves, NothingMounted DEF Commit, TypeInv, ThreadState, hostVars
<1>2. ASSUME NEW t \in Threads, UpdateCache(t) \/ Read(t) \/ UnmountFails(t)
      PROVE  PluginInv'
  <2>1. UNCHANGED <<mounted, plugin>>
        BY <1>2 DEF UpdateCache, Read, UnmountFails, hostVars
  <2>2. thread'[t].pc \in {"idle", "read", "build", "unmount"}
        BY <1>2 DEF UpdateCache, Read, UnmountFails, Goto, Return, Idle, TypeInv, ThreadState
  <2>. QED BY <1>2, <2>1, <2>2, OneThreadMoves, NothingMounted DEF Step
<1>3. ASSUME NEW t \in Threads, Build(t) PROVE PluginInv'
  <2>1. PICK p \in Plugins :
          /\ Newest(p)
          /\ plugin' = [plugin EXCEPT ![p] = [cfg |-> cache.cfg, phase |-> "built"]]
          /\ thread' = [thread EXCEPT ![t].pc = "remount", ![t].p = p]
        BY <1>3 DEF Build
  <2>2. plugin[p].phase = "unbuilt" BY <2>1 DEF Newest, Fresh
  <2>3. plugin'[p].phase = "built" /\ \A q \in Plugins \ {p} : plugin'[q] = plugin[q]
        BY <2>1 DEF TypeInv
  <2>4. /\ thread'[t].pc = "remount" /\ thread'[t].p = p
        BY <2>1 DEF TypeInv, ThreadState
  <2>5. Moves(t) /\ mounted' = mounted BY <1>3, OneThreadMoves DEF Build, Step
  <2>6. MountedIsAlive' BY <2>2, <2>3, <2>5 DEF PluginInv, MountedIsAlive, TypeInv, Plugins
  <2>7. \A u \in Threads :
          /\ HasBuilt(u)' => thread'[u].p \in Plugins /\ plugin'[thread'[u].p].phase = "built"
          /\ Replaces(u)' /\ thread'[u].old # 0
               => plugin'[thread'[u].old].phase \in {"serving", "shut"}
          /\ Replaced(u)' => thread'[u].old = 0 \/ thread'[u].old # mounted'
    <3>1. \A u \in Threads : thread[u].old \in 0 .. MaxPlugins BY DEF TypeInv, ThreadState
    <3>. QED BY <2>2, <2>3, <2>4, <2>5, <3>1
             DEF PluginInv, Moves, HasBuilt, Replaces, Replaced, Plugins
  <2>8. \A u, w \in Threads :
          HasBuilt(u)' /\ HasBuilt(w)' /\ thread'[u].p = thread'[w].p => u = w
        BY <2>2, <2>4, <2>5 DEF PluginInv, Moves, HasBuilt
  <2>. QED BY <2>6, <2>7, <2>8 DEF PluginInv
<1>4. ASSUME NEW t \in Threads, Remount(t) PROVE PluginInv'
  <2>1. /\ thread'[t].pc = "start" /\ thread'[t].p = thread[t].p
        /\ thread'[t].old = mounted /\ thread[t].pc = "remount"
        BY <1>4 DEF Remount, At, TypeInv, ThreadState
  <2>2. Moves(t) /\ UNCHANGED <<mounted, plugin>>
        BY <1>4, OneThreadMoves DEF Remount, Step, hostVars
  <2>. QED BY <2>1, <2>2
           DEF PluginInv, MountedIsAlive, Moves, HasBuilt, Replaces, Replaced
<1>5. ASSUME NEW t \in Threads, StartFails(t) PROVE PluginInv'
  <2>1. HasBuilt(t) /\ thread'[t].pc = "idle"
        BY <1>5 DEF StartFails, Return, Idle, At, HasBuilt, TypeInv
  <2>2. Moves(t) /\ mounted' = mounted BY <1>5, OneThreadMoves DEF StartFails, Step
  <2>3. \A q \in Plugins \ {thread[t].p} : plugin'[q] = plugin[q]
        BY <1>5 DEF StartFails, TypeInv
  <2>4. plugin[thread[t].p].phase = "built" BY <2>1 DEF PluginInv
  <2>5. \A u \in Threads : thread[u].old \in 0 .. MaxPlugins /\ mounted \in 0 .. MaxPlugins
        BY DEF TypeInv, ThreadState
  <2>. QED BY <2>1, <2>2, <2>3, <2>4, <2>5
           DEF PluginInv, MountedIsAlive, Moves, HasBuilt, Replaces, Replaced, Plugins
<1>6. ASSUME NEW t \in Threads, Swap(t) PROVE PluginInv'
  <2>1. /\ HasBuilt(t) /\ Replaces(t) /\ thread'[t].pc = "invalidate"
        /\ thread'[t].old = thread[t].old
        BY <1>6 DEF Swap, Goto, At, HasBuilt, Replaces, TypeInv, ThreadState
  <2>2. Moves(t) /\ mounted' = thread[t].p BY <1>6, OneThreadMoves DEF Swap, Step
  <2>3. /\ thread[t].p \in Plugins /\ plugin[thread[t].p].phase = "built"
        /\ plugin'[thread[t].p].phase = "serving"
        /\ \A q \in Plugins \ {thread[t].p} : plugin'[q] = plugin[q]
        BY <1>6, <2>1 DEF Swap, TypeInv, PluginState, PluginInv
  <2>4. \A u \in Threads : thread[u].old \in 0 .. MaxPlugins
        BY DEF TypeInv, ThreadState
  <2>5. MountedIsAlive' BY <2>2, <2>3 DEF MountedIsAlive
  <2>6. \A u \in Threads : Replaces(u) => thread[u].old # thread[t].p
        BY <1>0, <2>3 DEF PluginInv
  <2>. QED BY <2>1, <2>2, <2>3, <2>4, <2>5, <2>6
           DEF PluginInv, Moves, HasBuilt, Replaces, Replaced, Plugins
<1>7. ASSUME NEW t \in Threads, Unmount(t) PROVE PluginInv'
  <2>1. /\ thread'[t].pc = "invalidate" /\ thread'[t].old = mounted /\ mounted # 0
        BY <1>7 DEF Unmount, TypeInv, ThreadState
  <2>2. Moves(t) /\ mounted' = 0 /\ plugin' = plugin BY <1>7, OneThreadMoves DEF Unmount, Step
  <2>. QED BY <2>1, <2>2 DEF PluginInv, MountedIsAlive, Moves, HasBuilt, Replaces, Replaced
<1>8. ASSUME NEW t \in Threads, Invalidate(t) PROVE PluginInv'
  <2>1. /\ thread'[t].pc = "shut" /\ thread'[t].old = thread[t].old /\ Replaced(t)
        BY <1>8 DEF Invalidate, Goto, At, Replaced, TypeInv, ThreadState
  <2>. QED BY <1>8, <2>1, OneThreadMoves, NothingMounted DEF Invalidate, Step
<1>9. ASSUME NEW t \in Threads, ShutOld(t) PROVE PluginInv'
  <2>1. Replaced(t) /\ Replaces(t) /\ thread'[t].pc \in {"idle", "tunnel"}
        BY <1>9 DEF ShutOld, Goto, Return, Idle, At, Replaced, Replaces, TypeInv, ThreadState
  <2>2. Moves(t) /\ mounted' = mounted BY <1>9, OneThreadMoves DEF ShutOld, Step
  <2>3. \A q \in Plugins :
          plugin'[q].phase = IF q = thread[t].old THEN "shut" ELSE plugin[q].phase
        BY <1>9 DEF ShutOld, TypeInv, PluginState
  <2>4. \A u \in Threads : thread[u].old \in 0 .. MaxPlugins /\ mounted \in 0 .. MaxPlugins
        BY DEF TypeInv, ThreadState
  <2>5. thread[t].old = 0 \/ plugin[thread[t].old].phase \in {"serving", "shut"}
        BY <2>1 DEF PluginInv
  <2>6. thread[t].old = 0 \/ thread[t].old # mounted BY <2>1 DEF PluginInv
  <2>. QED BY <1>0, <2>1, <2>2, <2>3, <2>4, <2>5, <2>6
           DEF PluginInv, MountedIsAlive, Moves, HasBuilt, Replaces, Replaced, Plugins
<1>10. ASSUME NEW t \in Threads, RebuildTunnel(t) PROVE PluginInv'
  <2>1. thread'[t].pc = "idle" BY <1>10 DEF RebuildTunnel, Return, Idle, TypeInv
  <2>. QED BY <1>10, <2>1, OneThreadMoves, NothingMounted DEF RebuildTunnel, Step
<1>11. CASE AggregateBuild \/ AggregateStore \/ UNCHANGED vars
       BY <1>11 DEF AggregateBuild, AggregateStore, vars, hostVars, PluginInv,
                    MountedIsAlive, HasBuilt, Replaces, Replaced
<1>. QED BY <1>1, <1>2, <1>3, <1>4, <1>5, <1>6, <1>7, <1>8, <1>9, <1>10, <1>11
         DEF Next, Step

-----------------------------------------------------------------------------
(* The aggregate server.                                                    *)

LEMMA StepAgg == TypeInv /\ AggInv /\ [Next]_vars => AggInv'
<1> SUFFICES ASSUME TypeInv, AggInv, [Next]_vars PROVE AggInv' OBVIOUS
<1> USE DEF AggInv, AggregateIsFresh
<1>1. ASSUME NEW t \in Threads, ~At(t, "invalidate"), Moves(t), UNCHANGED <<agg, building>>,
             UNCHANGED mounted \/ At(t, "invalidate")'
      PROVE  AggInv'
      BY <1>1 DEF Moves, At
<1>2. ASSUME NEW t \in Threads, NEW v \in Values, Commit(t, v) PROVE AggInv'
      BY <1>1, <1>2, OneThreadMoves DEF Commit, hostVars, At
<1>3. ASSUME NEW t \in Threads,
             UpdateCache(t) \/ Read(t) \/ Build(t) \/ Remount(t) \/ StartFails(t)
               \/ UnmountFails(t) \/ ShutOld(t) \/ RebuildTunnel(t)
      PROVE  AggInv'
  <2>1. ~At(t, "invalidate") /\ UNCHANGED <<agg, building, mounted>>
        BY <1>3 DEF UpdateCache, Read, Build, Remount, StartFails, UnmountFails, ShutOld,
                    RebuildTunnel, hostVars, At
  <2>. QED BY <1>1, <1>3, <2>1, OneThreadMoves DEF Step
<1>4. ASSUME NEW t \in Threads, Swap(t) \/ Unmount(t) PROVE AggInv'
  <2>1. ~At(t, "invalidate") /\ UNCHANGED <<agg, building>> /\ At(t, "invalidate")'
        BY <1>4 DEF Swap, Unmount, Goto, At, TypeInv, ThreadState
  <2>. QED BY <1>1, <1>4, <2>1, OneThreadMoves DEF Step
<1>5. ASSUME NEW t \in Threads, Invalidate(t) PROVE AggInv'
      BY <1>5 DEF Invalidate
<1>6. CASE AggregateBuild \/ AggregateStore \/ UNCHANGED vars
      BY <1>6 DEF AggregateBuild, AggregateStore, vars, hostVars, At
<1>. QED BY <1>2, <1>3, <1>4, <1>5, <1>6 DEF Next, Step

-----------------------------------------------------------------------------
(* The tunnel.                                                              *)

LEMMA StepTunnel == TypeInv /\ TunnelInv /\ [Next]_vars => TunnelInv'
<1> SUFFICES ASSUME TypeInv, TunnelInv, [Next]_vars PROVE TunnelInv' OBVIOUS
<1>0. DOMAIN thread = Threads /\ \A t \in Threads : thread[t] \in ThreadState
      BY DEF TypeInv
\* A step of t that changes neither what is mounted nor the tunnel.
<1>A. ASSUME NEW t \in Threads, Moves(t), UNCHANGED <<bound, tunnel, mounted>>,
             WillRebuild(t) => WillRebuild(t)',
             thread'[t].pc = "start" => thread'[t].job = "remount"
      PROVE  TunnelInv'
      BY <1>A DEF TunnelInv, TunnelFollows, Moves, WillRebuild, At
<1>1. ASSUME NEW t \in Threads, NEW v \in Values, Commit(t, v) PROVE TunnelInv'
  <2>1. Moves(t) /\ UNCHANGED <<bound, tunnel, mounted>> /\ ~WillRebuild(t)
        BY <1>1, OneThreadMoves DEF Commit, hostVars, WillRebuild, At
  <2>2. thread'[t].pc = "cache" BY <1>0, <1>1 DEF Commit, ThreadState
  <2>. QED BY <1>A, <2>1, <2>2
<1>2. ASSUME NEW t \in Threads,
             UpdateCache(t) \/ Read(t) \/ Build(t) \/ StartFails(t) \/ UnmountFails(t)
      PROVE  TunnelInv'
  <2>1. UNCHANGED <<bound, tunnel, mounted>> /\ ~WillRebuild(t)
        BY <1>2 DEF UpdateCache, Read, Build, StartFails, UnmountFails, hostVars, WillRebuild, At
  <2>2. thread'[t].pc # "start"
        BY <1>0, <1>2 DEF UpdateCache, Read, Build, StartFails, UnmountFails, Goto, Return, Idle,
                          ThreadState
  <2>. QED BY <1>2, <1>A, <2>1, <2>2, OneThreadMoves DEF Step
<1>3. ASSUME NEW t \in Threads, Remount(t) PROVE TunnelInv'
  <2>1. UNCHANGED <<bound, tunnel, mounted>> /\ ~WillRebuild(t)
        BY <1>3 DEF Remount, hostVars, WillRebuild, At
  <2>2. thread'[t].job = "remount" BY <1>0, <1>3 DEF Remount, ThreadState
  <2>. QED BY <1>3, <1>A, <2>1, <2>2, OneThreadMoves DEF Step
<1>4. ASSUME NEW t \in Threads, Swap(t) PROVE TunnelInv'
  <2>1. thread'[t].pc = "invalidate" /\ thread'[t].job = "remount"
        BY <1>0, <1>4 DEF Swap, Goto, At, TunnelInv, ThreadState
  <2>2. WillRebuild(t)' BY <2>1 DEF WillRebuild
  <2>3. Moves(t) BY <1>4, OneThreadMoves DEF Step
  <2>. QED BY <2>1, <2>2, <2>3 DEF TunnelInv, TunnelFollows, Moves, At
<1>5. ASSUME NEW t \in Threads, Unmount(t) PROVE TunnelInv'
  <2>1. mounted' = 0 /\ thread'[t].pc = "invalidate" BY <1>0, <1>5 DEF Unmount, ThreadState
  <2>2. Moves(t) BY <1>5, OneThreadMoves DEF Step
  <2>. QED BY <2>1, <2>2 DEF TunnelInv, TunnelFollows, Moves, At
<1>6. ASSUME NEW t \in Threads, Invalidate(t) \/ ShutOld(t) PROVE TunnelInv'
  <2>1. UNCHANGED <<bound, tunnel, mounted>> BY <1>6 DEF Invalidate, ShutOld
  <2>2. WillRebuild(t) => WillRebuild(t)'
        BY <1>0, <1>6 DEF Invalidate, ShutOld, WillRebuild, At, Goto, ThreadState
  <2>3. thread'[t].pc # "start"
        BY <1>0, <1>6 DEF Invalidate, ShutOld, Goto, Return, Idle, ThreadState
  <2>. QED BY <1>6, <1>A, <2>1, <2>2, <2>3, OneThreadMoves DEF Step
<1>7. ASSUME NEW t \in Threads, RebuildTunnel(t) PROVE TunnelInv'
  <2>1. bound' /\ ~ServesAll => tunnel' = mounted' BY <1>7 DEF RebuildTunnel
  <2>2. thread'[t].pc = "idle" BY <1>0, <1>7 DEF RebuildTunnel, Return, Idle
  <2>3. Moves(t) BY <1>7, OneThreadMoves DEF Step
  <2>. QED BY <2>1, <2>2, <2>3 DEF TunnelInv, TunnelFollows, Moves, At
<1>8. CASE AggregateBuild \/ AggregateStore \/ UNCHANGED vars
      BY <1>8 DEF AggregateBuild, AggregateStore, vars, hostVars, TunnelInv, TunnelFollows,
                  WillRebuild, At
<1>. QED BY <1>1, <1>2, <1>3, <1>4, <1>5, <1>6, <1>7, <1>8 DEF Next, Step

-----------------------------------------------------------------------------
(* How often the order names the instance.                                  *)

Mounting == {"cache", "read", "build", "remount", "start", "unmount"}

LEMMA PendingChanges ==
  ASSUME TypeInv, NEW t \in Threads, Moves(t), thread'[t].pc \in Pcs
  PROVE  /\ Pending' \subseteq Pending \cup {t}
         /\ t \in Pending \/ thread'[t].pc \notin Mounting => Pending' \subseteq Pending
         /\ thread'[t].pc \notin Mounting => Pending' \subseteq Pending \ {t}
BY DEF Pending, Moves, Mounting

LEMMA PendingIsFinite == IsFiniteSet(Pending)
BY HostAssumption, FS_Subset DEF Pending

LEMMA StepListed == TypeInv /\ ListedInv /\ [Next]_vars => ListedInv'
<1> SUFFICES ASSUME TypeInv, ListedInv, [Next]_vars PROVE ListedInv' OBVIOUS
<1> USE PendingIsFinite
<1>0. /\ listed \in Nat /\ saves \in Nat /\ Cardinality(Pending) \in Nat
      /\ \A t \in Threads : thread[t].pc \in Pcs
      /\ TypeInv'
      BY FS_CardinalityType, HostAssumption, StepType DEF TypeInv, ThreadState
<1>00. listed' \in Nat /\ \A t \in Threads : thread'[t].pc \in Pcs
      BY <1>0 DEF TypeInv, ThreadState
<1>1. ASSUME NEW t \in Threads, Moves(t), UNCHANGED saves,
             t \in Pending \/ thread'[t].pc \notin Mounting, listed' <= listed
      PROVE  ListedInv'
  <2>1. Pending' \subseteq Pending BY <1>00, <1>1, PendingChanges
  <2>2. Cardinality(Pending') \in Nat /\ Cardinality(Pending') <= Cardinality(Pending)
        BY <2>1, Counting
  <2>. QED BY <1>0, <1>00, <1>1, <2>2 DEF ListedInv
<1>2. ASSUME NEW t \in Threads, NEW v \in Values, Commit(t, v) PROVE ListedInv'
  <2>1. Pending' \subseteq Pending \cup {t}
        BY <1>00, <1>2, OneThreadMoves, PendingChanges
  <2>2. Cardinality(Pending') \in Nat /\ Cardinality(Pending') <= Cardinality(Pending) + 1
        BY <2>1, Counting
  <2>. QED BY <1>0, <1>2, <2>2 DEF ListedInv, Commit, hostVars
<1>3. ASSUME NEW t \in Threads,
             UpdateCache(t) \/ Read(t) \/ Build(t) \/ Remount(t) \/ StartFails(t)
               \/ UnmountFails(t)
      PROVE  ListedInv'
  <2>1. t \in Pending /\ UNCHANGED <<saves, listed>>
        BY <1>3 DEF UpdateCache, Read, Build, Remount, StartFails, UnmountFails,
                    hostVars, counts, At, Pending
  <2>. QED BY <1>0, <1>1, <1>3, <2>1, OneThreadMoves DEF Step
<1>4. ASSUME NEW t \in Threads, Swap(t) PROVE ListedInv'
  <2>1. t \in Pending /\ thread'[t].pc = "invalidate" /\ saves' = saves
        BY <1>4 DEF Swap, Goto, At, Pending, counts, TypeInv, ThreadState
  <2>2. Pending' \subseteq Pending \ {t}
        BY <1>00, <1>4, <2>1, OneThreadMoves, PendingChanges DEF Mounting, Step
  <2>3. Cardinality(Pending') \in Nat /\ Cardinality(Pending') + 1 <= Cardinality(Pending)
        BY <2>1, <2>2, Counting
  <2>4. listed' <= listed + 1 BY <1>0, <1>4 DEF Swap
  <2>. QED BY <1>0, <1>00, <2>1, <2>3, <2>4 DEF ListedInv
<1>5. ASSUME NEW t \in Threads, Unmount(t) \/ Invalidate(t) \/ ShutOld(t) \/ RebuildTunnel(t)
      PROVE  ListedInv'
  <2>0. listed \in Nat /\ listed' \in {listed, 0, listed - 1} /\ (listed = 0 => listed' = 0)
        BY <1>0, <1>5 DEF Unmount, Invalidate, ShutOld, RebuildTunnel
  <2>3. listed' <= listed BY <2>0
  <2>1. listed' <= listed /\ saves' = saves
        BY <2>3, <1>5 DEF Unmount, Invalidate, ShutOld, RebuildTunnel, counts
  <2>2. thread'[t].pc \notin Mounting
        BY <1>5 DEF Unmount, Invalidate, ShutOld, RebuildTunnel, Goto, Return, Idle,
                    Mounting, TypeInv, ThreadState
  <2>. QED BY <1>1, <1>5, <2>1, <2>2, OneThreadMoves DEF Step
<1>6. CASE AggregateBuild \/ AggregateStore \/ UNCHANGED vars
      BY <1>6 DEF AggregateBuild, AggregateStore, vars, hostVars, counts, ListedInv, Pending
<1>. QED BY <1>2, <1>3, <1>4, <1>5, <1>6 DEF Next, Step

LEMMA InitInv == Init => IInv
<1> SUFFICES ASSUME Init PROVE IInv OBVIOUS
<1>1. Pending = {} BY DEF Init, Pending, Idle
<1>2. ListedInv BY <1>1, FS_EmptySet DEF Init, ListedInv
<1>3. AggInv BY DEF Init, AggInv, AggregateIsFresh
<1>4. TunnelInv BY DEF Init, TunnelInv, TunnelFollows, At, Idle
<1>. QED BY <1>2, <1>3, <1>4, InitType, InitPlugin DEF IInv

LEMMA InvariantHolds == Spec => []IInv
<1>1. IInv /\ [Next]_vars => IInv' BY StepType, StepPlugin, StepAgg, StepListed, StepTunnel DEF IInv
<1>. QED BY InitInv, <1>1, PTL DEF Spec

(* What is mounted is running, and so is what the aggregate server and the  *)
(* tunnel of a mounted plugin hold unless a swap is about to replace it,    *)
(* however saves, remounts, unmounts and requests overlap (Manager.Remount, *)
(* Unmount, invalidateAggregates, rebuildTunnelFor).                        *)
THEOREM NothingDeadIsServed == Spec => []WhatIsServedIsAlive
<1>1. IInv => WhatIsServedIsAlive
  <2> SUFFICES ASSUME IInv PROVE WhatIsServedIsAlive OBVIOUS
  <2>1. listed \in 0 .. MaxSaves + 1
    <3>1. Cardinality(Pending) \in Nat BY PendingIsFinite, FS_CardinalityType
    <3>. QED BY <3>1, HostAssumption DEF IInv, TypeInv, ListedInv
  <2>2. TypeOK BY <2>1 DEF IInv, TypeInv, TypeOK, PluginState
  <2>. QED BY <2>2 DEF IInv, WhatIsServedIsAlive, AggInv, PluginInv, TunnelInv
<1>. QED BY InvariantHolds, <1>1, PTL

-----------------------------------------------------------------------------
(* One save at a time.                                                      *)

Busy(t) == thread[t].pc # "idle"

(* If the last save found nobody at work, whoever works is its thread; no   *)
(* overlap at all means so of every save.                                   *)
AloneInv ==
  /\ overlaps = 0 => alone
  /\ alone => \A t, u \in Threads : Busy(t) /\ Busy(u) => t = u

LEMMA StepAlone == TypeInv /\ AloneInv /\ [Next]_vars => AloneInv'
<1> SUFFICES ASSUME TypeInv, AloneInv, [Next]_vars PROVE AloneInv' OBVIOUS
<1>1. ASSUME NEW t \in Threads, NEW v \in Values, Commit(t, v) PROVE AloneInv'
  <2>1. Moves(t) BY <1>1, OneThreadMoves
  <2>2. overlaps' = 0 => alone' BY <1>1 DEF Commit, TypeInv
  <2>3. alone' => \A u \in Threads : ~Busy(u) BY <1>1 DEF Commit, Quiet, Busy
  <2>. QED BY <2>1, <2>2, <2>3 DEF AloneInv, Busy, Moves
<1>2. ASSUME NEW t \in Threads, Step(t) PROVE AloneInv'
  <2>1. Busy(t) /\ UNCHANGED <<overlaps, alone>>
        BY <1>2 DEF Step, UpdateCache, Read, Build, Remount, StartFails, Swap, UnmountFails,
                    Unmount, Invalidate, ShutOld, RebuildTunnel, counts, At, Busy
  <2>2. Moves(t) BY <1>2, OneThreadMoves
  <2>. QED BY <2>1, <2>2 DEF AloneInv, Busy, Moves
<1>3. CASE AggregateBuild \/ AggregateStore \/ UNCHANGED vars
      BY <1>3 DEF AggregateBuild, AggregateStore, vars, counts, AloneInv, Busy
<1>. QED BY <1>1, <1>2, <1>3 DEF Next

\* What is mounted is what is stored.
InForce == IF db.on THEN mounted # 0 /\ plugin[mounted].cfg = db.cfg ELSE mounted = 0

(* How far the only thread is, and what is in force when there is none.     *)
Progress(t) ==
  /\ At(t, "cache") => thread[t].v = db
  /\ Busy(t) /\ ~At(t, "cache") => cache = db
  /\ At(t, "build") => db.on
  /\ HasBuilt(t) => db.on /\ plugin[thread[t].p].cfg = db.cfg
  /\ At(t, "start") => thread[t].old = mounted /\ thread[t].job = "remount"
  /\ At(t, "unmount") => ~db.on /\ mounted # 0
  /\ Replaced(t) => thread[t].job \in {"remount", "unmount"} /\ InForce
  /\ Replaced(t) /\ thread[t].job = "unmount" => mounted = 0
  /\ At(t, "tunnel") => InForce

SaveInv ==
  /\ alone => \A t \in Threads : Progress(t)
  /\ alone /\ Quiet /\ ~problem => InForce

LEMMA InitSave == Init => AloneInv /\ SaveInv
<1> SUFFICES ASSUME Init PROVE AloneInv /\ SaveInv OBVIOUS
<1>1. \A t \in Threads : thread[t].pc = "idle" BY DEF Init, Idle
<1>2. mounted # 0 => mounted \in Plugins /\ plugin[mounted].cfg = db.cfg
      BY HostAssumption DEF Init, Plugins
<1>3. InForce BY <1>2 DEF Init, InForce
<1>. QED BY <1>1, <1>3 DEF AloneInv, SaveInv, Progress, Busy, At, HasBuilt, Replaced, Init

\* Everybody but t is idle, and then so is everybody once t returns.
LEMMA TheOthersAreIdle ==
  ASSUME AloneInv, alone, NEW t \in Threads, Busy(t), Moves(t)
  PROVE  /\ \A u \in Threads \ {t} : ~Busy(u) /\ ~Busy(u)'
         /\ Quiet' <=> ~Busy(t)'
         /\ \A u \in Threads \ {t} : Progress(u)'
<1>1. \A u \in Threads \ {t} : ~Busy(u) /\ ~Busy(u)' BY DEF AloneInv, Busy, Moves
<1>2. Quiet' <=> ~Busy(t)' BY <1>1 DEF Quiet, Busy
<1>3. \A u \in Threads \ {t} : Progress(u)'
      BY <1>1 DEF Progress, Busy, At, HasBuilt, Replaced
<1>. QED BY <1>1, <1>2, <1>3

\* What a step of the only thread leaves: its progress, or an end.
Ended == ~problem => InForce

LEMMA TheOnlyThreadProgresses ==
  ASSUME TypeInv, PluginInv, NEW t \in Threads, Progress(t), Step(t)
  PROVE  Progress(t)' /\ (Busy(t)' \/ Ended')
<1> USE DEF hostVars, counts
<1>0. /\ DOMAIN thread = Threads /\ thread[t] \in ThreadState /\ DOMAIN plugin = Plugins
      /\ \A p \in Plugins : plugin[p] \in PluginState
      BY DEF TypeInv
<1>1. CASE UpdateCache(t)
  <2>1. thread'[t].pc = "read" /\ cache' = thread[t].v /\ db' = db
        BY <1>0, <1>1 DEF UpdateCache, Goto, ThreadState
  <2>. QED BY <1>1, <2>1 DEF UpdateCache, Progress, Busy, At, HasBuilt, Replaced
<1>2. CASE Read(t)
  <2>1. cache = db /\ UNCHANGED <<db, cache, hostVars>>
        BY <1>2 DEF Read, Progress, Busy, At
  <2>2. CASE cache.on /\ Goto(t, "build")
    <3>1. thread'[t].pc = "build" BY <1>0, <2>2 DEF Goto, ThreadState
    <3>. QED BY <2>1, <2>2, <3>1 DEF Progress, Busy, At, HasBuilt, Replaced
  <2>3. CASE ~cache.on /\ mounted # 0 /\ Goto(t, "unmount")
    <3>1. thread'[t].pc = "unmount" BY <1>0, <2>3 DEF Goto, ThreadState
    <3>. QED BY <2>1, <2>3, <3>1 DEF Progress, Busy, At, HasBuilt, Replaced
  <2>4. CASE ~cache.on /\ mounted = 0 /\ Return(t, FALSE)
    <3>1. thread'[t].pc = "idle" BY <1>0, <2>4 DEF Return, Idle
    <3>. QED BY <2>1, <2>4, <3>1 DEF Progress, Busy, At, HasBuilt, Replaced, Ended, InForce
  <2>. QED BY <1>2, <2>2, <2>3, <2>4 DEF Read
<1>3. CASE Build(t)
  <2>1. PICK p \in Plugins :
          /\ plugin' = [plugin EXCEPT ![p] = [cfg |-> cache.cfg, phase |-> "built"]]
          /\ thread' = [thread EXCEPT ![t].pc = "remount", ![t].p = p]
        BY <1>3 DEF Build
  <2>2. thread'[t].pc = "remount" /\ thread'[t].p = p /\ plugin'[p].cfg = cache.cfg
        BY <1>0, <2>1 DEF ThreadState
  <2>3. cache = db /\ db.on BY <1>3 DEF Build, Progress, Busy, At
  <2>. QED BY <1>3, <2>2, <2>3 DEF Build, Progress, Busy, At, HasBuilt, Replaced
<1>4. CASE Remount(t)
  <2>1. /\ thread'[t].pc = "start" /\ thread'[t].p = thread[t].p
        /\ thread'[t].old = mounted /\ thread'[t].job = "remount"
        BY <1>0, <1>4 DEF Remount, ThreadState
  <2>. QED BY <1>4, <2>1 DEF Remount, Progress, Busy, At, HasBuilt, Replaced
<1>5. CASE StartFails(t)
  <2>1. thread'[t].pc = "idle" /\ problem' BY <1>0, <1>5 DEF StartFails, Return, Idle
  <2>. QED BY <2>1 DEF Progress, Busy, At, HasBuilt, Replaced, Ended
<1>6. CASE Swap(t)
  <2>1. /\ HasBuilt(t) /\ thread[t].p \in Plugins /\ thread[t].job = "remount"
        /\ db.on /\ plugin[thread[t].p].cfg = db.cfg /\ cache = db
        BY <1>6 DEF Swap, At, HasBuilt, Progress, PluginInv, Busy
  <2>2. thread'[t].pc = "invalidate" /\ thread'[t].job = "remount"
        BY <1>0, <1>6, <2>1 DEF Swap, Goto, ThreadState
  <2>3. mounted' = thread[t].p /\ plugin'[thread[t].p].cfg = plugin[thread[t].p].cfg
        BY <1>0, <1>6, <2>1 DEF Swap, PluginState
  <2>4. InForce' /\ cache' = db'
        BY <1>6, <2>1, <2>3, HostAssumption DEF Swap, InForce, Plugins
  <2>. QED BY <2>2, <2>4 DEF Progress, Busy, At, HasBuilt, Replaced
<1>7. CASE UnmountFails(t) BY <1>7 DEF UnmountFails, Progress
<1>8. CASE Unmount(t)
  <2>1. thread'[t].pc = "invalidate" /\ thread'[t].job = "unmount"
        BY <1>0, <1>8 DEF Unmount, ThreadState
  <2>2. ~db.on /\ cache = db BY <1>8 DEF Unmount, Progress, At, Busy
  <2>. QED BY <1>8, <2>1, <2>2 DEF Unmount, Progress, Busy, At, HasBuilt, Replaced, InForce
<1>9. CASE Invalidate(t)
  <2>1. thread'[t].pc = "shut" /\ thread'[t].job = thread[t].job
        BY <1>0, <1>9 DEF Invalidate, Goto, ThreadState
  <2>2. UNCHANGED <<db, cache, mounted, plugin>> /\ Replaced(t) /\ Busy(t) /\ ~At(t, "cache")
        BY <1>9 DEF Invalidate, Replaced, Busy, At
  <2>. QED BY <2>1, <2>2 DEF Progress, Busy, At, HasBuilt, Replaced, InForce
<1>10. CASE ShutOld(t)
  <2>1. /\ UNCHANGED <<db, cache, mounted>> /\ Replaced(t) /\ Busy(t) /\ ~At(t, "cache")
        BY <1>10 DEF ShutOld, Replaced, Busy, At
  <2>2. \A p \in Plugins : plugin'[p].cfg = plugin[p].cfg
        BY <1>0, <1>10 DEF ShutOld, PluginState
  <2>3. mounted \in 0 .. MaxPlugins BY DEF TypeInv
  <2>4. InForce' BY <2>1, <2>2, <2>3, HostAssumption DEF Progress, InForce, Plugins
  <2>5. CASE thread[t].job = "remount" /\ Goto(t, "tunnel")
    <3>1. thread'[t].pc = "tunnel" BY <1>0, <2>5 DEF Goto, ThreadState
    <3>. QED BY <2>1, <2>4, <3>1 DEF Progress, Busy, At, HasBuilt, Replaced
  <2>6. CASE thread[t].job = "unmount" /\ Return(t, FALSE)
    <3>1. thread'[t].pc = "idle" BY <1>0, <2>6 DEF Return, Idle
    <3>2. mounted' = 0 BY <2>1, <2>6 DEF Progress
    <3>. QED BY <2>4, <3>1, <3>2 DEF Progress, Busy, At, HasBuilt, Replaced, Ended
  <2>. QED BY <1>10, <2>5, <2>6 DEF ShutOld
<1>11. CASE RebuildTunnel(t)
  <2>1. thread'[t].pc = "idle" BY <1>0, <1>11 DEF RebuildTunnel, Return, Idle
  <2>2. InForce' BY <1>11 DEF RebuildTunnel, Progress, InForce, At
  <2>. QED BY <2>1, <2>2 DEF Progress, Busy, At, HasBuilt, Replaced, Ended
<1>. QED BY <1>1, <1>2, <1>3, <1>4, <1>5, <1>6, <1>7, <1>8, <1>9, <1>10, <1>11 DEF Step

LEMMA StepSave == TypeInv /\ PluginInv /\ AloneInv /\ SaveInv /\ [Next]_vars => SaveInv'
<1> SUFFICES ASSUME TypeInv, PluginInv, AloneInv, SaveInv, [Next]_vars PROVE SaveInv' OBVIOUS
<1>1. ASSUME NEW t \in Threads, NEW v \in Values, Commit(t, v) PROVE SaveInv'
  <2>1. CASE ~alone' BY <2>1 DEF SaveInv
  <2>2. CASE alone'
    <3>1. Moves(t) /\ \A u \in Threads : thread[u].pc = "idle"
          BY <1>1, <2>2, OneThreadMoves DEF Commit, Quiet
    <3>2. thread'[t].pc = "cache" /\ thread'[t].v = v /\ db' = v
          BY <1>1 DEF Commit, TypeInv, ThreadState
    <3>3. \A u \in Threads : Progress(u)'
          BY <3>1, <3>2 DEF Moves, Progress, Busy, At, HasBuilt, Replaced
    <3>. QED BY <3>2, <3>3 DEF SaveInv, Quiet
  <2>. QED BY <2>1, <2>2
<1>2. ASSUME NEW t \in Threads, Step(t) PROVE SaveInv'
  <2>1. Busy(t) /\ alone' = alone
        BY <1>2 DEF Step, UpdateCache, Read, Build, Remount, StartFails, Swap, UnmountFails,
                    Unmount, Invalidate, ShutOld, RebuildTunnel, counts, At, Busy
  <2>2. CASE ~alone BY <2>1, <2>2 DEF SaveInv
  <2>3. CASE alone
    <3>1. /\ Quiet' <=> ~Busy(t)'
          /\ \A u \in Threads \ {t} : Progress(u)'
          BY <1>2, <2>1, <2>3, OneThreadMoves, TheOthersAreIdle
    <3>2. Progress(t)' /\ (Busy(t)' \/ Ended')
          BY <1>2, <2>3, TheOnlyThreadProgresses DEF SaveInv
    <3>. QED BY <3>1, <3>2 DEF SaveInv, Ended
  <2>. QED BY <2>2, <2>3
<1>3. CASE AggregateBuild \/ AggregateStore \/ UNCHANGED vars
  <2>1. UNCHANGED <<db, cache, mounted, plugin, problem, thread, alone>>
        BY <1>3 DEF AggregateBuild, AggregateStore, vars, hostVars, counts
  <2>. QED BY <2>1 DEF SaveInv, InForce, Quiet, Progress, Busy, At, HasBuilt, Replaced
<1>. QED BY <1>1, <1>2, <1>3 DEF Next

-----------------------------------------------------------------------------
(* Saves that overlap.                                                      *)

\* What is mounted, or that nothing is, was stored recently.
Settled ==
  IF mounted = 0 THEN \E v \in recent : ~v.on
  ELSE /\ \E v \in recent : v.on
       /\ \E v \in recent : plugin[mounted].cfg = v.cfg

(* What a thread goes by was stored since the host was last quiet: what it  *)
(* reads is in the cache, which it or a later one has written since; and    *)
(* once anybody has swapped or unmounted, something recent is in force.     *)
Recently(t) ==
  /\ At(t, "cache") => thread[t].v \in recent
  /\ At(t, "read") \/ At(t, "build") => cache \in recent
  /\ At(t, "build") \/ HasBuilt(t) => \E v \in recent : v.on
  /\ HasBuilt(t) => \E v \in recent : plugin[thread[t].p].cfg = v.cfg
  /\ At(t, "unmount") => \E v \in recent : ~v.on
  /\ Replaced(t) \/ At(t, "tunnel") => Settled

RecentInv ==
  /\ \A t \in Threads : Recently(t)
  /\ Quiet /\ ~problem => Settled

LEMMA InitRecent == Init => RecentInv
<1> SUFFICES ASSUME Init PROVE RecentInv OBVIOUS
<1>1. \A t \in Threads : thread[t].pc = "idle" BY DEF Init, Idle
<1>2. mounted # 0 => mounted \in Plugins /\ plugin[mounted].cfg = db.cfg /\ db.on
      BY HostAssumption DEF Init, Plugins
<1>3. Settled BY <1>2 DEF Init, Settled
<1>. QED BY <1>1, <1>3 DEF RecentInv, Recently, At, HasBuilt, Replaced

(* What one step of t leaves recent of the others: what was stored stays    *)
(* so, the cache only takes what was, and so does what is mounted.          *)
LEMMA OthersStayRecent ==
  ASSUME RecentInv, NEW t \in Threads, Moves(t), recent' = recent,
         cache' = cache \/ cache' \in recent,
         Settled => Settled',
         \A u \in Threads \ {t} : HasBuilt(u) =>
           plugin'[thread[u].p].cfg = plugin[thread[u].p].cfg
  PROVE  \A u \in Threads \ {t} : Recently(u)'
BY DEF RecentInv, Recently, Moves, At, HasBuilt, Replaced

\* A step that leaves the plugins and what is mounted alone.
LEMMA StaysSettled ==
  ASSUME Settled, UNCHANGED <<mounted, recent>>,
         mounted # 0 => plugin'[mounted].cfg = plugin[mounted].cfg
  PROVE  Settled'
BY DEF Settled

LEMMA StepRecent == TypeInv /\ PluginInv /\ RecentInv /\ [Next]_vars => RecentInv'
<1> SUFFICES ASSUME TypeInv, PluginInv, RecentInv, [Next]_vars PROVE RecentInv' OBVIOUS
<1>0. /\ DOMAIN thread = Threads /\ DOMAIN plugin = Plugins
      /\ \A t \in Threads : thread[t] \in ThreadState
      /\ \A p \in Plugins : plugin[p] \in PluginState
      /\ mounted \in 0 .. MaxPlugins /\ (mounted # 0 => mounted \in Plugins)
      BY HostAssumption DEF TypeInv, Plugins
<1>1. ASSUME NEW t \in Threads, NEW v \in Values, Commit(t, v) PROVE RecentInv'
  <2>1. /\ Moves(t) /\ thread'[t].pc = "cache" /\ thread'[t].v = v
        /\ UNCHANGED <<cache, mounted, plugin>> /\ v \in recent'
        BY <1>0, <1>1, OneThreadMoves DEF Commit, ThreadState, hostVars
  <2>2. Recently(t)' BY <2>1 DEF Recently, At, HasBuilt, Replaced
  <2>3. ASSUME NEW u \in Threads \ {t} PROVE Recently(u)'
    <3>1. thread'[u] = thread[u] BY <2>1 DEF Moves
    <3>2. CASE Quiet
          BY <3>1, <3>2 DEF Quiet, Recently, At, HasBuilt, Replaced
    <3>3. CASE ~Quiet
      <4>1. recent \subseteq recent' BY <1>1, <3>3 DEF Commit
      <4>2. Settled => Settled' BY <2>1, <4>1 DEF Settled
      <4>. QED BY <2>1, <3>1, <4>1, <4>2 DEF RecentInv, Recently, At, HasBuilt, Replaced
    <3>. QED BY <3>2, <3>3
  <2>4. ~Quiet' BY <2>1 DEF Quiet
  <2>. QED BY <2>2, <2>3, <2>4 DEF RecentInv
\* A step of t that is over in its place, and one that ends it.
<1>A. ASSUME NEW t \in Threads, Step(t), recent' = recent,
             cache' = cache \/ cache' \in recent, Settled => Settled',
             \A u \in Threads \ {t} : HasBuilt(u) =>
               plugin'[thread[u].p].cfg = plugin[thread[u].p].cfg,
             Recently(t)', thread'[t].pc # "idle" \/ problem' \/ Settled'
      PROVE  RecentInv'
  <2>1. Moves(t) BY <1>A, OneThreadMoves
  <2>2. \A u \in Threads \ {t} : Recently(u)' BY <1>A, <2>1, OthersStayRecent
  <2>3. Quiet' => thread'[t].pc = "idle" BY DEF Quiet
  <2>. QED BY <1>A, <2>2, <2>3 DEF RecentInv
<1>2. ASSUME NEW t \in Threads, UpdateCache(t) PROVE RecentInv'
  <2>1. /\ thread'[t].pc = "read" /\ cache' = thread[t].v /\ cache' \in recent
        /\ UNCHANGED <<mounted, plugin, recent>>
        BY <1>0, <1>2 DEF UpdateCache, Goto, ThreadState, RecentInv, Recently, hostVars, counts
  <2>2. Recently(t)' BY <2>1 DEF Recently, At, HasBuilt, Replaced
  <2>. QED BY <1>2, <1>A, <2>1, <2>2, StaysSettled DEF Step
<1>3. ASSUME NEW t \in Threads, Read(t) PROVE RecentInv'
  <2>1. cache \in recent /\ UNCHANGED <<cache, mounted, plugin, recent>>
        BY <1>3 DEF Read, RecentInv, Recently, hostVars, counts
  <2>2. Settled => Settled' BY <2>1, StaysSettled
  <2>3. CASE cache.on /\ Goto(t, "build")
    <3>1. thread'[t].pc = "build" BY <1>0, <2>3 DEF Goto, ThreadState
    <3>2. Recently(t)' BY <2>1, <2>3, <3>1 DEF Recently, At, HasBuilt, Replaced
    <3>. QED BY <1>3, <1>A, <2>1, <2>2, <3>1, <3>2 DEF Step
  <2>4. CASE ~cache.on /\ mounted # 0 /\ Goto(t, "unmount")
    <3>1. thread'[t].pc = "unmount" BY <1>0, <2>4 DEF Goto, ThreadState
    <3>2. Recently(t)' BY <2>1, <2>4, <3>1 DEF Recently, At, HasBuilt, Replaced
    <3>. QED BY <1>3, <1>A, <2>1, <2>2, <3>1, <3>2 DEF Step
  <2>5. CASE ~cache.on /\ mounted = 0 /\ Return(t, FALSE)
    <3>1. thread'[t].pc = "idle" BY <1>0, <2>5 DEF Return, Idle
    <3>2. Recently(t)' BY <3>1 DEF Recently, At, HasBuilt, Replaced
    <3>3. Settled' BY <2>1, <2>5 DEF Settled
    <3>. QED BY <1>3, <1>A, <2>1, <3>2, <3>3 DEF Step
  <2>. QED BY <1>3, <2>3, <2>4, <2>5 DEF Read
<1>4. ASSUME NEW t \in Threads, Build(t) PROVE RecentInv'
  <2>1. PICK p \in Plugins :
          /\ Newest(p)
          /\ plugin' = [plugin EXCEPT ![p] = [cfg |-> cache.cfg, phase |-> "built"]]
          /\ thread' = [thread EXCEPT ![t].pc = "remount", ![t].p = p]
        BY <1>4 DEF Build
  <2>2. /\ thread'[t].pc = "remount" /\ thread'[t].p = p /\ plugin'[p].cfg = cache.cfg
        /\ \A q \in Plugins \ {p} : plugin'[q] = plugin[q]
        BY <1>0, <2>1 DEF ThreadState
  <2>3. /\ cache \in recent /\ \E v \in recent : v.on
        /\ UNCHANGED <<cache, mounted, recent>>
        BY <1>4 DEF Build, RecentInv, Recently, counts
  <2>4. plugin[p].phase = "unbuilt" BY <2>1 DEF Newest, Fresh
  <2>5. mounted # 0 => mounted # p BY <2>4 DEF PluginInv, MountedIsAlive
  <2>6. Settled => Settled' BY <1>0, <2>2, <2>3, <2>5, StaysSettled
  <2>7. Recently(t)' BY <2>2, <2>3 DEF Recently, At, HasBuilt, Replaced
  <2>8. \A u \in Threads \ {t} : HasBuilt(u) =>
          plugin'[thread[u].p].cfg = plugin[thread[u].p].cfg
        BY <2>2, <2>4 DEF PluginInv
  <2>. QED BY <1>4, <1>A, <2>2, <2>3, <2>6, <2>7, <2>8 DEF Step
<1>5. ASSUME NEW t \in Threads, Remount(t) PROVE RecentInv'
  <2>1. /\ thread'[t].pc = "start" /\ thread'[t].p = thread[t].p /\ HasBuilt(t)
        /\ UNCHANGED <<cache, mounted, plugin, recent>>
        BY <1>0, <1>5 DEF Remount, ThreadState, hostVars, counts, At, HasBuilt
  <2>2. Recently(t)' BY <2>1 DEF RecentInv, Recently, At, HasBuilt, Replaced
  <2>. QED BY <1>5, <1>A, <2>1, <2>2, StaysSettled DEF Step
<1>6. ASSUME NEW t \in Threads, StartFails(t) PROVE RecentInv'
  <2>1. /\ thread'[t].pc = "idle" /\ problem' /\ UNCHANGED <<cache, mounted, recent>>
        BY <1>0, <1>6 DEF StartFails, Return, Idle, counts
  <2>2. \A p \in Plugins : plugin'[p].cfg = plugin[p].cfg
        BY <1>0, <1>6 DEF StartFails, PluginState
  <2>3. Settled => Settled' BY <1>0, <2>1, <2>2, StaysSettled
  <2>4. Recently(t)' BY <2>1 DEF Recently, At, HasBuilt, Replaced
  <2>. QED BY <1>6, <1>A, <2>1, <2>2, <2>3, <2>4 DEF Step, PluginInv
<1>7. ASSUME NEW t \in Threads, Swap(t) PROVE RecentInv'
  <2>1. /\ thread'[t].pc = "invalidate" /\ mounted' = thread[t].p /\ HasBuilt(t)
        /\ thread[t].p \in Plugins /\ UNCHANGED <<cache, recent>>
        BY <1>0, <1>7 DEF Swap, Goto, At, HasBuilt, PluginInv, ThreadState, counts
  <2>2. \A p \in Plugins : plugin'[p].cfg = plugin[p].cfg
        BY <1>0, <1>7 DEF Swap, PluginState
  <2>3. Settled'
    <3>1. /\ \E v \in recent : v.on
          /\ \E v \in recent : plugin[thread[t].p].cfg = v.cfg
          BY <2>1 DEF RecentInv, Recently
    <3>2. mounted' # 0 BY <2>1 DEF Plugins
    <3>3. plugin'[mounted'].cfg = plugin[thread[t].p].cfg BY <2>1, <2>2
    <3>. QED BY <2>1, <3>1, <3>2, <3>3 DEF Settled
  <2>4. Recently(t)' BY <2>1, <2>3 DEF Recently, At, HasBuilt, Replaced
  <2>. QED BY <1>7, <1>A, <2>1, <2>2, <2>3, <2>4 DEF Step, PluginInv
<1>8. ASSUME NEW t \in Threads, UnmountFails(t) PROVE RecentInv'
  <2>1. /\ thread'[t].pc = "idle" /\ problem' /\ UNCHANGED <<cache, mounted, plugin, recent>>
        BY <1>0, <1>8 DEF UnmountFails, Return, Idle, hostVars, counts
  <2>2. Recently(t)' BY <2>1 DEF Recently, At, HasBuilt, Replaced
  <2>. QED BY <1>8, <1>A, <2>1, <2>2, StaysSettled DEF Step
<1>9. ASSUME NEW t \in Threads, Unmount(t) PROVE RecentInv'
  <2>1. /\ thread'[t].pc = "invalidate" /\ mounted' = 0 /\ UNCHANGED <<cache, plugin, recent>>
        BY <1>0, <1>9 DEF Unmount, ThreadState, counts
  <2>2. Settled' BY <1>9, <2>1 DEF Unmount, RecentInv, Recently, Settled
  <2>3. Recently(t)' BY <2>1, <2>2 DEF Recently, At, HasBuilt, Replaced
  <2>. QED BY <1>9, <1>A, <2>1, <2>2, <2>3 DEF Step
<1>10. ASSUME NEW t \in Threads, Invalidate(t) \/ ShutOld(t) \/ RebuildTunnel(t)
       PROVE  RecentInv'
  <2>1. /\ thread'[t].pc \in {"shut", "tunnel", "idle"}
        /\ UNCHANGED <<cache, mounted, recent>> /\ (Replaced(t) \/ At(t, "tunnel"))
        BY <1>0, <1>10 DEF Invalidate, ShutOld, RebuildTunnel, Goto, Return, Idle, At, Replaced,
                           ThreadState, counts
  <2>2. \A p \in Plugins : plugin'[p].cfg = plugin[p].cfg
    <3>1. CASE Invalidate(t) BY <3>1 DEF Invalidate
    <3>2. CASE ShutOld(t)
      <4>. SUFFICES ASSUME NEW p \in Plugins PROVE plugin'[p].cfg = plugin[p].cfg
           OBVIOUS
      <4>1. plugin'[p] = IF p = thread[t].old THEN [plugin[p] EXCEPT !.phase = "shut"]
                         ELSE plugin[p]
            BY <3>2 DEF ShutOld
      <4>2. plugin[p] \in PluginState BY <1>0
      <4>. QED BY <4>1, <4>2 DEF PluginState
    <3>3. CASE RebuildTunnel(t) BY <3>3 DEF RebuildTunnel
    <3>. QED BY <1>10, <3>1, <3>2, <3>3
  <2>3. Settled' BY <1>0, <2>1, <2>2, StaysSettled DEF RecentInv, Recently
  <2>4. Recently(t)' BY <2>1, <2>3 DEF Recently, At, HasBuilt, Replaced
  <2>. QED BY <1>10, <1>A, <2>1, <2>2, <2>3, <2>4 DEF Step, PluginInv
<1>11. CASE AggregateBuild \/ AggregateStore \/ UNCHANGED vars
  <2>1. UNCHANGED <<cache, mounted, plugin, problem, thread, recent>>
        BY <1>11 DEF AggregateBuild, AggregateStore, vars, hostVars, counts
  <2>. QED BY <2>1 DEF RecentInv, Recently, Settled, Quiet, At, HasBuilt, Replaced
<1>. QED BY <1>1, <1>2, <1>3, <1>4, <1>5, <1>6, <1>7, <1>8, <1>9, <1>10, <1>11 DEF Next, Step

(* Once the host is quiet it serves nothing older than the last stretch of  *)
(* saves, however they overlapped, and what the last save stored if that    *)
(* one ran alone; or its problem is reported (Store.Apply,                  *)
(* reconcileInstance, noteReconcile).                                       *)
THEOREM ASaveTakesEffect == Spec => []SavesTakeEffect
<1> DEFINE Inv == TypeInv /\ PluginInv /\ AloneInv /\ SaveInv /\ RecentInv
<1>1. Inv /\ [Next]_vars => Inv'
      BY StepType, StepPlugin, StepAlone, StepSave, StepRecent
<1>2. Init => Inv BY InitType, InitPlugin, InitSave, InitRecent
<1>3. Inv => SavesTakeEffect
      BY DEF SaveInv, RecentInv, Settled, SavesTakeEffect, QuietHostServesWhatIsStored,
             QuietHostServesSomethingRecent, InForce
<1> HIDE DEF Inv
<1>. QED BY <1>1, <1>2, <1>3, PTL DEF Spec

-----------------------------------------------------------------------------
(* What overlapping saves may leave behind.                                 *)

OrderInv ==
  /\ OrderNamesWhatIsMounted
  /\ alone => \A t \in Threads : At(t, "start") => thread[t].old = mounted

LEMMA InitOrder == Init => OrderInv
BY DEF Init, OrderInv, OrderNamesWhatIsMounted, At, Idle

LEMMA StepOrder == TypeInv /\ PluginInv /\ AloneInv /\ OrderInv /\ [Next]_vars => OrderInv'
<1> SUFFICES ASSUME TypeInv, PluginInv, AloneInv, OrderInv, [Next]_vars PROVE OrderInv'
    OBVIOUS
<1>1. ASSUME UNCHANGED mounted, UNCHANGED listed, overlaps' = 0 => overlaps = 0,
             alone' => \A t \in Threads : At(t, "start")' => thread'[t].old = mounted
      PROVE  OrderInv'
      BY <1>1 DEF OrderInv, OrderNamesWhatIsMounted
<1>2. ASSUME NEW t \in Threads, NEW v \in Values, Commit(t, v) PROVE OrderInv'
  <2>1. alone' => \A u \in Threads : ~At(u, "start")'
        BY <1>2 DEF Commit, Quiet, At, TypeInv, ThreadState
  <2>2. overlaps' = 0 => overlaps = 0 BY <1>2 DEF Commit, TypeInv
  <2>. QED BY <1>1, <1>2, <2>1, <2>2 DEF Commit, hostVars
<1>3. ASSUME NEW t \in Threads, Step(t), UNCHANGED <<mounted, listed, overlaps, alone>>,
             thread'[t].pc # "start" \/ thread'[t].old = mounted
      PROVE  OrderInv'
      BY <1>1, <1>3, OneThreadMoves DEF OrderInv, Moves, At
<1>4. ASSUME NEW t \in Threads,
             UpdateCache(t) \/ Read(t) \/ Build(t) \/ StartFails(t) \/ UnmountFails(t)
               \/ Invalidate(t) \/ ShutOld(t) \/ RebuildTunnel(t)
      PROVE  OrderInv'
  <2>1. UNCHANGED <<mounted, listed, overlaps, alone>>
        BY <1>4 DEF UpdateCache, Read, Build, StartFails, UnmountFails, Invalidate, ShutOld,
                    RebuildTunnel, hostVars, counts
  <2>2. thread'[t].pc # "start"
        BY <1>4 DEF UpdateCache, Read, Build, StartFails, UnmountFails, Invalidate, ShutOld,
                    RebuildTunnel, Goto, Return, Idle, TypeInv, ThreadState
  <2>. QED BY <1>3, <1>4, <2>1, <2>2 DEF Step
<1>5. ASSUME NEW t \in Threads, Remount(t) PROVE OrderInv'
  <2>1. thread'[t].old = mounted BY <1>5 DEF Remount, TypeInv, ThreadState
  <2>. QED BY <1>3, <1>5, <2>1 DEF Remount, Step, hostVars, counts
<1>6. ASSUME NEW t \in Threads, Swap(t) \/ Unmount(t) PROVE OrderInv'
  <2>1. alone' = alone /\ overlaps' = overlaps /\ Busy(t)
        BY <1>6 DEF Swap, Unmount, counts, Busy, At
  <2>0. thread'[t].pc = "invalidate"
        BY <1>6 DEF Swap, Unmount, Goto, TypeInv, ThreadState
  <2>2. Moves(t) /\ ~At(t, "start")' BY <1>6, <2>0, OneThreadMoves DEF Step, At
  <2>3. alone => \A u \in Threads : ~At(u, "start")'
        BY <2>1, <2>2 DEF AloneInv, Busy, Moves, At
  <2>4. ASSUME overlaps = 0 PROVE listed' = IF mounted' = 0 THEN 0 ELSE 1
    <3>1. alone /\ listed = IF mounted = 0 THEN 0 ELSE 1
          BY <2>4 DEF AloneInv, OrderInv, OrderNamesWhatIsMounted
    <3>2. CASE Swap(t)
      <4>1. HasBuilt(t) /\ thread[t].old = mounted
            BY <3>1, <3>2 DEF Swap, At, HasBuilt, OrderInv
      <4>2. mounted' # 0
            BY <3>2, <4>1, HostAssumption DEF Swap, PluginInv, Plugins
      <4>. QED BY <3>1, <3>2, <4>1, <4>2 DEF Swap
    <3>3. CASE Unmount(t) BY <3>1, <3>3 DEF Unmount
    <3>. QED BY <1>6, <3>2, <3>3
  <2>. QED BY <2>1, <2>3, <2>4 DEF OrderInv, OrderNamesWhatIsMounted
<1>7. CASE AggregateBuild \/ AggregateStore \/ UNCHANGED vars
      BY <1>7 DEF AggregateBuild, AggregateStore, vars, hostVars, counts, OrderInv,
                  OrderNamesWhatIsMounted, At
<1>. QED BY <1>2, <1>4, <1>5, <1>6, <1>7 DEF Next, Step

\* What somebody will shut down, or puts back in its place.
Kept == {thread[t].old : t \in {u \in Threads : Replaces(u)}}
Leaked == {p \in Plugins : plugin[p].phase = "serving" /\ p # mounted /\ p \notin Kept}
\* Those who will swap, but for something else than what they read.
Stale == {t \in Threads : At(t, "start") /\ thread[t].old # mounted}

(* A save that overlapped pays for the swap that loses a plugin: whoever is *)
(* about to make one read before another did.                               *)
LeakInv ==
  /\ Cardinality(Leaked) + Cardinality(Pending) <= overlaps + 1
  /\ Cardinality(Leaked) + Cardinality(Stale) <= overlaps

LEMMA Finite ==
  /\ IsFiniteSet(Leaked) /\ Cardinality(Leaked) \in Nat
  /\ IsFiniteSet(Pending) /\ Cardinality(Pending) \in Nat
  /\ IsFiniteSet(Stale) /\ Cardinality(Stale) \in Nat
<1>1. IsFiniteSet(Plugins) BY HostAssumption, FS_Interval DEF Plugins
<1>2. IsFiniteSet(Leaked) BY <1>1, FS_Subset DEF Leaked
<1>3. IsFiniteSet(Stale) BY HostAssumption, FS_Subset DEF Stale
<1>. QED BY <1>2, <1>3, PendingIsFinite, FS_CardinalityType

LEMMA InitLeak == Init => LeakInv
<1> SUFFICES ASSUME Init PROVE LeakInv OBVIOUS
<1>1. Leaked = {} BY DEF Init, Leaked, Unbuilt
<1>2. Pending = {} /\ Stale = {} BY DEF Init, Pending, Stale, At, Idle
<1>. QED BY <1>1, <1>2, FS_EmptySet DEF LeakInv, Init

LEMMA StepLeak == TypeInv /\ PluginInv /\ LeakInv /\ [Next]_vars => LeakInv'
<1> SUFFICES ASSUME TypeInv, PluginInv, LeakInv, [Next]_vars PROVE LeakInv' OBVIOUS
<1> USE Finite
<1>0. /\ DOMAIN thread = Threads /\ \A t \in Threads : thread[t] \in ThreadState
      /\ \A t \in Threads : thread[t].old \in 0 .. MaxPlugins
      /\ overlaps \in Nat /\ mounted \in 0 .. MaxPlugins
      BY DEF TypeInv, ThreadState
<1>A. ASSUME Leaked' \subseteq Leaked, Pending' \subseteq Pending, Stale' \subseteq Stale,
             overlaps' = overlaps
      PROVE  LeakInv'
  <2>1. /\ Cardinality(Leaked') \in Nat /\ Cardinality(Leaked') <= Cardinality(Leaked)
        /\ Cardinality(Pending') \in Nat /\ Cardinality(Pending') <= Cardinality(Pending)
        /\ Cardinality(Stale') \in Nat /\ Cardinality(Stale') <= Cardinality(Stale)
        BY <1>A, Counting
  <2>. QED BY <1>0, <1>A, <2>1 DEF LeakInv
<1>B. ASSUME NEW t \in Pending, Pending' \subseteq Pending \ {t}, overlaps' = overlaps,
             \/ Leaked' \subseteq Leaked /\ Stale' \subseteq Pending \ {t}
             \/ /\ t \in Stale /\ Stale' \subseteq Stale \ {t}
                /\ \E x : Leaked' \subseteq Leaked \cup {x}
      PROVE  LeakInv'
  <2>1. Cardinality(Pending') \in Nat /\ Cardinality(Pending') + 1 <= Cardinality(Pending)
        BY <1>B, Counting
  <2>2. CASE Leaked' \subseteq Leaked /\ Stale' \subseteq Pending \ {t}
    <3>1. /\ Cardinality(Leaked') \in Nat /\ Cardinality(Leaked') <= Cardinality(Leaked)
          /\ Cardinality(Stale') \in Nat /\ Cardinality(Stale') + 1 <= Cardinality(Pending)
          BY <2>2, Counting
    <3>. QED BY <1>0, <1>B, <2>1, <3>1 DEF LeakInv
  <2>3. CASE t \in Stale /\ Stale' \subseteq Stale \ {t} /\ \E x : Leaked' \subseteq Leaked \cup {x}
    <3>1. /\ Cardinality(Leaked') \in Nat /\ Cardinality(Leaked') <= Cardinality(Leaked) + 1
          /\ Cardinality(Stale') \in Nat /\ Cardinality(Stale') + 1 <= Cardinality(Stale)
          BY <2>3, Counting
    <3>. QED BY <1>0, <1>B, <2>1, <3>1 DEF LeakInv
  <2>. QED BY <1>B, <2>2, <2>3
\* A thread that neither had nor has something to replace, and mounts nothing.
<1>C. ASSUME NEW t \in Threads, Moves(t), mounted' = mounted, ~Replaces(t),
             \A q \in Plugins : plugin'[q].phase = "serving" => plugin[q].phase = "serving",
             Replaces(t)' => At(t, "start")' /\ thread'[t].old = mounted
      PROVE  Leaked' \subseteq Leaked /\ Stale' \subseteq Stale
  <2>1. Kept \subseteq Kept' BY <1>C DEF Kept, Moves, Replaces
  <2>2. Stale' \subseteq Stale BY <1>C DEF Stale, Moves, Replaces, At
  <2>. QED BY <1>C, <2>1, <2>2 DEF Leaked
<1>1. ASSUME NEW t \in Threads, NEW v \in Values, Commit(t, v) PROVE LeakInv'
  <2>1. thread'[t].pc = "cache" /\ thread[t].pc = "idle" /\ UNCHANGED <<mounted, plugin>>
        BY <1>0, <1>1 DEF Commit, At, ThreadState, hostVars
  <2>2. Moves(t) BY <1>1, OneThreadMoves
  <2>3. Leaked' \subseteq Leaked /\ Stale' \subseteq Stale BY <1>C, <2>1, <2>2 DEF Replaces
  <2>4. Pending' \subseteq Pending \cup {t} BY <2>1, <2>2, PendingChanges DEF Pcs
  <2>5. /\ Cardinality(Leaked') \in Nat /\ Cardinality(Leaked') <= Cardinality(Leaked)
        /\ Cardinality(Pending') \in Nat /\ Cardinality(Pending') <= Cardinality(Pending) + 1
        /\ Cardinality(Stale') \in Nat /\ Cardinality(Stale') <= Cardinality(Stale)
        BY <2>3, <2>4, Counting
  <2>6. CASE Quiet
    <3>1. Pending = {} BY <2>6 DEF Pending, Quiet
    <3>2. Cardinality(Pending) = 0 BY <3>1, FS_EmptySet
    <3>3. overlaps' = overlaps BY <1>1, <2>6 DEF Commit
    <3>. QED BY <1>0, <2>5, <3>2, <3>3 DEF LeakInv
  <2>7. CASE ~Quiet
    <3>1. overlaps' = overlaps + 1 BY <1>1, <2>7 DEF Commit
    <3>. QED BY <1>0, <2>5, <3>1 DEF LeakInv
  <2>. QED BY <2>6, <2>7
<1>2. ASSUME NEW t \in Threads,
             UpdateCache(t) \/ Read(t) \/ Build(t) \/ Remount(t) \/ UnmountFails(t)
               \/ RebuildTunnel(t)
      PROVE  LeakInv'
  <2>1. /\ Moves(t) /\ mounted' = mounted /\ overlaps' = overlaps /\ ~Replaces(t)
        /\ thread[t].pc # "tunnel" => t \in Pending
    <3>1. Moves(t) BY <1>2, OneThreadMoves DEF Step
    <3>. QED BY <1>2, <3>1
             DEF UpdateCache, Read, Build, Remount, UnmountFails, RebuildTunnel, hostVars,
                 counts, At, Replaces, Pending
  <2>2. \A q \in Plugins : plugin'[q].phase = "serving" => plugin[q].phase = "serving"
    <3>1. CASE Build(t)
      <4>1. PICK p \in Plugins :
              plugin' = [plugin EXCEPT ![p] = [cfg |-> cache.cfg, phase |-> "built"]]
            BY <3>1 DEF Build
      <4>. QED BY <4>1 DEF TypeInv
    <3>2. CASE ~Build(t)
          BY <1>2, <3>2 DEF UpdateCache, Read, Remount, UnmountFails, RebuildTunnel, hostVars
    <3>. QED BY <3>1, <3>2
  <2>3. CASE Remount(t)
    <3>1. thread'[t].pc = "start" /\ thread'[t].old = mounted /\ t \in Pending
          BY <1>0, <2>1, <2>3 DEF Remount, At, ThreadState
    <3>2. Pending' \subseteq Pending BY <2>1, <3>1, PendingChanges DEF Pcs
    <3>. QED BY <1>A, <1>C, <2>1, <2>2, <3>1, <3>2 DEF At
  <2>4. CASE ~Remount(t)
    <3>1. thread'[t].pc \in {"idle", "read", "build", "remount", "unmount"}
          BY <1>0, <1>2, <2>4 DEF UpdateCache, Read, Build, UnmountFails, RebuildTunnel,
             Goto, Return, Idle, ThreadState
    <3>2. t \in Pending \/ thread'[t].pc \notin Mounting
      <4>1. CASE RebuildTunnel(t)
            BY <1>0, <4>1 DEF RebuildTunnel, Return, Idle, Mounting
      <4>2. CASE ~RebuildTunnel(t)
            BY <1>2, <2>1, <4>2 DEF UpdateCache, Read, Build, Remount, UnmountFails, At
      <4>. QED BY <4>1, <4>2
    <3>3. Pending' \subseteq Pending BY <2>1, <3>1, <3>2, PendingChanges DEF Pcs
    <3>4. ~Replaces(t)' BY <3>1 DEF Replaces
    <3>. QED BY <1>A, <1>C, <2>1, <2>2, <3>3, <3>4
  <2>. QED BY <2>3, <2>4
<1>3. ASSUME NEW t \in Threads, StartFails(t) PROVE LeakInv'
  <2>1. /\ thread[t].pc = "start" /\ thread'[t].pc = "idle" /\ t \in Pending
        /\ mounted' = mounted /\ overlaps' = overlaps
        BY <1>0, <1>3 DEF StartFails, Return, Idle, At, Pending, counts
  <2>2. Moves(t) BY <1>3, OneThreadMoves DEF Step
  <2>3. Pending' \subseteq Pending \ {t} BY <2>1, <2>2, PendingChanges DEF Pcs, Mounting
  <2>4. Stale' \subseteq Stale \ {t} BY <2>1, <2>2 DEF Stale, Moves, At
  <2>5. Kept \subseteq Kept' \cup {thread[t].old} BY <2>2 DEF Kept, Moves, Replaces
  <2>6. \A q \in Plugins : plugin'[q].phase = "serving" => plugin[q].phase = "serving"
        BY <1>3 DEF StartFails, TypeInv, PluginState
  <2>7. Leaked' \subseteq Leaked \cup {thread[t].old} BY <2>1, <2>5, <2>6 DEF Leaked
  <2>8. CASE thread[t].old = mounted
    <3>1. Leaked' \subseteq Leaked BY <2>1, <2>7, <2>8 DEF Leaked
    <3>. QED BY <1>A, <2>1, <2>3, <2>4, <3>1
  <2>9. CASE thread[t].old # mounted
    <3>1. t \in Stale BY <2>1, <2>9 DEF Stale, At
    <3>. QED BY <1>B, <2>1, <2>3, <2>4, <2>7, <3>1
  <2>. QED BY <2>8, <2>9
<1>4. ASSUME NEW t \in Threads, Swap(t) PROVE LeakInv'
  <2>1. /\ thread[t].pc = "start" /\ thread'[t].pc = "invalidate" /\ t \in Pending
        /\ thread'[t].old = thread[t].old /\ overlaps' = overlaps
        /\ mounted' = thread[t].p
        BY <1>0, <1>4 DEF Swap, Goto, At, Pending, counts, ThreadState
  <2>2. Moves(t) BY <1>4, OneThreadMoves DEF Step
  <2>3. Pending' \subseteq Pending \ {t} BY <2>1, <2>2, PendingChanges DEF Pcs, Mounting
  <2>4. Kept \subseteq Kept' BY <2>1, <2>2 DEF Kept, Moves, Replaces
  <2>5. \A q \in Plugins : q # thread[t].p => plugin'[q] = plugin[q]
        BY <1>4 DEF Swap, TypeInv
  <2>6. Leaked' \subseteq Leaked \cup {mounted} BY <2>1, <2>4, <2>5 DEF Leaked
  <2>7. \A u \in Threads : At(u, "start") => thread[u].old \in Kept /\ u \in Pending
        BY DEF Kept, Replaces, At, Pending
  <2>8. \A u \in Stale' : u # t /\ At(u, "start") BY <2>1, <2>2 DEF Stale, Moves, At
  <2>9. CASE mounted \in Kept \/ mounted = 0
    <3>1. mounted \notin Leaked'
          BY <2>4, <2>9, HostAssumption DEF Leaked, Plugins
    <3>2. Stale' \subseteq Pending \ {t} BY <2>7, <2>8 DEF Stale
    <3>. QED BY <1>B, <2>1, <2>3, <2>6, <3>1, <3>2
  <2>10. CASE mounted \notin Kept
    <3>1. \A u \in Threads : At(u, "start") => u \in Stale BY <2>7, <2>10 DEF Stale
    <3>2. t \in Stale BY <2>1, <3>1 DEF At
    <3>3. Stale' \subseteq Stale \ {t} BY <2>8, <3>1 DEF Stale
    <3>. QED BY <1>B, <2>1, <2>3, <2>6, <3>2, <3>3
  <2>. QED BY <2>9, <2>10
<1>5. ASSUME NEW t \in Threads, Unmount(t) PROVE LeakInv'
  <2>1. /\ thread[t].pc = "unmount" /\ thread'[t].pc = "invalidate" /\ t \in Pending
        /\ thread'[t].old = mounted /\ overlaps' = overlaps /\ plugin' = plugin
        BY <1>0, <1>5 DEF Unmount, At, Pending, counts, ThreadState
  <2>2. Moves(t) BY <1>5, OneThreadMoves DEF Step
  <2>3. Pending' \subseteq Pending \ {t} BY <2>1, <2>2, PendingChanges DEF Pcs, Mounting
  <2>4. Kept \cup {mounted} \subseteq Kept' BY <2>1, <2>2 DEF Kept, Moves, Replaces
  <2>5. Leaked' \subseteq Leaked BY <2>1, <2>4 DEF Leaked
  <2>6. Stale' \subseteq Pending \ {t} BY <2>1, <2>2 DEF Stale, Pending, Moves, At
  <2>. QED BY <1>B, <2>1, <2>3, <2>5, <2>6
<1>6. ASSUME NEW t \in Threads, Invalidate(t) \/ ShutOld(t) PROVE LeakInv'
  <2>1. /\ thread[t].pc \in {"invalidate", "shut"} /\ overlaps' = overlaps
        /\ mounted' = mounted
        /\ thread'[t].pc \in {"shut", "tunnel", "idle"}
        /\ thread'[t].pc = "shut" => thread'[t].old = thread[t].old /\ plugin' = plugin
        BY <1>0, <1>6 DEF Invalidate, ShutOld, Goto, Return, Idle, At, counts, ThreadState
  <2>2. Moves(t) BY <1>6, OneThreadMoves DEF Step
  <2>3. Pending' \subseteq Pending BY <2>1, <2>2, PendingChanges DEF Pcs, Mounting
  <2>4. Stale' \subseteq Stale BY <2>1, <2>2 DEF Stale, Moves, At
  <2>5. Kept \subseteq Kept' \cup {thread[t].old} BY <2>2 DEF Kept, Moves, Replaces
  <2>6. CASE Invalidate(t)
    <3>1. Kept \subseteq Kept' /\ plugin' = plugin
          BY <1>0, <2>1, <2>2, <2>6
          DEF Kept, Moves, Replaces, Invalidate, Goto, ThreadState
    <3>2. Leaked' \subseteq Leaked BY <2>1, <3>1 DEF Leaked
    <3>. QED BY <1>A, <2>1, <2>3, <2>4, <3>2
  <2>7. CASE ShutOld(t)
    <3>1. \A q \in Plugins : plugin'[q].phase = "serving" =>
            q # thread[t].old /\ plugin[q].phase = "serving"
          BY <2>7 DEF ShutOld, TypeInv, PluginState
    <3>2. Leaked' \subseteq Leaked BY <2>1, <2>5, <3>1 DEF Leaked
    <3>. QED BY <1>A, <2>1, <2>3, <2>4, <3>2
  <2>. QED BY <1>6, <2>6, <2>7
<1>7. CASE AggregateBuild \/ AggregateStore \/ UNCHANGED vars
  <2>1. UNCHANGED <<thread, mounted, plugin, overlaps>>
        BY <1>7 DEF AggregateBuild, AggregateStore, vars, hostVars, counts
  <2>. QED BY <1>A, <2>1 DEF Leaked, Kept, Pending, Stale, Replaces, At
<1>. QED BY <1>1, <1>2, <1>3, <1>4, <1>5, <1>6, <1>7 DEF Next, Step

(* However many saves overlap, the order is right as long as none did, and  *)
(* what is left running with nothing to refer to it is at most one plugin   *)
(* for each that did (Manager.Remount, Unmount).                            *)
THEOREM LittleIsLeftBehind == Spec => []NothingIsLeftBehind
<1> DEFINE Inv == TypeInv /\ PluginInv /\ AloneInv /\ OrderInv /\ LeakInv
<1>1. Init => Inv BY InitType, InitPlugin, InitSave, InitOrder, InitLeak
<1>2. Inv /\ [Next]_vars => Inv'
      BY StepType, StepPlugin, StepAlone, StepOrder, StepLeak
<1>3. Inv => NothingIsLeftBehind
  <2> SUFFICES ASSUME Inv PROVE NothingIsLeftBehind OBVIOUS
  <2>1. ASSUME Quiet
        PROVE  Cardinality({p \in Plugins : plugin[p].phase = "serving" /\ p # mounted})
                 <= overlaps
    <3>1. Kept = {} BY <2>1 DEF Kept, Replaces, Quiet
    <3>2. {p \in Plugins : plugin[p].phase = "serving" /\ p # mounted} = Leaked
          BY <3>1 DEF Leaked
    <3>3. Cardinality(Leaked) <= overlaps BY Finite DEF LeakInv, TypeInv
    <3>. QED BY <3>2, <3>3
  <2>. QED BY <2>1 DEF NothingIsLeftBehind, LeaksAreBounded, OrderInv
<1> HIDE DEF Inv
<1>. QED BY <1>1, <1>2, <1>3, PTL DEF Spec
=============================================================================
