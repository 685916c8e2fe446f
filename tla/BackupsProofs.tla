---------------------------- MODULE BackupsProofs ----------------------------
(* Proofs about Backup, for every schedule, policy, number of destinations, *)
(* callers, rows kept, restarts and refused calls, and about Restore, for   *)
(* every archive, order of its files, division of them over filesystems,    *)
(* number of stages and of kills.                                           *)
EXTENDS Backup, Restore, FiniteSetTheorems, WellFoundedInduction, TLAPS

(* The inductive invariant of the runner. *)
Working == {"post", "drain", "write", "read", "send", "prune", "settle"}
WorkerPcs == Working \cup {"sweep", "catchUp", "arm", "select", "check", "insert", "gone"}
RowStates == [status : Statuses \cup {"none"}, trig : {"none", "manual", "schedule"}, at : Instants]
WorkerStates == [pc : WorkerPcs, armed : Due \cup {0}, run : Runs \cup {0},
                 trig : {"none", "manual", "schedule"}, at : Instants,
                 left : SUBSET Dests, reached : SUBSET Dests, missed : SUBSET Dests,
                 cur : Dests \cup {"none"}, listing : SUBSET Archives]
CallerStates == [pc : {"idle", "insert", "post"}, run : Runs \cup {0}]

\* Types, and how far the clock can have come.
ClockTypes ==
  /\ clock \in Nat /\ clock <= MaxClock + 2 * (starts - 1)
  /\ host \in {"up", "stopping", "down"} /\ starts \in 1 .. MaxStarts
  /\ builtAt \in Instants /\ builtAt <= clock
  /\ host # "up" => starts < MaxStarts
  /\ on \subseteq Dests /\ enabled \in BOOLEAN /\ wake \in BOOLEAN
  /\ edits \in 0 .. MaxEdits /\ faults \in 0 .. MaxFaults

RowTypes ==
  /\ issued \in 0 .. MaxRuns /\ rows \in [Runs -> RowStates]
  /\ owner \in [Runs -> 0 .. MaxStarts] /\ orphaned \subseteq Runs /\ taken \subseteq Due \cup {0}

WorkerType == worker \in WorkerStates

HandTypes ==
  /\ manual \in {<<>>} \cup {<<r>> : r \in Runs} /\ caller \in [Callers -> CallerStates]

\* What is held, which every count of it needs to be finite.
HeldTypes ==
  /\ held \in [Dests -> SUBSET Archives] /\ \A d \in Dests : IsFiniteSet(held[d])
  /\ lastSeen \in [Dests -> Nat]

\* A row is inserted under the next id, by the process that is running then.
RowsInv ==
  \A r \in Runs :
    /\ r > issued => rows[r] = NoRow
    /\ rows[r].status = "none" => rows[r] = NoRow
    /\ rows[r].status # "none" =>
         /\ rows[r].at <= clock /\ owner[r] <= starts
         /\ owner[r] < starts <=> rows[r].at < builtAt
    /\ rows[r].status = "interrupted" => owner[r] < starts

\* One backup at a time is passed from hand to hand.
OneRow == \A r, s \in Runs : Running(r) /\ Running(s) => r = s

HandledRuns == \A r \in Runs : Handling(r) => Running(r) /\ owner[r] = starts

Tokens ==
  /\ \A c \in Callers : caller[c].pc = "post" =>
       /\ caller[c].run \in Runs /\ manual = <<>> /\ worker.pc \notin Working
       /\ \A b \in Callers \ {c} : caller[b].pc # "post"
  /\ worker.pc \in Working =>
       worker.run \in Runs /\ manual = IF worker.pc = "drain" THEN <<worker.run>> ELSE <<>>
  /\ host = "down" => manual = <<>> /\ worker.pc = "gone" /\ \A c \in Callers :
     caller[c].pc = "idle"

HandsInv == OneRow /\ HandledRuns /\ Tokens

\* A row left running is in somebody's hands, an earlier process's until the
\* sweep, or one whose settling was refused.
SettledInv ==
  host = "up" => \A r \in Runs : Running(r) =>
    \/ Handling(r)
    \/ worker.pc = "sweep" /\ owner[r] < starts
    \/ worker.pc # "sweep" /\ r \in orphaned

\* Nothing due now has been taken when the worker is about to take it: what was
\* taken was due by then, and the newest scheduled row still says so.
TakenIsPast == \A t \in taken : t <= clock

ArmedIsLater == worker.armed # 0 => \A t \in taken : t < worker.armed

DueIsUntaken == worker.pc \in {"check", "insert"} => \A t \in taken : t < Previous(clock)

TakenIsRecorded ==
  (\E s \in Runs : rows[s].trig = "schedule") =>
    \A t \in taken : \E r \in Runs : rows[r].trig = "schedule" /\ t <= rows[r].at

ScheduleInv == TakenIsPast /\ ArmedIsLater /\ DueIsUntaken /\ TakenIsRecorded

BackupInv ==
  /\ ClockTypes /\ RowTypes /\ WorkerType /\ HandTypes /\ HeldTypes
  /\ RowsInv /\ HandsInv /\ SettledInv /\ ScheduleInv
-----------------------------------------------------------------------------
\* A finite set of integers has a smallest and a largest element.
LEMMA Smallest ==
  ASSUME NEW S \in SUBSET Int, IsFiniteSet(S), S # {}
  PROVE  \E x \in S : \A y \in S : x <= y
<1> DEFINE UpTo(x) == {y \in S : y <= x}
           T == {UpTo(x) : x \in S}
<1>1. IsWellFoundedOn(StrictSubsetOrdering(S), FiniteSubsetsOf(S))
      BY FS_StrictSubsetOrderingWellFounded
<1>2. T \subseteq FiniteSubsetsOf(S)
      BY FS_FiniteSubsetsOfFinite
<1>3. T # {}
      OBVIOUS
<1>4. PICK t \in T : \A u \in T : ~ (<<u, t>> \in StrictSubsetOrdering(S))
      BY <1>1, <1>2, <1>3, WFMin, Zenon
<1>5. PICK x \in S : t = UpTo(x)
      OBVIOUS
<1>6. ASSUME NEW y \in S, ~(x <= y) PROVE FALSE
  <2>1. UpTo(y) \subseteq UpTo(x) /\ x \in UpTo(x) /\ x \notin UpTo(y)
    <3>1. x \in Int /\ y \in Int /\ \A z \in S : z \in Int
          BY <1>5
    <3>2. \A z \in S : z <= y => z <= x
          BY <1>6, <3>1
    <3>3. UpTo(y) \subseteq UpTo(x)
          BY <3>2
    <3>4. x \in UpTo(x)
          BY <3>1, <1>5
    <3>5. x \notin UpTo(y)
          BY <1>6
    <3>. QED BY <3>3, <3>4, <3>5
  <2>2. UpTo(y) \in T /\ UpTo(y) \in SUBSET S /\ UpTo(x) \in SUBSET S
        OBVIOUS
  <2>3. <<UpTo(y), UpTo(x)>> \in StrictSubsetOrdering(S)
        BY <2>1, <2>2 DEF StrictSubsetOrdering
  <2>. QED BY <1>4, <1>5, <2>2, <2>3
<1>. QED BY <1>6

\* As does the set turned round.
LEMMA Largest ==
  ASSUME NEW S \in SUBSET Int, IsFiniteSet(S), S # {}
  PROVE  \E x \in S : \A y \in S : y <= x
<1> DEFINE From(x) == {y \in S : x <= y}
           T == {From(x) : x \in S}
<1>1. IsWellFoundedOn(StrictSubsetOrdering(S), FiniteSubsetsOf(S))
      BY FS_StrictSubsetOrderingWellFounded
<1>2. T \subseteq FiniteSubsetsOf(S)
      BY FS_FiniteSubsetsOfFinite
<1>3. T # {}
      OBVIOUS
<1>4. PICK t \in T : \A u \in T : ~ (<<u, t>> \in StrictSubsetOrdering(S))
      BY <1>1, <1>2, <1>3, WFMin, Zenon
<1>5. PICK x \in S : t = From(x)
      OBVIOUS
<1>6. ASSUME NEW y \in S, ~(y <= x) PROVE FALSE
  <2>1. From(y) \subseteq From(x) /\ x \in From(x) /\ x \notin From(y)
    <3>1. x \in Int /\ y \in Int /\ \A z \in S : z \in Int
          BY <1>5
    <3>2. \A z \in S : y <= z => x <= z
          BY <1>6, <3>1
    <3>3. From(y) \subseteq From(x)
          BY <3>2
    <3>4. x \in From(x)
          BY <3>1, <1>5
    <3>5. x \notin From(y)
          BY <1>6
    <3>. QED BY <3>3, <3>4, <3>5
  <2>2. From(y) \in T /\ From(y) \in SUBSET S /\ From(x) \in SUBSET S
        OBVIOUS
  <2>3. <<From(y), From(x)>> \in StrictSubsetOrdering(S)
        BY <2>1, <2>2 DEF StrictSubsetOrdering
  <2>. QED BY <1>4, <1>5, <2>2, <2>3
<1>. QED BY <1>6

\* What the clock has reached is an instant that a name can carry.
LEMMA ClockIsInstant ==
  ASSUME ClockTypes
  PROVE  clock \in Instants /\ 0 \in Instants
BY BackupAssumption DEF ClockTypes

\* Within its horizon the schedule names finitely many instants.
LEMMA DueIsFinite == IsFiniteSet(Due) /\ \A S \in SUBSET Due : S \in SUBSET Int /\ IsFiniteSet(S)
<1>1. Due \subseteq 0 .. MaxClock + 2 * MaxStarts /\ MaxClock + 2 * MaxStarts \in Int /\ 0 \in Int
  BY BackupAssumption
<1>2. IsFiniteSet(0 .. MaxClock + 2 * MaxStarts)
  BY <1>1, FS_Interval
<1>3. IsFiniteSet(Due)
  BY <1>1, <1>2, FS_Subset
<1>4. \A S \in SUBSET Due : S \in SUBSET Int
  BY <1>1
<1> QED
  BY <1>3, <1>4, FS_Subset

\* The instant last due, and the one due next.
LEMMA PreviousIsLatest ==
  ASSUME NEW t \in Nat
  PROVE  /\ Previous(t) \in Due \cup {0} /\ Previous(t) <= t
         /\ \A u \in Due : u <= t => u <= Previous(t)
<1> DEFINE S == {u \in Due : u <= t}
<1>1. CASE S = {}
  BY <1>1 DEF Previous
<1>2. CASE S # {}
  <2>1. \E x \in S : \A y \in S : y <= x
    BY <1>2, DueIsFinite, Largest
  <2>2. Latest(S) \in S /\ \A y \in S : y <= Latest(S)
    BY <2>1 DEF Latest
  <2>3. Previous(t) = Latest(S)
    BY <1>2 DEF Previous
  <2> QED
    BY <2>2, <2>3
<1> QED
  BY <1>1, <1>2

\* The instant due next lies ahead, if there is one.
LEMMA FollowingIsLater ==
  ASSUME NEW t \in Nat
  PROVE  Following(t) = 0 \/ (Following(t) \in Due /\ Following(t) > t)
<1> DEFINE S == {u \in Due : u > t}
<1>1. CASE S = {}
  BY <1>1 DEF Following
<1>2. CASE S # {}
  <2>1. \E x \in S : \A y \in S : x <= y
    BY <1>2, DueIsFinite, Smallest
  <2>2. \E u \in Due : u > t /\ \A v \in Due : v > t => u <= v
    BY <2>1
  <2> QED
    BY <2>2 DEF Following
<1> QED
  BY <1>1, <1>2

\* The row a run begins with, and what is trimmed to make room for it.
LEMMA StartRunRows ==
  ASSUME ClockTypes, RowTypes, NEW r \in Runs, NEW trig \in {"manual", "schedule"},
         StartRun(r, trig)
  PROVE  /\ rows' \in [Runs -> RowStates] /\ Running(r)'
         /\ rows'[r] = [status |-> "running", trig |-> trig, at |-> clock]
         /\ \A s \in Runs \ {r} : rows'[s] \in {rows[s], NoRow}
<1> DEFINE new == [status |-> "running", trig |-> trig, at |-> clock]
           rs == [rows EXCEPT ![r] = new]
<1>1. clock \in Instants /\ 0 \in Instants
  BY ClockIsInstant
<1>2. new \in RowStates /\ NoRow \in RowStates
  BY <1>1 DEF RowStates, Statuses, NoRow
<1>3. rs \in [Runs -> RowStates] /\ rs[r] = new /\ \A s \in Runs \ {r} : rs[s] = rows[s]
  BY <1>2 DEF RowTypes
<1>4. rows' = [s \in Runs |-> IF rs[s].status = "running" \/ s \in Newest(rs) THEN rs[s] ELSE NoRow]
  BY DEF StartRun, Trimmed
<1>5. rs[r].status = "running"
  BY <1>3
<1> HIDE DEF rs
<1> QED
  BY <1>2, <1>3, <1>4, <1>5 DEF Running

\* How a run ended is written in its own row, if that says it is running.
LEMMA FinishRunRows ==
  ASSUME RowTypes, NEW r \in Runs, NEW status \in Statuses, FinishRun(r, status)
  PROVE  /\ rows' \in [Runs -> RowStates]
         /\ Running(r)' => status = "running"
         /\ \A s \in Runs \ {r} : rows'[s] = rows[s]
         /\ Running(r) => rows'[r] = [rows[r] EXCEPT !.status = status]
         /\ ~Running(r) => rows'[r] = rows[r]
BY DEF RowTypes, RowStates, Statuses, FinishRun, Running

\* What the sweep at startup does to the rows.
LEMMA InterruptedRows ==
  ASSUME RowTypes, MarkInterrupted
  PROVE  /\ rows' \in [Runs -> RowStates]
         /\ \A r \in Runs : rows'[r] = IF Interrupts(r)
                                       THEN [rows[r] EXCEPT !.status = "interrupted"]
                                       ELSE rows[r]
BY DEF RowTypes, RowStates, Statuses, MarkInterrupted

\* The worker, wherever it begins again.
LEMMA WorkerIsTyped ==
  ASSUME ClockTypes, NEW at \in WorkerPcs
  PROVE  Worker(at) \in WorkerStates
BY ClockIsInstant DEF Worker, WorkerStates

\* The steps of the worker that only move it on.
LEMMA GotoIsTyped ==
  ASSUME WorkerType, NEW at \in WorkerPcs, Goto(at)
  PROVE  WorkerType'
BY DEF WorkerType, WorkerStates, Goto

\* Every place the worker can be at.
LEMMA WorkerPcsAre ==
  {"sweep", "catchUp", "arm", "select", "check", "insert", "gone", "post", "drain", "write", "read",
   "send", "prune", "settle"} \subseteq WorkerPcs
BY DEF WorkerPcs, Working

\* Whether a row is settled or not, no other row is touched.
LEMMA SettleRows ==
  ASSUME RowTypes, NEW r \in Runs, NEW status \in Statuses \ {"running"}, NEW live,
         Settle(r, status, live)
  PROVE  /\ rows' \in [Runs -> RowStates] /\ orphaned' \subseteq orphaned \cup {r}
         /\ orphaned \subseteq orphaned'
         /\ \A s \in Runs \ {r} : rows'[s] = rows[s]
         /\ rows'[r] = rows[r] \/ (Running(r) /\ rows'[r] = [rows[r] EXCEPT !.status = status])
         /\ live => ~Running(r)' \/ r \in orphaned'
<1>1. CASE FinishRun(r, status) /\ UNCHANGED orphaned
  <2>1. status \in Statuses /\ status # "running"
    OBVIOUS
  <2>2. ~Running(r)'
    BY <1>1, <2>1, FinishRunRows
  <2>3. rows' \in [Runs -> RowStates] /\ \A s \in Runs \ {r} : rows'[s] = rows[s]
    BY <1>1, <2>1, FinishRunRows
  <2>4. rows'[r] = rows[r] \/ (Running(r) /\ rows'[r] = [rows[r] EXCEPT !.status = status])
    BY <1>1, <2>1, FinishRunRows
  <2> QED
    BY <1>1, <2>2, <2>3, <2>4
<1>2. CASE live /\ orphaned' = orphaned \cup {r} /\ UNCHANGED rows
  BY <1>2 DEF RowTypes
<1>3. CASE ~live /\ UNCHANGED <<rows, orphaned>>
  BY <1>3 DEF RowTypes
<1> QED
  BY <1>1, <1>2, <1>3 DEF Settle

\* Only an administrator's edit, the clock, a stop and a start touch the clock, the
\* process and the settings: the other steps spend a fault at most.
LEMMA ClockTypesKept ==
  ASSUME ClockTypes, UNCHANGED <<clock, settings, process>>, UNCHANGED faults \/ Fault,
         wake' \in {wake, FALSE}
  PROVE  ClockTypes'
<1>1. faults' \in 0 .. MaxFaults
  BY BackupAssumption DEF ClockTypes, Fault
<1> QED
  BY <1>1 DEF ClockTypes, settings, process

\* Every step keeps the types of the clock, the process and the settings.
LEMMA ClockTypesHold ==
  ASSUME ClockTypes, [Next]_vars
  PROVE  ClockTypes'
<1> USE BackupAssumption
<1>1. ASSUME Sweep PROVE ClockTypes'
  BY <1>1, ClockTypesKept DEF Sweep
<1>2. ASSUME CatchUp PROVE ClockTypes'
  BY <1>2, ClockTypesKept DEF CatchUp, Fails
<1>3. ASSUME Arm PROVE ClockTypes'
  BY <1>3, ClockTypesKept DEF Arm
<1>4. ASSUME Woken PROVE ClockTypes'
  BY <1>4, ClockTypesKept DEF Woken
<1>5. ASSUME TakesManual PROVE ClockTypes'
  BY <1>5, ClockTypesKept DEF TakesManual
<1>6. ASSUME TimerFires PROVE ClockTypes'
  BY <1>6, ClockTypesKept DEF TimerFires
<1>7. ASSUME Leaves PROVE ClockTypes'
  BY <1>7, ClockTypesKept DEF Leaves
<1>8. ASSUME FireChecks PROVE ClockTypes'
  BY <1>8, ClockTypesKept DEF FireChecks
<1>9. ASSUME FireInserts PROVE ClockTypes'
  BY <1>9, ClockTypesKept DEF FireInserts
<1>10. ASSUME FirePosts PROVE ClockTypes'
  BY <1>10, ClockTypesKept DEF FirePosts, Settle
<1>11. ASSUME Drain PROVE ClockTypes'
  BY <1>11, ClockTypesKept DEF Drain
<1>12. ASSUME Writes PROVE ClockTypes'
  BY <1>12, ClockTypesKept DEF Writes, Fails
<1>13. ASSUME ReadsDestinations PROVE ClockTypes'
  BY <1>13, ClockTypesKept DEF ReadsDestinations, Fails
<1>14. ASSUME Sent PROVE ClockTypes'
  BY <1>14, ClockTypesKept DEF Sent
<1>15. ASSUME Settles PROVE ClockTypes'
  BY <1>15, ClockTypesKept DEF Settles, Settle
<1>16. ASSUME NEW d \in Dests, Puts(d) PROVE ClockTypes'
  BY <1>16, ClockTypesKept DEF Puts, Fails
<1>17. ASSUME NEW d \in Dests, Prunes(d) PROVE ClockTypes'
  BY <1>17, ClockTypesKept DEF Prunes, Fails
<1>18. ASSUME NEW c \in Callers, Checks(c) PROVE ClockTypes'
  BY <1>18, ClockTypesKept DEF Checks
<1>19. ASSUME NEW c \in Callers, Inserts(c) PROVE ClockTypes'
  BY <1>19, ClockTypesKept DEF Inserts
<1>20. ASSUME NEW c \in Callers, Posts(c) PROVE ClockTypes'
  BY <1>20, ClockTypesKept DEF Posts, Settle
<1>21. ASSUME NEW d \in Dests, SwitchDestination(d) PROVE ClockTypes'
  BY <1>21 DEF SwitchDestination, Edit, ClockTypes, settings, process
<1>22. ASSUME SwitchSchedule PROVE ClockTypes'
  BY <1>22 DEF SwitchSchedule, Edit, ClockTypes, settings, process
<1>23. ASSUME Tick PROVE ClockTypes'
  BY <1>23 DEF Tick, ClockTypes, settings, process
<1>24. ASSUME Stop PROVE ClockTypes'
  BY <1>24 DEF Stop, ClockTypes, settings, process
<1>25. ASSUME Ends PROVE ClockTypes'
  BY <1>25 DEF Ends, ClockTypes, settings, process
<1>26. ASSUME Starts PROVE ClockTypes'
  BY <1>26 DEF Starts, ClockTypes, settings, process
<1>27. CASE UNCHANGED vars
  BY <1>27 DEF vars, ClockTypes, settings, process
<1> QED
  BY <1>1, <1>2, <1>3, <1>4, <1>5, <1>6, <1>7, <1>8, <1>9, <1>10, <1>11, <1>12, <1>13, <1>14,
     <1>15, <1>16, <1>17, <1>18, <1>19, <1>20, <1>21, <1>22, <1>23, <1>24, <1>25, <1>26, <1>27 DEF
     Next, WorkerStep

\* Every step keeps the types of the rows.
LEMMA RowTypesHold ==
  ASSUME ClockTypes, RowTypes, HandsInv, [Next]_vars
  PROVE  RowTypes'
<1> USE BackupAssumption
<1>1. ASSUME Sweep PROVE RowTypes'
  <2>1. CASE MarkInterrupted /\ UNCHANGED orphaned
    BY <1>1, <2>1, InterruptedRows DEF Sweep, RowTypes
  <2>2. CASE orphaned' \subseteq Runs /\ UNCHANGED rows
    BY <1>1, <2>2 DEF Sweep, RowTypes
  <2> QED
    BY <1>1, <2>1, <2>2 DEF Sweep, RowTypes
<1>2. ASSUME FireInserts PROVE RowTypes'
  <2>1. CASE issued < MaxRuns /\ StartRun(issued + 1, "schedule")
    <3>1. issued + 1 \in Runs
      BY <2>1 DEF RowTypes, Runs
    <3>2. rows' \in [Runs -> RowStates]
      BY <2>1, <3>1, StartRunRows
    <3>3. Previous(clock) \in Due \cup {0}
      BY PreviousIsLatest DEF ClockTypes
    <3>4. taken' \subseteq Due \cup {0} /\ UNCHANGED orphaned
      BY <2>1, <3>3 DEF StartRun, RowTypes
    <3>5. issued' = issued + 1 /\ owner' = [owner EXCEPT ![issued + 1] = starts]
      BY <2>1 DEF StartRun
    <3>6. starts \in 0 .. MaxStarts
      BY DEF ClockTypes
    <3>7. owner' \in [Runs -> 0 .. MaxStarts]
      BY <3>1, <3>5, <3>6 DEF RowTypes
    <3>8. issued' \in 0 .. MaxRuns
      BY <3>1, <3>5 DEF Runs
    <3> QED
      BY <3>2, <3>4, <3>7, <3>8 DEF RowTypes
  <2>2. CASE UNCHANGED runVars
    BY <2>2 DEF runVars, RowTypes
  <2> QED
    BY <1>2, <2>1, <2>2 DEF FireInserts
<1>3. ASSUME FirePosts PROVE RowTypes'
  <2>1. CASE UNCHANGED <<rows, orphaned>>
    BY <1>3, <2>1 DEF FirePosts, RowTypes
  <2>2. CASE Settle(worker.run, "failed", host = "up")
    <3>1. worker.run \in Runs
      BY <1>3 DEF FirePosts, At, HandsInv, Tokens, Working
    <3> QED
      <4>1. "failed" \in Statuses \ {"running"}
        BY DEF Statuses
      <4>2. rows' \in [Runs -> RowStates] /\ orphaned' \subseteq orphaned \cup {worker.run}
        BY <2>2, <3>1, <4>1, SettleRows
      <4> QED
        BY <1>3, <3>1, <4>2 DEF FirePosts, RowTypes
  <2> QED
    BY <1>3, <2>1, <2>2 DEF FirePosts
<1>4. ASSUME Settles PROVE RowTypes'
  <2>1. worker.run \in Runs /\ Verdict \in Statuses \ {"running"}
    BY <1>4 DEF Settles, At, HandsInv, Tokens, Working, Verdict, Statuses
  <2>2. Settle(worker.run, Verdict, host = "up") /\ UNCHANGED <<issued, owner, taken>>
    BY <1>4 DEF Settles
  <2>3. rows' \in [Runs -> RowStates] /\ orphaned' \subseteq orphaned \cup {worker.run}
    BY <2>1, <2>2, SettleRows
  <2> QED
    BY <2>1, <2>2, <2>3 DEF RowTypes
<1>5. ASSUME NEW c \in Callers, Inserts(c) PROVE RowTypes'
  <2>1. CASE issued < MaxRuns /\ StartRun(issued + 1, "manual")
    <3>1. issued + 1 \in Runs
      BY <2>1 DEF RowTypes, Runs
    <3>2. rows' \in [Runs -> RowStates]
      BY <2>1, <3>1, StartRunRows
    <3>3. Previous(clock) \in Due \cup {0}
      BY PreviousIsLatest DEF ClockTypes
    <3>4. taken' \subseteq Due \cup {0} /\ UNCHANGED orphaned
      BY <2>1, <3>3 DEF StartRun, RowTypes
    <3>5. issued' = issued + 1 /\ owner' = [owner EXCEPT ![issued + 1] = starts]
      BY <2>1 DEF StartRun
    <3>6. starts \in 0 .. MaxStarts
      BY DEF ClockTypes
    <3>7. owner' \in [Runs -> 0 .. MaxStarts]
      BY <3>1, <3>5, <3>6 DEF RowTypes
    <3>8. issued' \in 0 .. MaxRuns
      BY <3>1, <3>5 DEF Runs
    <3> QED
      BY <3>2, <3>4, <3>7, <3>8 DEF RowTypes
  <2>2. CASE UNCHANGED runVars
    BY <2>2 DEF runVars, RowTypes
  <2> QED
    BY <1>5, <2>1, <2>2 DEF Inserts
<1>6. ASSUME NEW c \in Callers, Posts(c) PROVE RowTypes'
  <2>1. CASE UNCHANGED <<rows, orphaned>>
    BY <1>6, <2>1 DEF Posts, RowTypes
  <2>2. CASE Settle(caller[c].run, "failed", TRUE)
    <3>1. caller[c].run \in Runs
      BY <1>6 DEF Posts, HandsInv, Tokens
    <3> QED
      BY <1>6, <2>2, <3>1, SettleRows DEF Posts, RowTypes, Statuses
  <2> QED
    BY <1>6, <2>1, <2>2 DEF Posts
<1> USE DEF runVars, atDests, settings, process, RowTypes
<1>7. ASSUME CatchUp PROVE RowTypes'
  BY <1>7 DEF CatchUp, Goto, At
<1>8. ASSUME Arm PROVE RowTypes'
  BY <1>8 DEF Arm, Worker, At
<1>9. ASSUME Woken PROVE RowTypes'
  BY <1>9 DEF Woken, Rearm, Worker, At
<1>10. ASSUME TakesManual PROVE RowTypes'
  BY <1>10 DEF TakesManual, Worker, At
<1>11. ASSUME TimerFires PROVE RowTypes'
  BY <1>11 DEF TimerFires, Goto, At
<1>12. ASSUME Leaves PROVE RowTypes'
  BY <1>12 DEF Leaves, Goto, At
<1>13. ASSUME FireChecks PROVE RowTypes'
  BY <1>13 DEF FireChecks, Goto, Rearm, Worker, At
<1>14. ASSUME Drain PROVE RowTypes'
  BY <1>14 DEF Drain, Goto, At
<1>15. ASSUME Writes PROVE RowTypes'
  BY <1>15 DEF Writes, At, Fails, Fault
<1>16. ASSUME ReadsDestinations PROVE RowTypes'
  BY <1>16 DEF ReadsDestinations, At, Fails, Fault
<1>17. ASSUME Sent PROVE RowTypes'
  BY <1>17 DEF Sent, Goto, At
<1>18. ASSUME NEW d \in Dests, Puts(d) PROVE RowTypes'
  BY <1>18 DEF Puts, At, Fails, Fault
<1>19. ASSUME NEW d \in Dests, Prunes(d) PROVE RowTypes'
  BY <1>19 DEF Prunes, At, Fails, Fault
<1>20. ASSUME NEW c \in Callers, Checks(c) PROVE RowTypes'
  BY <1>20 DEF Checks
<1>21. ASSUME NEW d \in Dests, SwitchDestination(d) PROVE RowTypes'
  BY <1>21 DEF SwitchDestination, Edit
<1>22. ASSUME SwitchSchedule PROVE RowTypes'
  BY <1>22 DEF SwitchSchedule, Edit
<1>23. ASSUME Tick PROVE RowTypes'
  BY <1>23 DEF Tick
<1>24. ASSUME Stop PROVE RowTypes'
  BY <1>24 DEF Stop
<1>25. ASSUME Ends PROVE RowTypes'
  BY <1>25 DEF Ends, Worker, IdleCaller
<1>26. ASSUME Starts PROVE RowTypes'
  BY <1>26 DEF Starts, Worker
<1>27. CASE UNCHANGED vars
  BY <1>27 DEF vars
<1> QED
  BY <1>1, <1>2, <1>3, <1>4, <1>5, <1>6, <1>7, <1>8, <1>9, <1>10, <1>11, <1>12, <1>13, <1>14,
     <1>15, <1>16, <1>17, <1>18, <1>19, <1>20, <1>21, <1>22, <1>23, <1>24, <1>25, <1>26, <1>27 DEF
     Next, WorkerStep

\* Every step keeps the type of the worker.
LEMMA WorkerTypeHolds ==
  ASSUME ClockTypes, RowTypes, WorkerType, HandTypes, HeldTypes, [Next]_vars
  PROVE  WorkerType'
<1> USE BackupAssumption
<1>1. ASSUME Sweep PROVE WorkerType'
  BY <1>1, GotoIsTyped, WorkerPcsAre DEF Sweep
<1>2. ASSUME CatchUp PROVE WorkerType'
  BY <1>2, GotoIsTyped, WorkerPcsAre DEF CatchUp
<1>3. ASSUME Arm PROVE WorkerType'
  <2>1. Worker("select") \in WorkerStates
    BY WorkerIsTyped, WorkerPcsAre
  <2>2. Following(clock) \in Due \cup {0}
    BY FollowingIsLater DEF ClockTypes
  <2> QED
    BY <1>3, <2>1, <2>2 DEF Arm, WorkerType, WorkerStates
<1>4. ASSUME Woken PROVE WorkerType'
  BY <1>4, WorkerIsTyped, WorkerPcsAre DEF Woken, Rearm, WorkerType
<1>5. ASSUME TakesManual PROVE WorkerType'
  <2>1. Worker("write") \in WorkerStates
    BY WorkerIsTyped, WorkerPcsAre
  <2>2. manual[1] \in Runs
    BY <1>5 DEF TakesManual, HandTypes
  <2> QED
    BY <1>5, <2>1, <2>2 DEF TakesManual, WorkerType, WorkerStates
<1>6. ASSUME TimerFires PROVE WorkerType'
  BY <1>6, GotoIsTyped, WorkerPcsAre DEF TimerFires
<1>7. ASSUME Leaves PROVE WorkerType'
  BY <1>7, GotoIsTyped, WorkerPcsAre DEF Leaves
<1>8. ASSUME FireChecks PROVE WorkerType'
  BY <1>8, GotoIsTyped, WorkerIsTyped, WorkerPcsAre DEF FireChecks, Rearm, WorkerType
<1>9. ASSUME FireInserts PROVE WorkerType'
  <2>1. Worker("post") \in WorkerStates /\ Worker("arm") \in WorkerStates
    BY WorkerIsTyped, WorkerPcsAre
  <2>2. issued < MaxRuns => issued + 1 \in Runs
    BY DEF RowTypes, Runs
  <2>3. CASE issued < MaxRuns /\
        worker' = [Worker("post") EXCEPT !.run = issued + 1, !.trig = "schedule"]
    BY ZenonT(30), <2>1, <2>2, <2>3 DEF WorkerType, WorkerStates
  <2> QED
    BY <1>9, <2>1, <2>3 DEF FireInserts, Rearm, WorkerType
<1>10. ASSUME FirePosts PROVE WorkerType'
  BY <1>10, GotoIsTyped, WorkerIsTyped, WorkerPcsAre DEF FirePosts, Rearm, WorkerType
<1>11. ASSUME Drain PROVE WorkerType'
  BY <1>11, GotoIsTyped, WorkerPcsAre DEF Drain
<1>12. ASSUME Writes PROVE WorkerType'
  <2>1. clock \in Instants
    BY ClockIsInstant
  <2> QED
    BY <1>12, <2>1, WorkerPcsAre DEF Writes, WorkerType, WorkerStates
<1>13. ASSUME ReadsDestinations PROVE WorkerType'
  BY ZenonT(30), <1>13, WorkerPcsAre DEF ReadsDestinations, ClockTypes, WorkerType, WorkerStates
<1>14. ASSUME Sent PROVE WorkerType'
  BY <1>14, WorkerPcsAre DEF Sent, WorkerType, WorkerStates
<1>15. ASSUME Settles PROVE WorkerType'
  BY <1>15, WorkerIsTyped, WorkerPcsAre DEF Settles, Rearm, WorkerType
<1>16. ASSUME NEW d \in Dests, Puts(d) PROVE WorkerType'
  <2>1. CASE worker' = [worker EXCEPT !.pc = "prune", !.cur = d, !.left = worker.left \ {d}]
    BY <2>1, WorkerPcsAre DEF WorkerType, WorkerStates
  <2>2. CASE worker' = [worker EXCEPT !.left = worker.left \ {d}, !.missed = worker.missed \cup {d}]
    <3>1. worker.left \ {d} \subseteq Dests /\ worker.missed \cup {d} \subseteq Dests
      BY DEF WorkerType, WorkerStates
    <3> QED
      BY <2>2, <3>1 DEF WorkerType, WorkerStates
  <2> QED
    BY <1>16, <2>1, <2>2 DEF Puts
<1>17. ASSUME NEW d \in Dests, Prunes(d) PROVE WorkerType'
  <2>1. PICK listing \in SUBSET held[d] : Lists(listing)
    BY <1>17 DEF Prunes
  <2>2. listing \in SUBSET Archives
    BY <2>1 DEF HeldTypes
  <2>3. worker.cur \in Dests
    BY <1>17 DEF Prunes
  <2> QED
    BY <2>1, <2>2, <2>3, WorkerPcsAre DEF Lists, WorkerType, WorkerStates
<1>18. ASSUME Ends PROVE WorkerType'
  BY <1>18, WorkerIsTyped, WorkerPcsAre DEF Ends, WorkerType
<1>19. ASSUME Starts PROVE WorkerType'
  BY <1>19, WorkerIsTyped, WorkerPcsAre DEF Starts, WorkerType
<1> USE DEF runVars, atDests, settings, process, WorkerType
<1>20. ASSUME NEW c \in Callers, Checks(c) PROVE WorkerType'
  BY <1>20 DEF Checks
<1>21. ASSUME NEW c \in Callers, Inserts(c) PROVE WorkerType'
  BY <1>21 DEF Inserts, IdleCaller
<1>22. ASSUME NEW c \in Callers, Posts(c) PROVE WorkerType'
  BY <1>22 DEF Posts, Settle, FinishRun, Fault, IdleCaller
<1>23. ASSUME NEW d \in Dests, SwitchDestination(d) PROVE WorkerType'
  BY <1>23 DEF SwitchDestination, Edit
<1>24. ASSUME SwitchSchedule PROVE WorkerType'
  BY <1>24 DEF SwitchSchedule, Edit
<1>25. ASSUME Tick PROVE WorkerType'
  BY <1>25 DEF Tick
<1>26. ASSUME Stop PROVE WorkerType'
  BY <1>26 DEF Stop
<1>27. CASE UNCHANGED vars
  BY <1>27 DEF vars
<1> QED
  BY <1>1, <1>2, <1>3, <1>4, <1>5, <1>6, <1>7, <1>8, <1>9, <1>10, <1>11, <1>12, <1>13, <1>14,
     <1>15, <1>16, <1>17, <1>18, <1>19, <1>20, <1>21, <1>22, <1>23, <1>24, <1>25, <1>26, <1>27 DEF
     Next, WorkerStep

\* Every step keeps the types of the channel and of the requests.
LEMMA HandTypesHold ==
  ASSUME RowTypes, HandTypes, HandsInv, [Next]_vars
  PROVE  HandTypes'
<1> USE BackupAssumption
<1>1. ASSUME FirePosts PROVE HandTypes'
  <2>1. worker.run \in Runs
    BY <1>1 DEF FirePosts, At, HandsInv, Tokens, Working
  <2> QED
    BY <1>1, <2>1 DEF FirePosts, HandTypes
<1>2. ASSUME NEW c \in Callers, Checks(c) PROVE HandTypes'
  BY <1>2 DEF Checks, HandTypes, CallerStates
<1>3. ASSUME NEW c \in Callers, Inserts(c) PROVE HandTypes'
  <2>1. issued < MaxRuns => issued + 1 \in Runs
    BY DEF RowTypes, Runs
  <2> QED
    BY <1>3, <2>1 DEF Inserts, IdleCaller, HandTypes, CallerStates
<1>4. ASSUME NEW c \in Callers, Posts(c) PROVE HandTypes'
  <2>1. caller[c].run \in Runs
    BY <1>4 DEF Posts, HandsInv, Tokens
  <2> QED
    BY <1>4, <2>1 DEF Posts, IdleCaller, HandTypes, CallerStates
<1>5. ASSUME Ends PROVE HandTypes'
  BY <1>5 DEF Ends, IdleCaller, HandTypes, CallerStates
<1> USE DEF runVars, atDests, settings, process, HandTypes
<1>6. ASSUME Sweep PROVE HandTypes'
  BY <1>6 DEF Sweep, MarkInterrupted, Interrupts, Goto, At, Fault
<1>7. ASSUME CatchUp PROVE HandTypes'
  BY <1>7 DEF CatchUp, Goto, At
<1>8. ASSUME Arm PROVE HandTypes'
  BY <1>8 DEF Arm, Worker, At
<1>9. ASSUME Woken PROVE HandTypes'
  BY <1>9 DEF Woken, Rearm, Worker, At
<1>10. ASSUME TakesManual PROVE HandTypes'
  BY <1>10 DEF TakesManual, Worker, At
<1>11. ASSUME TimerFires PROVE HandTypes'
  BY <1>11 DEF TimerFires, Goto, At
<1>12. ASSUME Leaves PROVE HandTypes'
  BY <1>12 DEF Leaves, Goto, At
<1>13. ASSUME FireChecks PROVE HandTypes'
  BY <1>13 DEF FireChecks, Goto, Rearm, Worker, At
<1>14. ASSUME FireInserts PROVE HandTypes'
  BY <1>14 DEF FireInserts, Worker, Rearm, At
<1>15. ASSUME Drain PROVE HandTypes'
  BY <1>15 DEF Drain, Goto, At
<1>16. ASSUME Writes PROVE HandTypes'
  BY <1>16 DEF Writes, At, Fails, Fault
<1>17. ASSUME ReadsDestinations PROVE HandTypes'
  BY <1>17 DEF ReadsDestinations, At, Fails, Fault
<1>18. ASSUME Sent PROVE HandTypes'
  BY <1>18 DEF Sent, Goto, At
<1>19. ASSUME Settles PROVE HandTypes'
  BY <1>19 DEF Settles, At, Rearm, Worker, Settle, FinishRun, Fault, Verdict
<1>20. ASSUME NEW d \in Dests, Puts(d) PROVE HandTypes'
  BY <1>20 DEF Puts, At, Fails, Fault
<1>21. ASSUME NEW d \in Dests, Prunes(d) PROVE HandTypes'
  BY <1>21 DEF Prunes, At, Fails, Fault
<1>22. ASSUME NEW d \in Dests, SwitchDestination(d) PROVE HandTypes'
  BY <1>22 DEF SwitchDestination, Edit
<1>23. ASSUME SwitchSchedule PROVE HandTypes'
  BY <1>23 DEF SwitchSchedule, Edit
<1>24. ASSUME Tick PROVE HandTypes'
  BY <1>24 DEF Tick
<1>25. ASSUME Stop PROVE HandTypes'
  BY <1>25 DEF Stop
<1>26. ASSUME Starts PROVE HandTypes'
  BY <1>26 DEF Starts, Worker
<1>27. CASE UNCHANGED vars
  BY <1>27 DEF vars
<1> QED
  BY <1>1, <1>2, <1>3, <1>4, <1>5, <1>6, <1>7, <1>8, <1>9, <1>10, <1>11, <1>12, <1>13, <1>14,
     <1>15, <1>16, <1>17, <1>18, <1>19, <1>20, <1>21, <1>22, <1>23, <1>24, <1>25, <1>26, <1>27 DEF
     Next, WorkerStep

\* Every step keeps the types of what is held, and holds finitely many.
LEMMA HeldTypesHold ==
  ASSUME WorkerType, HandsInv, HeldTypes, [Next]_vars
  PROVE  HeldTypes'
<1> USE BackupAssumption
<1>1. ASSUME NEW d \in Dests, Puts(d) PROVE HeldTypes'
  <2>1. worker.at \in Instants /\ worker.run \in Runs
    BY <1>1 DEF Puts, At, WorkerType, WorkerStates, HandsInv, Tokens, Working
  <2>2. Archive \in Archives
    BY <2>1, RetentionAssumption DEF Archive, Archives
  <2>3. held[d] \in SUBSET Archives /\ IsFiniteSet(held[d])
    BY DEF HeldTypes
  <2>4. held[d] \cup {Archive} \in SUBSET Archives /\ IsFiniteSet(held[d] \cup {Archive})
    BY <2>2, <2>3, FS_AddElement
  <2> QED
    BY <1>1, <2>4 DEF Puts, HeldTypes
<1>2. ASSUME NEW d \in Dests, Prunes(d) PROVE HeldTypes'
  <2>1. PICK gone \in SUBSET held[d] : held' = [held EXCEPT ![d] = held[d] \ gone]
    <3>1. \A listing \in SUBSET held[d] : Doomed(d, listing) \subseteq held[d]
      BY DEF Doomed, Remove, Ours
    <3>2. CASE held' = [held EXCEPT ![d] = held[d] \ Doomed(d, held[d])]
      BY <3>1, <3>2
    <3>3. CASE UNCHANGED held
      <4>1. held = [held EXCEPT ![d] = held[d] \ {}]
        BY DEF HeldTypes
      <4> QED
        BY <3>3, <4>1
    <3>4. CASE \E listing \in SUBSET held[d] : \E gone \in SUBSET Doomed(d, listing) :
                 held' = [held EXCEPT ![d] = held[d] \ gone]
      BY <3>1, <3>4
    <3> QED
      BY <1>2, <3>2, <3>3, <3>4 DEF Prunes, atDests
  <2>2. held' \in [Dests -> SUBSET Archives]
    <3>1. held \in [Dests -> SUBSET Archives] /\ held[d] \ gone \in SUBSET Archives
      BY DEF HeldTypes
    <3> QED
      BY <2>1, <3>1
  <2>3. \A e \in Dests : held'[e] \subseteq held[e]
    BY <2>1 DEF HeldTypes
  <2>4. \A e \in Dests : IsFiniteSet(held'[e])
    BY <2>3, FS_Subset DEF HeldTypes
  <2>5. lastSeen' \in [Dests -> Nat]
    <3>1. \A listing \in SUBSET held[d] : \A b :
          Seen(listing, Archive, b) \in Nat \cup {UnknownSeen}
      <4>1. \A listing \in SUBSET held[d] : IsFiniteSet(Ours(listing))
        BY FS_Subset DEF HeldTypes, Ours
      <4> QED
        BY <4>1, FS_CardinalityType DEF Seen
    <3>2. held[d] \in SUBSET held[d]
      OBVIOUS
    <3> QED
      <4>1. ASSUME NEW listing \in SUBSET held[d], Records(d, Seen(listing, Archive, lastSeen[d]))
            PROVE  lastSeen' \in [Dests -> Nat]
        BY <3>1, <4>1 DEF Records, HeldTypes
      <4>2. CASE UNCHANGED lastSeen
        BY <4>2 DEF HeldTypes
      <4> QED
        BY <1>2, <3>2, <4>1, <4>2 DEF Prunes, atDests
  <2> QED
    BY <2>2, <2>4, <2>5 DEF HeldTypes
<1> USE DEF runVars, atDests, settings, process, HeldTypes
<1>3. ASSUME Sweep PROVE HeldTypes'
  BY <1>3 DEF Sweep, MarkInterrupted, Interrupts, Goto, At, Fault
<1>4. ASSUME CatchUp PROVE HeldTypes'
  BY <1>4 DEF CatchUp, Goto, At
<1>5. ASSUME Arm PROVE HeldTypes'
  BY <1>5 DEF Arm, Worker, At
<1>6. ASSUME Woken PROVE HeldTypes'
  BY <1>6 DEF Woken, Rearm, Worker, At
<1>7. ASSUME TakesManual PROVE HeldTypes'
  BY <1>7 DEF TakesManual, Worker, At
<1>8. ASSUME TimerFires PROVE HeldTypes'
  BY <1>8 DEF TimerFires, Goto, At
<1>9. ASSUME Leaves PROVE HeldTypes'
  BY <1>9 DEF Leaves, Goto, At
<1>10. ASSUME FireChecks PROVE HeldTypes'
  BY <1>10 DEF FireChecks, Goto, Rearm, Worker, At
<1>11. ASSUME FireInserts PROVE HeldTypes'
  BY <1>11 DEF FireInserts, Worker, Rearm, At
<1>12. ASSUME FirePosts PROVE HeldTypes'
  BY <1>12 DEF FirePosts, Goto, Rearm, Worker, At, Settle, FinishRun, Fault
<1>13. ASSUME Drain PROVE HeldTypes'
  BY <1>13 DEF Drain, Goto, At
<1>14. ASSUME Writes PROVE HeldTypes'
  BY <1>14 DEF Writes, At, Fails, Fault
<1>15. ASSUME ReadsDestinations PROVE HeldTypes'
  BY <1>15 DEF ReadsDestinations, At, Fails, Fault
<1>16. ASSUME Sent PROVE HeldTypes'
  BY <1>16 DEF Sent, Goto, At
<1>17. ASSUME Settles PROVE HeldTypes'
  BY <1>17 DEF Settles, At, Rearm, Worker, Settle, FinishRun, Fault, Verdict
<1>18. ASSUME NEW c \in Callers, Checks(c) PROVE HeldTypes'
  BY <1>18 DEF Checks
<1>19. ASSUME NEW c \in Callers, Inserts(c) PROVE HeldTypes'
  BY <1>19 DEF Inserts, IdleCaller
<1>20. ASSUME NEW c \in Callers, Posts(c) PROVE HeldTypes'
  BY <1>20 DEF Posts, Settle, FinishRun, Fault, IdleCaller
<1>21. ASSUME NEW d \in Dests, SwitchDestination(d) PROVE HeldTypes'
  BY <1>21 DEF SwitchDestination, Edit
<1>22. ASSUME SwitchSchedule PROVE HeldTypes'
  BY <1>22 DEF SwitchSchedule, Edit
<1>23. ASSUME Tick PROVE HeldTypes'
  BY <1>23 DEF Tick
<1>24. ASSUME Stop PROVE HeldTypes'
  BY <1>24 DEF Stop
<1>25. ASSUME Ends PROVE HeldTypes'
  BY <1>25 DEF Ends, Worker, IdleCaller
<1>26. ASSUME Starts PROVE HeldTypes'
  BY <1>26 DEF Starts, Worker
<1>27. CASE UNCHANGED vars
  BY <1>27 DEF vars
<1> QED
  BY <1>1, <1>2, <1>3, <1>4, <1>5, <1>6, <1>7, <1>8, <1>9, <1>10, <1>11, <1>12, <1>13, <1>14,
     <1>15, <1>16, <1>17, <1>18, <1>19, <1>20, <1>21, <1>22, <1>23, <1>24, <1>25, <1>26, <1>27 DEF
     Next, WorkerStep

-----------------------------------------------------------------------------
\* Rows are settled in place, a row called interrupted having been begun before
\* this process.
LEMMA RowsSettled ==
  ASSUME ClockTypes, RowTypes, RowsInv, UNCHANGED <<clock, starts, builtAt, issued, owner>>,
         \A r \in Runs :
           \/ rows'[r] = rows[r]
           \/ \E status \in Statuses :
                /\ Running(r) /\ rows'[r] = [rows[r] EXCEPT !.status = status]
                /\ status = "interrupted" => rows[r].at < builtAt
  PROVE  RowsInv'
<1> SUFFICES ASSUME NEW r \in Runs
             PROVE  /\ r > issued => rows'[r] = NoRow
                    /\ rows'[r].status = "none" => rows'[r] = NoRow
                    /\ rows'[r].status # "none" =>
                         /\ rows'[r].at <= clock /\ owner[r] <= starts
                         /\ owner[r] < starts <=> rows'[r].at < builtAt
                    /\ rows'[r].status = "interrupted" => owner[r] < starts
  BY DEF RowsInv
<1>1. CASE rows'[r] = rows[r]
  BY <1>1 DEF RowsInv
<1>2. ASSUME NEW status \in Statuses, Running(r), rows'[r] = [rows[r] EXCEPT !.status = status],
             status = "interrupted" => rows[r].at < builtAt
      PROVE  /\ r > issued => rows'[r] = NoRow
             /\ rows'[r].status = "none" => rows'[r] = NoRow
             /\ rows'[r].status # "none" =>
                  /\ rows'[r].at <= clock /\ owner[r] <= starts
                  /\ owner[r] < starts <=> rows'[r].at < builtAt
             /\ rows'[r].status = "interrupted" => owner[r] < starts
  <2>1. rows[r] \in RowStates
    BY DEF RowTypes
  <2>2. rows'[r].status = status /\ rows'[r].at = rows[r].at /\ status # "none"
    BY <1>2, <2>1 DEF RowStates, Statuses
  <2>3. rows[r].status = "running" /\ rows[r] # NoRow
    BY <1>2 DEF Running, NoRow
  <2> QED
    BY <1>2, <2>2, <2>3 DEF RowsInv
<1> QED
  BY <1>1, <1>2

\* A row is begun by the process that runs, at an instant no earlier than its start.
LEMMA RowsStarted ==
  ASSUME ClockTypes, RowTypes, RowsInv, UNCHANGED <<clock, starts, builtAt>>, issued < MaxRuns,
         NEW trig \in {"manual", "schedule"}, StartRun(issued + 1, trig)
  PROVE  RowsInv'
<1>1. issued + 1 \in Runs /\ issued \in Nat
  BY BackupAssumption DEF RowTypes, Runs
<1>2. /\ rows'[issued + 1] = [status |-> "running", trig |-> trig, at |-> clock]
      /\ \A s \in Runs \ {issued + 1} : rows'[s] \in {rows[s], NoRow}
  BY <1>1, StartRunRows
<1>3. issued' = issued + 1 /\ owner' = [owner EXCEPT ![issued + 1] = starts]
  BY DEF StartRun
<1>4. owner'[issued + 1] = starts /\ \A s \in Runs \ {issued + 1} : owner'[s] = owner[s]
  BY <1>1, <1>3 DEF RowTypes
<1>5. clock \in Int /\ builtAt \in Int /\ builtAt <= clock /\ starts \in Int
  BY BackupAssumption DEF ClockTypes
<1> SUFFICES ASSUME NEW r \in Runs
             PROVE  /\ r > issued' => rows'[r] = NoRow
                    /\ rows'[r].status = "none" => rows'[r] = NoRow
                    /\ rows'[r].status # "none" =>
                         /\ rows'[r].at <= clock /\ owner'[r] <= starts
                         /\ owner'[r] < starts <=> rows'[r].at < builtAt
                    /\ rows'[r].status = "interrupted" => owner'[r] < starts
  BY DEF RowsInv
<1>6. CASE r = issued + 1
  BY <1>1, <1>2, <1>3, <1>4, <1>5, <1>6
<1>7. CASE r # issued + 1
  <2>1. NoRow.status = "none"
    BY DEF NoRow
  <2>2. rows'[r] \in {rows[r], NoRow} /\ owner'[r] = owner[r]
    BY <1>2, <1>4, <1>7
  <2>3. r > issued' => r > issued
    BY <1>1, <1>3 DEF Runs
  <2> QED
    BY <2>1, <2>2, <2>3 DEF RowsInv
<1> QED
  BY <1>6, <1>7

\* Every step keeps the rows and the processes that began them in order.
LEMMA RowsInvHolds ==
  ASSUME ClockTypes, RowTypes, WorkerType, HandTypes, RowsInv, HandsInv, [Next]_vars
  PROVE  RowsInv'
<1> USE BackupAssumption
<1>1. ASSUME Sweep PROVE RowsInv'
  <2>1. CASE MarkInterrupted
    BY <1>1, <2>1, InterruptedRows, RowsSettled DEF Sweep, process, Interrupts, Statuses
  <2>2. CASE UNCHANGED rows
    BY <1>1, <2>2, RowsSettled DEF Sweep, process
  <2> QED
    BY <1>1, <2>1, <2>2 DEF Sweep
<1>2. ASSUME CatchUp PROVE RowsInv'
  BY <1>2, RowsSettled DEF CatchUp, process, runVars
<1>3. ASSUME Arm PROVE RowsInv'
  BY <1>3, RowsSettled DEF Arm, process, runVars
<1>4. ASSUME Woken PROVE RowsInv'
  BY <1>4, RowsSettled DEF Woken, process, runVars
<1>5. ASSUME TakesManual PROVE RowsInv'
  BY <1>5, RowsSettled DEF TakesManual, process, runVars
<1>6. ASSUME TimerFires PROVE RowsInv'
  BY <1>6, RowsSettled DEF TimerFires, process, runVars
<1>7. ASSUME Leaves PROVE RowsInv'
  BY <1>7, RowsSettled DEF Leaves, process, runVars
<1>8. ASSUME FireChecks PROVE RowsInv'
  BY <1>8, RowsSettled DEF FireChecks, process, runVars
<1>9. ASSUME FireInserts PROVE RowsInv'
  <2>1. CASE issued < MaxRuns /\ StartRun(issued + 1, "schedule")
    BY <1>9, <2>1, RowsStarted DEF FireInserts, process
  <2>2. CASE UNCHANGED runVars
    BY <1>9, <2>2, RowsSettled DEF FireInserts, process, runVars
  <2> QED
    BY <1>9, <2>1, <2>2 DEF FireInserts
<1>10. ASSUME FirePosts PROVE RowsInv'
  <2>1. worker.run \in Runs /\ "failed" \in Statuses \ {"running", "interrupted"}
    BY <1>10 DEF FirePosts, At, HandsInv, Tokens, Working, Statuses
  <2>2. CASE Settle(worker.run, "failed", host = "up")
    <3>1. /\ \A s \in Runs \ {worker.run} : rows'[s] = rows[s]
          /\ \/ rows'[worker.run] = rows[worker.run]
             \/ /\ Running(worker.run)
                /\ rows'[worker.run] = [rows[worker.run] EXCEPT !.status = "failed"]
      BY <2>1, <2>2, SettleRows
    <3> QED
      BY <1>10, <2>1, <3>1, RowsSettled DEF FirePosts, process
  <2>3. CASE UNCHANGED rows
    BY <1>10, <2>3, RowsSettled DEF FirePosts, process
  <2> QED
    BY <1>10, <2>2, <2>3 DEF FirePosts
<1>11. ASSUME Drain PROVE RowsInv'
  BY <1>11, RowsSettled DEF Drain, process, runVars
<1>12. ASSUME Writes PROVE RowsInv'
  BY <1>12, RowsSettled DEF Writes, process, runVars
<1>13. ASSUME ReadsDestinations PROVE RowsInv'
  BY <1>13, RowsSettled DEF ReadsDestinations, process, runVars
<1>14. ASSUME Sent PROVE RowsInv'
  BY <1>14, RowsSettled DEF Sent, process, runVars
<1>15. ASSUME Settles PROVE RowsInv'
  <2>1. worker.run \in Runs /\ Verdict \in Statuses \ {"running", "interrupted"}
    BY <1>15 DEF Settles, At, HandsInv, Tokens, Working, Verdict, Statuses
  <2>2. CASE Settle(worker.run, Verdict, host = "up")
    <3>1. /\ \A s \in Runs \ {worker.run} : rows'[s] = rows[s]
          /\ \/ rows'[worker.run] = rows[worker.run]
             \/ /\ Running(worker.run)
                /\ rows'[worker.run] = [rows[worker.run] EXCEPT !.status = Verdict]
      BY <2>1, <2>2, SettleRows
    <3> QED
      BY <1>15, <2>1, <3>1, RowsSettled DEF Settles, process
  <2> QED
    BY <1>15, <2>2 DEF Settles
<1>16. ASSUME NEW d \in Dests, Puts(d) PROVE RowsInv'
  BY <1>16, RowsSettled DEF Puts, process, runVars
<1>17. ASSUME NEW d \in Dests, Prunes(d) PROVE RowsInv'
  BY <1>17, RowsSettled DEF Prunes, process, runVars
<1>18. ASSUME NEW c \in Callers, Checks(c) PROVE RowsInv'
  BY <1>18, RowsSettled DEF Checks, process, runVars
<1>19. ASSUME NEW c \in Callers, Inserts(c) PROVE RowsInv'
  <2>1. CASE issued < MaxRuns /\ StartRun(issued + 1, "manual")
    BY <1>19, <2>1, RowsStarted DEF Inserts, process
  <2>2. CASE UNCHANGED runVars
    BY <1>19, <2>2, RowsSettled DEF Inserts, process, runVars
  <2> QED
    BY <1>19, <2>1, <2>2 DEF Inserts
<1>20. ASSUME NEW c \in Callers, Posts(c) PROVE RowsInv'
  <2>1. caller[c].run \in Runs /\ "failed" \in Statuses \ {"running", "interrupted"}
    BY <1>20 DEF Posts, HandsInv, Tokens, Statuses
  <2>2. CASE Settle(caller[c].run, "failed", TRUE)
    <3>1. /\ \A s \in Runs \ {caller[c].run} : rows'[s] = rows[s]
          /\ \/ rows'[caller[c].run] = rows[caller[c].run]
             \/ /\ Running(caller[c].run)
                /\ rows'[caller[c].run] = [rows[caller[c].run] EXCEPT !.status = "failed"]
      BY <2>1, <2>2, SettleRows
    <3> QED
      BY <1>20, <2>1, <3>1, RowsSettled DEF Posts, process
  <2>3. CASE UNCHANGED rows
    BY <1>20, <2>3, RowsSettled DEF Posts, process
  <2> QED
    BY <1>20, <2>2, <2>3 DEF Posts
<1>21. ASSUME NEW d \in Dests, SwitchDestination(d) PROVE RowsInv'
  BY <1>21, RowsSettled DEF SwitchDestination, process, runVars
<1>22. ASSUME SwitchSchedule PROVE RowsInv'
  BY <1>22, RowsSettled DEF SwitchSchedule, process, runVars
<1>23. ASSUME Tick PROVE RowsInv'
  BY <1>23 DEF Tick, runVars, process, ClockTypes, RowTypes, RowStates, RowsInv
<1>24. ASSUME Stop PROVE RowsInv'
  BY <1>24, RowsSettled DEF Stop, process, runVars
<1>25. ASSUME Ends PROVE RowsInv'
  BY <1>25, RowsSettled DEF Ends, process, runVars
<1>26. ASSUME Starts PROVE RowsInv'
  <2>1. clock' \in Int /\ clock' > clock /\ builtAt' = clock' /\ starts' = starts + 1
        /\ clock \in Int /\ starts \in Int
    BY <1>26 DEF Starts, ClockTypes
  <2>2. UNCHANGED <<rows, issued, owner>>
    BY <1>26 DEF Starts, runVars
  <2>3. \A r \in Runs : rows[r].at \in Int /\ owner[r] \in Int
    BY BackupAssumption DEF RowTypes, RowStates
  <2>4. \A r \in Runs : rows[r].status # "none" => rows[r].at <= clock /\ owner[r] <= starts
    BY DEF RowsInv
  <2>5. \A r \in Runs : rows[r].status # "none" => rows[r].at < builtAt' /\ owner[r] < starts'
    BY <2>1, <2>3, <2>4
  <2>6. \A r \in Runs : rows[r].status # "none" => rows[r].at <= clock' /\ owner[r] <= starts'
    BY <2>1, <2>3, <2>4
  <2>7. \A r \in Runs : rows[r].status = "interrupted" => owner[r] < starts'
    BY <2>5
  <2> QED
    BY <2>2, <2>5, <2>6, <2>7 DEF RowsInv
<1> USE DEF runVars, atDests, settings, process, At
<1>27. CASE UNCHANGED vars
  BY <1>27, RowsSettled DEF vars
<1> QED
  BY <1>1, <1>2, <1>3, <1>4, <1>5, <1>6, <1>7, <1>8, <1>9, <1>10, <1>11, <1>12, <1>13, <1>14,
     <1>15, <1>16, <1>17, <1>18, <1>19, <1>20, <1>21, <1>22, <1>23, <1>24, <1>25, <1>26, <1>27 DEF
     Next, WorkerStep

-----------------------------------------------------------------------------
\* A request that has inserted a row, told by its two fields.
LEMMA HandOf ==
  ASSUME NEW x \in CallerStates, NEW r
  PROVE  (x = [pc |-> "post", run |-> r]) <=> (x.pc = "post" /\ x.run = r)
BY DEF CallerStates

\* Who has a backup in hand, told by fields alone.
LEMMA HandlingIs ==
  ASSUME HandTypes, NEW r
  PROVE  Handling(r) <=> \/ manual = <<r>>
                         \/ worker.run = r /\ worker.pc \in Working
                         \/ \E c \in Callers : caller[c].pc = "post" /\ caller[c].run = r
BY HandOf DEF HandTypes, Handling, Working

\* With no row running, nobody has a backup in hand.
LEMMA NobodyHandles ==
  ASSUME HandTypes, HandsInv, NothingRuns
  PROVE  manual = <<>> /\ worker.pc \notin Working /\ \A c \in Callers : caller[c].pc # "post"
<1>1. \A r \in Runs : ~Handling(r)
  BY DEF HandsInv, HandledRuns, NothingRuns
<1>2. manual = <<>>
  BY <1>1, HandlingIs DEF HandTypes
<1>3. worker.pc \notin Working
  BY <1>1, HandlingIs DEF HandsInv, Tokens
<1>4. \A c \in Callers : caller[c].pc # "post"
  BY <1>1, HandlingIs DEF HandsInv, Tokens
<1> QED
  BY <1>2, <1>3, <1>4

\* Every step leaves one backup at a time in one hand.
LEMMA TokensHold ==
  ASSUME ClockTypes, RowTypes, WorkerType, HandTypes, RowsInv, HandsInv, [Next]_vars
  PROVE  Tokens'
<1> USE BackupAssumption
<1>1. ASSUME Sweep PROVE Tokens'
  BY <1>1 DEF Sweep, MarkInterrupted, Interrupts, Goto, At, Fault, process, WorkerType,
     WorkerStates,
     HandTypes, CallerStates, HandsInv, Tokens, Working, IdleCaller
<1>2. ASSUME CatchUp PROVE Tokens'
  BY <1>2 DEF CatchUp, Goto, At, process, WorkerType, WorkerStates, HandTypes, CallerStates,
     HandsInv, Tokens, Working, IdleCaller
<1>3. ASSUME Arm PROVE Tokens'
  BY <1>3 DEF Arm, Worker, At, process, WorkerType, WorkerStates, HandTypes, CallerStates, HandsInv,
     Tokens, Working, IdleCaller
<1>4. ASSUME Woken PROVE Tokens'
  BY <1>4 DEF Woken, Rearm, Worker, At, process, WorkerType, WorkerStates, HandTypes, CallerStates,
     HandsInv, Tokens, Working, IdleCaller
<1>5. ASSUME TakesManual PROVE Tokens'
  BY <1>5 DEF TakesManual, Worker, At, process, WorkerType, WorkerStates, HandTypes, CallerStates,
     HandsInv, Tokens, Working, IdleCaller
<1>6. ASSUME TimerFires PROVE Tokens'
  BY <1>6 DEF TimerFires, Goto, At, process, WorkerType, WorkerStates, HandTypes, CallerStates,
     HandsInv, Tokens, Working, IdleCaller
<1>7. ASSUME Leaves PROVE Tokens'
  BY <1>7 DEF Leaves, Goto, At, process, WorkerType, WorkerStates, HandTypes, CallerStates,
     HandsInv,
     Tokens, Working, IdleCaller
<1>8. ASSUME FireChecks PROVE Tokens'
  BY <1>8 DEF FireChecks, Goto, Rearm, Worker, At, process, WorkerType, WorkerStates, HandTypes,
     CallerStates, HandsInv, Tokens, Working, IdleCaller
<1>9. ASSUME FireInserts PROVE Tokens'
  <2>1. CASE /\ StartRun(issued + 1, "schedule") /\ issued < MaxRuns
             /\ worker' = [Worker("post") EXCEPT !.run = issued + 1, !.trig = "schedule"]
    <3>1. NothingRuns
      BY <2>1 DEF StartRun
    <3>2. issued + 1 \in Runs
      BY <2>1 DEF RowTypes, Runs
    <3>3. worker'.pc = "post" /\ worker'.run = issued + 1
      BY <2>1 DEF Worker
    <3> QED
      BY <1>9, <3>1, <3>2, <3>3, NobodyHandles DEF FireInserts, At, process, Tokens
  <2>2. CASE Rearm
    <3>1. worker'.pc = "arm"
      BY <2>2 DEF Rearm, Worker
    <3> QED
      BY <1>9, <3>1 DEF FireInserts, At, process, HandsInv, Tokens, Working
  <2> QED
    BY <1>9, <2>1, <2>2 DEF FireInserts
<1>10. ASSUME FirePosts PROVE Tokens'
  BY <1>10 DEF FirePosts, Goto, Rearm, Worker, At, Settle, FinishRun, Fault, process, WorkerType,
     WorkerStates, HandTypes, CallerStates, HandsInv, Tokens, Working, IdleCaller
<1>11. ASSUME Drain PROVE Tokens'
  BY <1>11 DEF Drain, Goto, At, process, WorkerType, WorkerStates, HandTypes, CallerStates,
     HandsInv,
     Tokens, Working, IdleCaller
<1>12. ASSUME Writes PROVE Tokens'
  BY <1>12 DEF Writes, At, Fails, Fault, process, WorkerType, WorkerStates, HandTypes, CallerStates,
     HandsInv, Tokens, Working, IdleCaller
<1>13. ASSUME ReadsDestinations PROVE Tokens'
  BY <1>13 DEF ReadsDestinations, At, Fails, Fault, process, WorkerType, WorkerStates, HandTypes,
     CallerStates, HandsInv, Tokens, Working, IdleCaller
<1>14. ASSUME Sent PROVE Tokens'
  BY <1>14 DEF Sent, Goto, At, process, WorkerType, WorkerStates, HandTypes, CallerStates, HandsInv,
     Tokens, Working, IdleCaller
<1>15. ASSUME Settles PROVE Tokens'
  BY <1>15 DEF Settles, At, Rearm, Worker, Settle, FinishRun, Fault, Verdict, process, WorkerType,
     WorkerStates, HandTypes, CallerStates, HandsInv, Tokens, Working, IdleCaller
<1>16. ASSUME NEW d \in Dests, Puts(d) PROVE Tokens'
  BY <1>16 DEF Puts, At, Fails, Fault, process, WorkerType, WorkerStates, HandTypes, CallerStates,
     HandsInv, Tokens, Working, IdleCaller
<1>17. ASSUME NEW d \in Dests, Prunes(d) PROVE Tokens'
  BY <1>17 DEF Prunes, Lists, At, Fails, Fault, process, WorkerType, WorkerStates, HandTypes,
     CallerStates, HandsInv, Tokens, Working, IdleCaller
<1>18. ASSUME NEW c \in Callers, Checks(c) PROVE Tokens'
  BY <1>18 DEF Checks, process, WorkerType, WorkerStates, HandTypes, CallerStates, HandsInv, Tokens,
     Working, IdleCaller
<1>19. ASSUME NEW c \in Callers, Inserts(c) PROVE Tokens'
  <2>1. CASE /\ StartRun(issued + 1, "manual") /\ issued < MaxRuns
             /\ caller' = [caller EXCEPT ![c] = [pc |-> "post", run |-> issued + 1]]
    <3>1. NothingRuns
      BY <2>1 DEF StartRun
    <3>2. issued + 1 \in Runs
      BY <2>1 DEF RowTypes, Runs
    <3> QED
      BY <1>19, <2>1, <3>1, <3>2, NobodyHandles DEF Inserts, process, HandTypes, HandsInv, Tokens
  <2>2. CASE caller' = [caller EXCEPT ![c] = IdleCaller]
    BY <1>19, <2>2 DEF Inserts, process, IdleCaller, HandTypes, HandsInv, Tokens
  <2> QED
    BY <1>19, <2>1, <2>2 DEF Inserts
<1>20. ASSUME NEW c \in Callers, Posts(c) PROVE Tokens'
  BY <1>20 DEF Posts, Settle, FinishRun, Fault, process, WorkerType, WorkerStates, HandTypes,
     CallerStates, HandsInv, Tokens, Working, IdleCaller
<1>21. ASSUME NEW d \in Dests, SwitchDestination(d) PROVE Tokens'
  BY <1>21 DEF SwitchDestination, Edit, process, WorkerType, WorkerStates, HandTypes, CallerStates,
     HandsInv, Tokens, Working, IdleCaller
<1>22. ASSUME SwitchSchedule PROVE Tokens'
  BY <1>22 DEF SwitchSchedule, Edit, process, WorkerType, WorkerStates, HandTypes, CallerStates,
     HandsInv, Tokens, Working, IdleCaller
<1>23. ASSUME Tick PROVE Tokens'
  BY <1>23 DEF Tick, process, WorkerType, WorkerStates, HandTypes, CallerStates, HandsInv, Tokens,
     Working, IdleCaller
<1>24. ASSUME Stop PROVE Tokens'
  BY <1>24 DEF Stop, process, WorkerType, WorkerStates, HandTypes, CallerStates, HandsInv, Tokens,
     Working, IdleCaller
<1>25. ASSUME Ends PROVE Tokens'
  BY <1>25 DEF Ends, Worker, process, WorkerType, WorkerStates, HandTypes, CallerStates, HandsInv,
     Tokens, Working, IdleCaller
<1>26. ASSUME Starts PROVE Tokens'
  BY <1>26 DEF Starts, Worker, process, WorkerType, WorkerStates, HandTypes, CallerStates, HandsInv,
     Tokens, Working, IdleCaller
<1> USE DEF runVars, atDests, settings, process, HandsInv, Tokens
<1>27. CASE UNCHANGED vars
  BY <1>27 DEF vars
<1> QED
  BY <1>1, <1>2, <1>3, <1>4, <1>5, <1>6, <1>7, <1>8, <1>9, <1>10, <1>11, <1>12, <1>13, <1>14,
     <1>15, <1>16, <1>17, <1>18, <1>19, <1>20, <1>21, <1>22, <1>23, <1>24, <1>25, <1>26, <1>27 DEF
     Next, WorkerStep

\* No step leaves two rows running.
LEMMA OneRowHolds ==
  ASSUME ClockTypes, RowTypes, WorkerType, HandTypes, RowsInv, HandsInv, [Next]_vars
  PROVE  OneRow'
<1> USE BackupAssumption
<1>1. ASSUME Sweep PROVE OneRow'
  <2>1. CASE MarkInterrupted
    <3>1. \A r \in Runs : rows'[r].status = "running" => rows[r].status = "running"
      BY <2>1, InterruptedRows DEF RowTypes, RowStates
    <3> QED
      BY <3>1 DEF OneRow, HandsInv, Running
  <2>2. CASE UNCHANGED rows
    BY <1>1, <2>2 DEF OneRow, HandsInv, Running
  <2> QED
    BY <1>1, <2>1, <2>2 DEF Sweep
<1>2. ASSUME CatchUp PROVE OneRow'
  BY <1>2 DEF CatchUp, runVars, OneRow, HandsInv, Running
<1>3. ASSUME Arm PROVE OneRow'
  BY <1>3 DEF Arm, runVars, OneRow, HandsInv, Running
<1>4. ASSUME Woken PROVE OneRow'
  BY <1>4 DEF Woken, runVars, OneRow, HandsInv, Running
<1>5. ASSUME TakesManual PROVE OneRow'
  BY <1>5 DEF TakesManual, runVars, OneRow, HandsInv, Running
<1>6. ASSUME TimerFires PROVE OneRow'
  BY <1>6 DEF TimerFires, runVars, OneRow, HandsInv, Running
<1>7. ASSUME Leaves PROVE OneRow'
  BY <1>7 DEF Leaves, runVars, OneRow, HandsInv, Running
<1>8. ASSUME FireChecks PROVE OneRow'
  BY <1>8 DEF FireChecks, runVars, OneRow, HandsInv, Running
<1>9. ASSUME FireInserts PROVE OneRow'
  <2>1. CASE issued < MaxRuns /\ StartRun(issued + 1, "schedule")
    <3>1. issued + 1 \in Runs /\ NothingRuns
      BY <2>1 DEF RowTypes, Runs, StartRun
    <3>2. \A s \in Runs \ {issued + 1} : rows'[s] \in {rows[s], NoRow}
      BY <2>1, <3>1, StartRunRows
    <3>3. \A s \in Runs \ {issued + 1} : rows'[s].status # "running"
      BY <3>1, <3>2 DEF NothingRuns, Running, NoRow
    <3> QED
      BY <3>3 DEF OneRow, Running
  <2>2. CASE UNCHANGED runVars
    BY <1>9, <2>2 DEF runVars, OneRow, HandsInv, Running
  <2> QED
    BY <1>9, <2>1, <2>2 DEF FireInserts
<1>10. ASSUME FirePosts PROVE OneRow'
  <2>1. manual = <<>> /\ UNCHANGED rows
    BY <1>10 DEF FirePosts, HandsInv, Tokens, At, Working
  <2> QED
    BY <2>1 DEF OneRow, HandsInv, Running
<1>11. ASSUME Drain PROVE OneRow'
  BY <1>11 DEF Drain, runVars, OneRow, HandsInv, Running
<1>12. ASSUME Writes PROVE OneRow'
  BY <1>12 DEF Writes, runVars, OneRow, HandsInv, Running
<1>13. ASSUME ReadsDestinations PROVE OneRow'
  BY <1>13 DEF ReadsDestinations, runVars, OneRow, HandsInv, Running
<1>14. ASSUME Sent PROVE OneRow'
  BY <1>14 DEF Sent, runVars, OneRow, HandsInv, Running
<1>15. ASSUME Settles PROVE OneRow'
  <2>1. worker.run \in Runs /\ Verdict \in Statuses \ {"running"}
    BY <1>15 DEF Settles, At, HandsInv, Tokens, Working, Verdict, Statuses
  <2>2. Settle(worker.run, Verdict, host = "up")
    BY <1>15 DEF Settles
  <2>3. \A s \in Runs : rows'[s].status = "running" => rows[s].status = "running"
    BY <2>1, <2>2, SettleRows DEF Running
  <2> QED
    BY <2>3 DEF OneRow, HandsInv, Running
<1>16. ASSUME NEW d \in Dests, Puts(d) PROVE OneRow'
  BY <1>16 DEF Puts, runVars, OneRow, HandsInv, Running
<1>17. ASSUME NEW d \in Dests, Prunes(d) PROVE OneRow'
  BY <1>17 DEF Prunes, runVars, OneRow, HandsInv, Running
<1>18. ASSUME NEW c \in Callers, Checks(c) PROVE OneRow'
  BY <1>18 DEF Checks, runVars, OneRow, HandsInv, Running
<1>19. ASSUME NEW c \in Callers, Inserts(c) PROVE OneRow'
  <2>1. CASE issued < MaxRuns /\ StartRun(issued + 1, "manual")
    <3>1. issued + 1 \in Runs /\ NothingRuns
      BY <2>1 DEF RowTypes, Runs, StartRun
    <3>2. \A s \in Runs \ {issued + 1} : rows'[s] \in {rows[s], NoRow}
      BY <2>1, <3>1, StartRunRows
    <3>3. \A s \in Runs \ {issued + 1} : rows'[s].status # "running"
      BY <3>1, <3>2 DEF NothingRuns, Running, NoRow
    <3> QED
      BY <3>3 DEF OneRow, Running
  <2>2. CASE UNCHANGED runVars
    BY <1>19, <2>2 DEF runVars, OneRow, HandsInv, Running
  <2> QED
    BY <1>19, <2>1, <2>2 DEF Inserts
<1>20. ASSUME NEW c \in Callers, Posts(c) PROVE OneRow'
  <2>1. manual = <<>> /\ UNCHANGED rows
    BY <1>20 DEF Posts, HandsInv, Tokens
  <2> QED
    BY <2>1 DEF OneRow, HandsInv, Running
<1>21. ASSUME NEW d \in Dests, SwitchDestination(d) PROVE OneRow'
  BY <1>21 DEF SwitchDestination, runVars, OneRow, HandsInv, Running
<1>22. ASSUME SwitchSchedule PROVE OneRow'
  BY <1>22 DEF SwitchSchedule, runVars, OneRow, HandsInv, Running
<1>23. ASSUME Tick PROVE OneRow'
  BY <1>23 DEF Tick, runVars, OneRow, HandsInv, Running
<1>24. ASSUME Stop PROVE OneRow'
  BY <1>24 DEF Stop, runVars, OneRow, HandsInv, Running
<1>25. ASSUME Ends PROVE OneRow'
  BY <1>25 DEF Ends, runVars, OneRow, HandsInv, Running
<1>26. ASSUME Starts PROVE OneRow'
  BY <1>26 DEF Starts, runVars, OneRow, HandsInv, Running
<1> USE DEF runVars, atDests, settings, process, HandsInv, OneRow, Running
<1>27. CASE UNCHANGED vars
  BY <1>27 DEF vars
<1> QED
  BY <1>1, <1>2, <1>3, <1>4, <1>5, <1>6, <1>7, <1>8, <1>9, <1>10, <1>11, <1>12, <1>13, <1>14,
     <1>15, <1>16, <1>17, <1>18, <1>19, <1>20, <1>21, <1>22, <1>23, <1>24, <1>25, <1>26, <1>27 DEF
     Next, WorkerStep

\* Where nobody new takes a backup in hand and what is in hand is still running,
\* the hands hold the rows they held.
LEMMA HandledKept ==
  ASSUME HandledRuns, UNCHANGED <<owner, starts>>,
         \A r \in Runs : Handling(r)' => Handling(r),
         \A r \in Runs : Handling(r) /\ Running(r) => rows'[r] = rows[r]
  PROVE  HandledRuns'
BY DEF HandledRuns, Running

\* A worker that takes nothing up, with nothing else moved, adds nothing to what is in hand.
LEMMA HandledFrom ==
  ASSUME UNCHANGED <<manual, caller>>, worker'.run = worker.run, worker'.pc \in Working =>
         worker.pc \in Working
  PROVE  \A r \in Runs : Handling(r)' => Handling(r)
BY DEF Handling, Working

\* After every step what is in hand is running, and begun by this process.
LEMMA HandledRunsHolds ==
  ASSUME ClockTypes, RowTypes, WorkerType, HandTypes, RowsInv, HandsInv, [Next]_vars
  PROVE  HandledRuns'
<1> USE BackupAssumption
<1>1. ASSUME Sweep PROVE HandledRuns'
  <2>1. \A r \in Runs : Handling(r)' => Handling(r)
    BY <1>1, HandledFrom DEF Sweep, Goto, At, Working, WorkerType, WorkerStates
  <2>2. CASE MarkInterrupted
    <3>1. \A r \in Runs : Handling(r) /\ Running(r) => ~Interrupts(r)
      <4>1. \A r \in Runs : owner[r] = starts => ~(owner[r] < starts)
        BY DEF ClockTypes
      <4>2. \A r \in Runs : Running(r) => rows[r].status # "none"
        BY DEF Running
      <4> QED
        BY <4>1, <4>2 DEF HandsInv, HandledRuns, RowsInv, Interrupts
    <3> QED
      BY <1>1, <2>1, <2>2, <3>1, InterruptedRows, HandledKept DEF Sweep, process, HandsInv
  <2>3. CASE UNCHANGED rows
    BY <1>1, <2>1, <2>3, HandledKept DEF Sweep, process, HandsInv
  <2> QED
    BY <1>1, <2>2, <2>3 DEF Sweep
<1>2. ASSUME CatchUp PROVE HandledRuns'
  <2>1. \A r \in Runs : Handling(r)' => Handling(r)
    BY <1>2 DEF CatchUp, Goto, At, Handling, Working, WorkerType, WorkerStates, HandTypes,
       CallerStates
  <2> QED
    BY <1>2, <2>1, HandledKept DEF CatchUp, process, runVars, HandsInv
<1>3. ASSUME Arm PROVE HandledRuns'
  <2>1. \A r \in Runs : Handling(r)' => Handling(r)
    BY <1>3 DEF Arm, Worker, At, Handling, Working, WorkerType, WorkerStates, HandTypes,
       CallerStates
  <2> QED
    BY <1>3, <2>1, HandledKept DEF Arm, process, runVars, HandsInv
<1>4. ASSUME Woken PROVE HandledRuns'
  <2>1. \A r \in Runs : Handling(r)' => Handling(r)
    BY <1>4 DEF Woken, Rearm, Worker, At, Handling, Working, WorkerType, WorkerStates, HandTypes,
       CallerStates
  <2> QED
    BY <1>4, <2>1, HandledKept DEF Woken, process, runVars, HandsInv
<1>5. ASSUME TakesManual PROVE HandledRuns'
  <2>1. worker'.run = manual[1] /\ manual' = <<>> /\ manual \in {<<r>> : r \in Runs}
    BY <1>5 DEF TakesManual, Worker, HandTypes
  <2>2. \A r \in Runs : Handling(r)' => Handling(r)
    BY <1>5, <2>1 DEF TakesManual, Handling
  <2> QED
    BY <1>5, <2>2, HandledKept DEF TakesManual, process, runVars, HandsInv
<1>6. ASSUME TimerFires PROVE HandledRuns'
  <2>1. \A r \in Runs : Handling(r)' => Handling(r)
    BY <1>6 DEF TimerFires, Goto, At, Handling, Working, WorkerType, WorkerStates, HandTypes,
       CallerStates
  <2> QED
    BY <1>6, <2>1, HandledKept DEF TimerFires, process, runVars, HandsInv
<1>7. ASSUME Leaves PROVE HandledRuns'
  <2>1. \A r \in Runs : Handling(r)' => Handling(r)
    BY <1>7 DEF Leaves, Goto, At, Handling, Working, WorkerType, WorkerStates, HandTypes,
       CallerStates
  <2> QED
    BY <1>7, <2>1, HandledKept DEF Leaves, process, runVars, HandsInv
<1>8. ASSUME FireChecks PROVE HandledRuns'
  <2>1. \A r \in Runs : Handling(r)' => Handling(r)
    BY <1>8 DEF FireChecks, Goto, Rearm, Worker, At, Handling, Working, WorkerType, WorkerStates,
       HandTypes, CallerStates
  <2> QED
    BY <1>8, <2>1, HandledKept DEF FireChecks, process, runVars, HandsInv
<1>9. ASSUME FireInserts PROVE HandledRuns'
  <2>1. CASE /\ StartRun(issued + 1, "schedule") /\ issued < MaxRuns
             /\ worker' = [Worker("post") EXCEPT !.run = issued + 1, !.trig = "schedule"]
    <3>1. NothingRuns /\ owner' = [owner EXCEPT ![issued + 1] = starts]
      BY <2>1 DEF StartRun
    <3>2. issued + 1 \in Runs
      BY <2>1 DEF RowTypes, Runs
    <3>3. worker'.pc = "post" /\ worker'.run = issued + 1
      BY <2>1 DEF Worker
    <3>4. \A r \in Runs : Handling(r)' => r = issued + 1
      BY <1>9, <3>1, <3>3, NobodyHandles DEF FireInserts, Handling
    <3>5. rows'[issued + 1].status = "running" /\ owner'[issued + 1] = starts
      BY <2>1, <3>1, <3>2, StartRunRows DEF RowTypes
    <3> QED
      BY <1>9, <3>4, <3>5 DEF FireInserts, process, HandledRuns, Running
  <2>2. CASE Rearm /\ UNCHANGED runVars
    <3>1. worker'.pc = "arm"
      BY <2>2 DEF Rearm, Worker
    <3>2. \A r \in Runs : Handling(r)' => Handling(r)
      BY <1>9, <3>1 DEF FireInserts, Handling
    <3> QED
      BY <1>9, <2>2, <3>2, HandledKept DEF FireInserts, process, runVars, HandsInv
  <2> QED
    BY <1>9, <2>1, <2>2 DEF FireInserts
<1>10. ASSUME FirePosts PROVE HandledRuns'
  <2>1. /\ manual = <<>> /\ manual' = <<worker.run>> /\ UNCHANGED rows
        /\ worker' = [worker EXCEPT !.pc = "drain"] /\ worker.pc = "post"
    BY <1>10 DEF FirePosts, HandsInv, Tokens, At, Working, Goto
  <2>2. \A r \in Runs : Handling(r)' => Handling(r)
    BY <1>10, <2>1 DEF FirePosts, Handling, WorkerType, WorkerStates
  <2> QED
    BY <1>10, <2>1, <2>2, HandledKept DEF FirePosts, process, HandsInv
<1>11. ASSUME Drain PROVE HandledRuns'
  <2>1. \A r \in Runs : Handling(r)' => Handling(r)
    BY <1>11 DEF Drain, Goto, At, Handling, Working, WorkerType, WorkerStates, HandTypes,
       CallerStates
  <2> QED
    BY <1>11, <2>1, HandledKept DEF Drain, process, runVars, HandsInv
<1>12. ASSUME Writes PROVE HandledRuns'
  <2>1. \A r \in Runs : Handling(r)' => Handling(r)
    BY <1>12 DEF Writes, At, Fails, Fault, Handling, Working, WorkerType, WorkerStates, HandTypes,
       CallerStates
  <2> QED
    BY <1>12, <2>1, HandledKept DEF Writes, process, runVars, HandsInv
<1>13. ASSUME ReadsDestinations PROVE HandledRuns'
  <2>1. \A r \in Runs : Handling(r)' => Handling(r)
    BY <1>13 DEF ReadsDestinations, At, Fails, Fault, Handling, Working, WorkerType, WorkerStates,
       HandTypes, CallerStates
  <2> QED
    BY <1>13, <2>1, HandledKept DEF ReadsDestinations, process, runVars, HandsInv
<1>14. ASSUME Sent PROVE HandledRuns'
  <2>1. \A r \in Runs : Handling(r)' => Handling(r)
    BY <1>14 DEF Sent, Goto, At, Handling, Working, WorkerType, WorkerStates, HandTypes,
       CallerStates
  <2> QED
    BY <1>14, <2>1, HandledKept DEF Sent, process, runVars, HandsInv
<1>15. ASSUME Settles PROVE HandledRuns'
  <2>1. worker'.pc = "arm" /\ worker.pc = "settle"
    BY <1>15 DEF Settles, Rearm, Worker, At
  <2>2. \A r \in Runs : ~Handling(r)'
    BY <1>15, <2>1 DEF Settles, Handling, HandsInv, Tokens, Working
  <2> QED
    BY <2>2 DEF HandledRuns
<1>16. ASSUME NEW d \in Dests, Puts(d) PROVE HandledRuns'
  <2>1. \A r \in Runs : Handling(r)' => Handling(r)
    BY <1>16 DEF Puts, At, Fails, Fault, Handling, Working, WorkerType, WorkerStates, HandTypes,
       CallerStates
  <2> QED
    BY <1>16, <2>1, HandledKept DEF Puts, process, runVars, HandsInv
<1>17. ASSUME NEW d \in Dests, Prunes(d) PROVE HandledRuns'
  <2>1. \A r \in Runs : Handling(r)' => Handling(r)
    BY <1>17 DEF Prunes, Lists, At, Fails, Fault, Handling, Working, WorkerType, WorkerStates,
       HandTypes, CallerStates
  <2> QED
    BY <1>17, <2>1, HandledKept DEF Prunes, process, runVars, HandsInv
<1>18. ASSUME NEW c \in Callers, Checks(c) PROVE HandledRuns'
  <2>1. \A r \in Runs : Handling(r)' => Handling(r)
    BY <1>18 DEF Checks, runVars, Handling, Working, WorkerType, WorkerStates, HandTypes,
       CallerStates
  <2> QED
    BY <1>18, <2>1, HandledKept DEF Checks, process, runVars, HandsInv
<1>19. ASSUME NEW c \in Callers, Inserts(c) PROVE HandledRuns'
  <2>1. CASE /\ StartRun(issued + 1, "manual") /\ issued < MaxRuns
             /\ caller' = [caller EXCEPT ![c] = [pc |-> "post", run |-> issued + 1]]
    <3>1. NothingRuns /\ owner' = [owner EXCEPT ![issued + 1] = starts]
      BY <2>1 DEF StartRun
    <3>2. issued + 1 \in Runs
      BY <2>1 DEF RowTypes, Runs
    <3>3. \A b \in Callers \ {c} : caller'[b].pc # "post"
      BY <2>1, <3>1, NobodyHandles DEF HandTypes
    <3>4. caller'[c].run = issued + 1
      BY <2>1 DEF HandTypes
    <3>5. \A r \in Runs : Handling(r)' => r = issued + 1
      BY <1>19, <3>1, <3>3, <3>4, NobodyHandles DEF Inserts, Handling, Working
    <3>6. rows'[issued + 1].status = "running" /\ owner'[issued + 1] = starts
      BY <2>1, <3>1, <3>2, StartRunRows DEF RowTypes
    <3> QED
      BY <1>19, <3>5, <3>6 DEF Inserts, process, HandledRuns, Running
  <2>2. CASE caller' = [caller EXCEPT ![c] = IdleCaller] /\ UNCHANGED runVars
    <3>1. \A r \in Runs : Handling(r)' => Handling(r)
      BY <1>19, <2>2 DEF Inserts, Handling, IdleCaller, HandTypes
    <3> QED
      BY <1>19, <2>2, <3>1, HandledKept DEF Inserts, process, runVars, HandsInv
  <2> QED
    BY <1>19, <2>1, <2>2 DEF Inserts
<1>20. ASSUME NEW c \in Callers, Posts(c) PROVE HandledRuns'
  <2>1. manual = <<>> /\ manual' = <<caller[c].run>> /\ UNCHANGED rows
    BY <1>20 DEF Posts, HandsInv, Tokens
  <2>2. ASSUME NEW r \in Runs, Handling(r)' PROVE Handling(r)
    <3>1. caller[c].pc = "post" /\ caller[c] = [pc |-> "post", run |-> caller[c].run]
      BY <1>20 DEF Posts, HandTypes, CallerStates
    <3>2. \A b \in Callers : caller'[b] = caller[b] \/ caller'[b].pc # "post"
      BY <1>20 DEF Posts, IdleCaller, HandTypes
    <3>3. CASE manual' = <<r>>
      BY <2>1, <3>1, <3>3 DEF Handling
    <3>4. CASE UNCHANGED worker /\ worker.run = r /\ worker.pc \in Working
      BY <3>4 DEF Handling, Working
    <3>5. CASE \E b \in Callers : caller'[b] = [pc |-> "post", run |-> r]
      BY <3>2, <3>5 DEF Handling
    <3> QED
      BY <1>20, <2>2, <3>3, <3>4, <3>5 DEF Handling, Working, Posts
  <2> QED
    BY <1>20, <2>1, <2>2, HandledKept DEF Posts, process, HandsInv
<1>21. ASSUME NEW d \in Dests, SwitchDestination(d) PROVE HandledRuns'
  <2>1. \A r \in Runs : Handling(r)' => Handling(r)
    BY <1>21 DEF SwitchDestination, Edit, Handling, Working, WorkerType, WorkerStates, HandTypes,
       CallerStates
  <2> QED
    BY <1>21, <2>1, HandledKept DEF SwitchDestination, process, runVars, HandsInv
<1>22. ASSUME SwitchSchedule PROVE HandledRuns'
  <2>1. \A r \in Runs : Handling(r)' => Handling(r)
    BY <1>22 DEF SwitchSchedule, Edit, Handling, Working, WorkerType, WorkerStates, HandTypes,
       CallerStates
  <2> QED
    BY <1>22, <2>1, HandledKept DEF SwitchSchedule, process, runVars, HandsInv
<1>23. ASSUME Tick PROVE HandledRuns'
  <2>1. \A r \in Runs : Handling(r)' => Handling(r)
    BY <1>23 DEF Tick, runVars, Handling, Working, WorkerType, WorkerStates, HandTypes, CallerStates
  <2> QED
    BY <1>23, <2>1, HandledKept DEF Tick, process, runVars, HandsInv
<1>24. ASSUME Stop PROVE HandledRuns'
  <2>1. \A r \in Runs : Handling(r)' => Handling(r)
    BY <1>24 DEF Stop, runVars, Handling, Working, WorkerType, WorkerStates, HandTypes, CallerStates
  <2> QED
    BY <1>24, <2>1, HandledKept DEF Stop, process, runVars, HandsInv
<1>25. ASSUME Ends PROVE HandledRuns'
  <2>1. \A r \in Runs : ~Handling(r)'
    BY <1>25 DEF Ends, Handling, Worker, IdleCaller
  <2> QED
    BY <2>1 DEF HandledRuns
<1>26. ASSUME Starts PROVE HandledRuns'
  <2>1. \A r \in Runs : ~Handling(r)'
    BY <1>26 DEF Starts, Handling, Worker, HandsInv, Tokens
  <2> QED
    BY <2>1 DEF HandledRuns
<1> USE DEF runVars, atDests, settings, process, HandsInv, HandledRuns, Handling, Running
<1>27. CASE UNCHANGED vars
  BY <1>27 DEF vars
<1> QED
  BY <1>1, <1>2, <1>3, <1>4, <1>5, <1>6, <1>7, <1>8, <1>9, <1>10, <1>11, <1>12, <1>13, <1>14,
     <1>15, <1>16, <1>17, <1>18, <1>19, <1>20, <1>21, <1>22, <1>23, <1>24, <1>25, <1>26, <1>27 DEF
     Next, WorkerStep

\* The three together.
LEMMA HandsInvHolds ==
  ASSUME ClockTypes, RowTypes, WorkerType, HandTypes, RowsInv, HandsInv, [Next]_vars
  PROVE  HandsInv'
BY OneRowHolds, HandledRunsHolds, TokensHold DEF HandsInv

\* Every running row stays in the hands it is in or goes to others, or is told
\* that it could not be settled.
LEMMA SettledKept ==
  ASSUME SettledInv, UNCHANGED <<host, owner, starts>>, orphaned \subseteq orphaned',
         (worker.pc # "sweep" /\ worker'.pc # "sweep") \/ UNCHANGED worker,
         \A r \in Runs : rows'[r].status = "running" => rows[r].status = "running",
         \A r \in Runs : host = "up" /\ Handling(r) =>
           \/ Handling(r)' \/ rows'[r].status # "running"
           \/ worker'.pc # "sweep" /\ r \in orphaned'
  PROVE  SettledInv'
<1> SUFFICES ASSUME host = "up", NEW r \in Runs, Running(r)'
             PROVE  \/ Handling(r)'
                    \/ worker'.pc = "sweep" /\ owner[r] < starts
                    \/ worker'.pc # "sweep" /\ r \in orphaned'
  BY DEF SettledInv
<1>1. Running(r)
  BY DEF Running
<1>2. CASE Handling(r)
  BY <1>2 DEF Running
<1>3. CASE ~Handling(r)
  BY <1>1, <1>3 DEF SettledInv
<1> QED
  BY <1>2, <1>3

\* Every step leaves a running row in hand, to the sweep, or known to be orphaned.
LEMMA SettledInvHolds ==
  ASSUME ClockTypes, RowTypes, WorkerType, HandTypes, RowsInv, HandsInv, SettledInv, [Next]_vars
  PROVE  SettledInv'
<1> USE BackupAssumption
<1>1. ASSUME Sweep PROVE SettledInv'
  <2>1. /\ worker.pc = "sweep" /\ worker'.pc = "catchUp" /\ worker'.run = worker.run
        /\ UNCHANGED <<manual, caller, host, owner, starts>>
    BY <1>1 DEF Sweep, At, Goto, process, WorkerType, WorkerStates
  <2>2. \A r : Handling(r) => Handling(r)'
    BY <2>1 DEF Handling
  <2>3. \A r \in Runs : Running(r) => Handling(r) \/ Interrupts(r) \/ host # "up"
    <3>1. \A r \in Runs : Running(r) => rows[r].status # "none"
      BY DEF Running
    <3> QED
      BY <2>1, <3>1 DEF SettledInv, RowsInv, Interrupts
  <2>4. CASE MarkInterrupted
    <3>1. \A r \in Runs : Interrupts(r) => rows'[r].status # "running"
      BY <2>4, InterruptedRows DEF RowTypes, RowStates
    <3>2. \A r \in Runs : rows'[r].status = "running" => rows[r].status = "running"
      BY <2>4, InterruptedRows DEF RowTypes, RowStates
    <3> QED
      BY <2>1, <2>2, <2>3, <3>1, <3>2 DEF SettledInv, Running
  <2>5. CASE orphaned' = {r \in Runs : Interrupts(r)} /\ UNCHANGED rows
    BY <2>1, <2>2, <2>3, <2>5 DEF SettledInv, Running
  <2>6. CASE host = "stopping"
    BY <2>1, <2>6 DEF SettledInv
  <2> QED
    BY <1>1, <2>4, <2>5, <2>6 DEF Sweep
<1>2. ASSUME CatchUp PROVE SettledInv'
  <2>1. \A r \in Runs : Handling(r) => Handling(r)'
    BY <1>2 DEF CatchUp, Goto, At, Handling, WorkerType, WorkerStates, HandTypes, CallerStates
  <2> QED
    BY <1>2, <2>1, SettledKept DEF CatchUp, Goto, At, process, runVars, WorkerType, WorkerStates
<1>3. ASSUME Arm PROVE SettledInv'
  <2>1. \A r \in Runs : Handling(r) => Handling(r)'
    BY <1>3 DEF Arm, Worker, At, Handling, WorkerType, WorkerStates, HandTypes, CallerStates
  <2> QED
    BY <1>3, <2>1, SettledKept DEF Arm, Worker, At, process, runVars, WorkerType, WorkerStates
<1>4. ASSUME Woken PROVE SettledInv'
  <2>1. \A r \in Runs : Handling(r) => Handling(r)'
    BY <1>4 DEF Woken, Rearm, Worker, At, Handling, WorkerType, WorkerStates, HandTypes,
       CallerStates
  <2> QED
    BY <1>4, <2>1, SettledKept DEF Woken, Rearm, Worker, At, process, runVars, WorkerType,
       WorkerStates
<1>5. ASSUME TakesManual PROVE SettledInv'
  <2>1. /\ worker'.run = manual[1] /\ worker'.pc = "write" /\ manual' = <<>> /\ worker.pc = "select"
        /\ manual \in {<<r>> : r \in Runs}
    BY <1>5 DEF TakesManual, Worker, HandTypes, At
  <2>2. \A r \in Runs : Handling(r) => Handling(r)'
    BY <1>5, <2>1 DEF TakesManual, Handling
  <2> QED
    BY <1>5, <2>1, <2>2, SettledKept DEF TakesManual, process, runVars
<1>6. ASSUME TimerFires PROVE SettledInv'
  <2>1. \A r \in Runs : Handling(r) => Handling(r)'
    BY <1>6 DEF TimerFires, Goto, At, Handling, WorkerType, WorkerStates, HandTypes, CallerStates
  <2> QED
    BY <1>6, <2>1, SettledKept DEF TimerFires, Goto, At, process, runVars, WorkerType, WorkerStates
<1>7. ASSUME Leaves PROVE SettledInv'
  <2>1. \A r \in Runs : Handling(r) => Handling(r)'
    BY <1>7 DEF Leaves, Goto, At, Handling, WorkerType, WorkerStates, HandTypes, CallerStates
  <2> QED
    BY <1>7, <2>1, SettledKept DEF Leaves, Goto, At, process, runVars, WorkerType, WorkerStates
<1>8. ASSUME FireChecks PROVE SettledInv'
  <2>1. \A r \in Runs : Handling(r) => Handling(r)'
    BY <1>8 DEF FireChecks, Goto, Rearm, Worker, At, Handling, WorkerType, WorkerStates, HandTypes,
       CallerStates
  <2> QED
    BY <1>8, <2>1, SettledKept DEF FireChecks, Goto, Rearm, Worker, At, process, runVars,
       WorkerType,
       WorkerStates
<1>9. ASSUME FireInserts PROVE SettledInv'
  <2>1. CASE issued < MaxRuns /\ StartRun(issued + 1, "schedule") /\
        worker' = [Worker("post") EXCEPT !.run = issued + 1, !.trig = "schedule"]
    <3>1. issued + 1 \in Runs /\ NothingRuns
      BY <2>1 DEF RowTypes, Runs, StartRun
    <3>2. \A s \in Runs \ {issued + 1} : rows'[s] \in {rows[s], NoRow}
      BY <2>1, <3>1, StartRunRows
    <3>3. \A s \in Runs \ {issued + 1} : rows'[s].status # "running"
      BY <3>1, <3>2 DEF NothingRuns, Running, NoRow
    <3>4. \A s \in Runs : Running(s)' => s = issued + 1
      BY <3>3 DEF Running
    <3>5. \A s \in Runs : s = issued + 1 => Handling(s)'
      BY <1>9, <2>1 DEF FireInserts, Handling, Worker, HandTypes
    <3> QED
      BY <3>4, <3>5 DEF SettledInv
  <2>2. CASE Rearm /\ UNCHANGED runVars
    <3>1. worker'.pc = "arm" /\ worker.pc = "insert"
      BY <1>9, <2>2 DEF FireInserts, At, Rearm, Worker
    <3>2. \A r \in Runs : Handling(r) => Handling(r)'
      BY <1>9, <3>1 DEF FireInserts, Handling
    <3> QED
      BY <1>9, <2>2, <3>1, <3>2, SettledKept DEF FireInserts, process, runVars
  <2> QED
    BY <1>9, <2>1, <2>2 DEF FireInserts
<1>10. ASSUME FirePosts PROVE SettledInv'
  <2>1. /\ manual = <<>> /\ manual' = <<worker.run>> /\ UNCHANGED <<rows, orphaned>>
        /\ worker' = [worker EXCEPT !.pc = "drain"] /\ worker.pc = "post"
    BY <1>10 DEF FirePosts, HandsInv, Tokens, At, Working, Goto
  <2>2. \A r \in Runs : Handling(r) => Handling(r)'
    BY <1>10, <2>1 DEF FirePosts, Handling, WorkerType, WorkerStates
  <2> QED
    BY <1>10, <2>1, <2>2, SettledKept DEF FirePosts, process, WorkerType, WorkerStates
<1>11. ASSUME Drain PROVE SettledInv'
  <2>1. /\ worker.pc = "drain" /\ worker'.pc = "write" /\ worker'.run = worker.run
        /\ manual = <<worker.run>>
    BY <1>11 DEF Drain, At, Goto, HandsInv, Tokens, Working, WorkerType, WorkerStates
  <2>2. \A r \in Runs : Handling(r) => Handling(r)'
    BY <1>11, <2>1 DEF Drain, Handling
  <2> QED
    BY <1>11, <2>1, <2>2, SettledKept DEF Drain, process, runVars
<1>12. ASSUME Writes PROVE SettledInv'
  <2>1. \A r \in Runs : Handling(r) => Handling(r)'
    BY <1>12 DEF Writes, At, Fails, Fault, Handling, WorkerType, WorkerStates, HandTypes,
       CallerStates
  <2> QED
    BY <1>12, <2>1, SettledKept DEF Writes, At, Fails, Fault, process, runVars, WorkerType,
       WorkerStates
<1>13. ASSUME ReadsDestinations PROVE SettledInv'
  <2>1. \A r \in Runs : Handling(r) => Handling(r)'
    BY <1>13 DEF ReadsDestinations, At, Fails, Fault, Handling, WorkerType, WorkerStates, HandTypes,
       CallerStates
  <2> QED
    BY <1>13, <2>1, SettledKept DEF ReadsDestinations, At, Fails, Fault, process, runVars,
       WorkerType,
       WorkerStates
<1>14. ASSUME Sent PROVE SettledInv'
  <2>1. \A r \in Runs : Handling(r) => Handling(r)'
    BY <1>14 DEF Sent, Goto, At, Handling, WorkerType, WorkerStates, HandTypes, CallerStates
  <2> QED
    BY <1>14, <2>1, SettledKept DEF Sent, Goto, At, process, runVars, WorkerType, WorkerStates
<1>15. ASSUME Settles PROVE SettledInv'
  <2>1. worker.run \in Runs /\ Verdict \in Statuses \ {"running"}
    BY <1>15 DEF Settles, At, HandsInv, Tokens, Working, Verdict, Statuses
  <2>2. Settle(worker.run, Verdict, host = "up")
    BY <1>15 DEF Settles
  <2>3. \A s \in Runs : rows'[s].status = "running" => rows[s].status = "running"
    BY <2>1, <2>2, SettleRows DEF Running
  <2>4. host = "up" => rows'[worker.run].status # "running" \/ worker.run \in orphaned'
    BY <2>1, <2>2, SettleRows DEF Running
  <2>5. \A r \in Runs : Handling(r) => r = worker.run
    BY <1>15, HandlingIs DEF Settles, At, HandsInv, Tokens, Working
  <2>6. worker.pc = "settle" /\ worker'.pc = "arm" /\ orphaned \subseteq orphaned'
    BY <1>15, <2>1, <2>2, SettleRows DEF Settles, At, Rearm, Worker
  <2> QED
    BY <1>15, <2>3, <2>4, <2>5, <2>6, SettledKept DEF Settles, process
<1>16. ASSUME NEW d \in Dests, Puts(d) PROVE SettledInv'
  <2>1. \A r \in Runs : Handling(r) => Handling(r)'
    BY ZenonT(30), <1>16 DEF Puts, At, Fails, Fault, Handling, WorkerType, WorkerStates,
       HandTypes, CallerStates
  <2> QED
    BY <1>16, <2>1, SettledKept DEF Puts, At, Fails, Fault, process, runVars, WorkerType,
       WorkerStates
<1>17. ASSUME NEW d \in Dests, Prunes(d) PROVE SettledInv'
  <2>1. \A r \in Runs : Handling(r) => Handling(r)'
    BY ZenonT(30), <1>17 DEF Prunes, Lists, At, Fails, Fault, Handling, WorkerType, WorkerStates,
       HandTypes, CallerStates
  <2> QED
    BY <1>17, <2>1, SettledKept DEF Prunes, Lists, At, Fails, Fault, process, runVars, WorkerType,
       WorkerStates
<1>18. ASSUME NEW c \in Callers, Checks(c) PROVE SettledInv'
  <2>1. \A r \in Runs : Handling(r) => Handling(r)'
    BY <1>18 DEF Checks, runVars, Handling, WorkerType, WorkerStates, HandTypes, CallerStates
  <2> QED
    BY <1>18, <2>1, SettledKept DEF Checks, runVars, process, runVars, WorkerType, WorkerStates
<1>19. ASSUME NEW c \in Callers, Inserts(c) PROVE SettledInv'
  <2>1. CASE /\ issued < MaxRuns /\ StartRun(issued + 1, "manual")
             /\ caller' = [caller EXCEPT ![c] = [pc |-> "post", run |-> issued + 1]]
    <3>1. issued + 1 \in Runs /\ NothingRuns
      BY <2>1 DEF RowTypes, Runs, StartRun
    <3>2. \A s \in Runs \ {issued + 1} : rows'[s] \in {rows[s], NoRow}
      BY <2>1, <3>1, StartRunRows
    <3>3. \A s \in Runs \ {issued + 1} : rows'[s].status # "running"
      BY <3>1, <3>2 DEF NothingRuns, Running, NoRow
    <3>4. \A s \in Runs : Running(s)' => s = issued + 1
      BY <3>3 DEF Running
    <3>5. \A s \in Runs : s = issued + 1 => Handling(s)'
      BY <1>19, <2>1 DEF Inserts, Handling, Worker, HandTypes
    <3> QED
      BY <3>4, <3>5 DEF SettledInv
  <2>2. CASE caller' = [caller EXCEPT ![c] = IdleCaller] /\ UNCHANGED runVars
    <3>1. \A r \in Runs : Handling(r) => Handling(r)'
      BY <1>19, <2>2 DEF Inserts, Handling, HandTypes
    <3> QED
      BY <1>19, <2>2, <3>1, SettledKept DEF Inserts, process, runVars
  <2> QED
    BY <1>19, <2>1, <2>2 DEF Inserts
<1>20. ASSUME NEW c \in Callers, Posts(c) PROVE SettledInv'
  <2>1. manual = <<>> /\ manual' = <<caller[c].run>> /\ UNCHANGED <<rows, orphaned>>
    BY <1>20 DEF Posts, HandsInv, Tokens
  <2>2. \A r \in Runs : Handling(r) => Handling(r)'
    <3>1. \A r \in Runs : Handling(r) => r = caller[c].run
      BY <1>20, <2>1, HandlingIs DEF Posts, HandsInv, Tokens
    <3> QED
      BY <2>1, <3>1 DEF Handling
  <2> QED
    BY <1>20, <2>1, <2>2, SettledKept DEF Posts, process
<1>21. ASSUME NEW d \in Dests, SwitchDestination(d) PROVE SettledInv'
  <2>1. \A r \in Runs : Handling(r) => Handling(r)'
    BY <1>21 DEF SwitchDestination, Edit, Handling, WorkerType, WorkerStates, HandTypes,
       CallerStates
  <2> QED
    BY <1>21, <2>1, SettledKept DEF SwitchDestination, Edit, process, runVars, WorkerType,
       WorkerStates
<1>22. ASSUME SwitchSchedule PROVE SettledInv'
  <2>1. \A r \in Runs : Handling(r) => Handling(r)'
    BY <1>22 DEF SwitchSchedule, Edit, Handling, WorkerType, WorkerStates, HandTypes, CallerStates
  <2> QED
    BY <1>22, <2>1, SettledKept DEF SwitchSchedule, Edit, process, runVars, WorkerType, WorkerStates
<1>23. ASSUME Tick PROVE SettledInv'
  <2>1. \A r \in Runs : Handling(r) => Handling(r)'
    BY <1>23 DEF Tick, runVars, Handling, WorkerType, WorkerStates, HandTypes, CallerStates
  <2> QED
    BY <1>23, <2>1, SettledKept DEF Tick, runVars, process, runVars, WorkerType, WorkerStates
<1>24. ASSUME Stop PROVE SettledInv'
  BY <1>24 DEF Stop, SettledInv
<1>25. ASSUME Ends PROVE SettledInv'
  BY <1>25 DEF Ends, SettledInv
<1>26. ASSUME Starts PROVE SettledInv'
  <2>1. worker'.pc = "sweep" /\ starts' = starts + 1 /\ UNCHANGED <<rows, owner>>
    BY <1>26 DEF Starts, Worker, runVars
  <2>2. \A r \in Runs : Running(r) => owner[r] <= starts /\ owner[r] \in Int /\ starts \in Int
    BY BackupAssumption DEF RowsInv, RowTypes, ClockTypes, Running
  <2>3. \A r \in Runs : Running(r)' => owner'[r] < starts'
    BY <2>1, <2>2 DEF Running
  <2> QED
    BY <2>1, <2>3 DEF SettledInv
<1> USE DEF runVars, atDests, settings, process, SettledInv, Handling, Running
<1>27. CASE UNCHANGED vars
  BY <1>27 DEF vars
<1> QED
  BY <1>1, <1>2, <1>3, <1>4, <1>5, <1>6, <1>7, <1>8, <1>9, <1>10, <1>11, <1>12, <1>13, <1>14,
     <1>15, <1>16, <1>17, <1>18, <1>19, <1>20, <1>21, <1>22, <1>23, <1>24, <1>25, <1>26, <1>27 DEF
     Next, WorkerStep

-----------------------------------------------------------------------------
\* Every instant is a number.
LEMMA InstantsAreNumbers ==
  /\ Instants \subseteq Nat /\ Due \subseteq Nat \ {0}
  /\ \A t \in Nat : Previous(t) \in Nat /\ Following(t) \in Nat
<1>1. Instants \subseteq Nat /\ Due \subseteq Nat \ {0}
  BY BackupAssumption
<1>2. \A t \in Nat : Previous(t) \in Due \cup {0} /\ Following(t) \in Due \cup {0}
  BY PreviousIsLatest, FollowingIsLater
<1>3. \A d \in Due \cup {0} : d \in Nat
  BY <1>1
<1> QED
  BY <1>1, <1>2, <1>3

\* As time goes on, the instant last due only moves on with it.
LEMMA PreviousGrows ==
  ASSUME NEW t \in Nat, NEW u \in Nat, t <= u
  PROVE  Previous(t) <= Previous(u)
<1>1. Previous(t) \in Due \cup {0} /\ Previous(t) <= t /\ Previous(u) \in Due \cup {0}
  BY PreviousIsLatest
<1>2. \A d \in Due : d \in Nat
  BY BackupAssumption
<1>3. CASE Previous(t) = 0
  BY <1>1, <1>2, <1>3
<1>4. CASE Previous(t) \in Due
  <2>1. Previous(t) \in Nat /\ Previous(t) <= u
    BY <1>1, <1>2, <1>4
  <2> QED
    BY <1>4, <2>1, PreviousIsLatest
<1> QED
  BY <1>1, <1>3, <1>4

\* The newest scheduled row is the newest of those there are.
LEMMA LatestScheduled ==
  ASSUME RowTypes, ScheduledAt # {}
  PROVE  Latest(ScheduledAt) \in ScheduledAt /\ \A u \in ScheduledAt : u <= Latest(ScheduledAt)
<1>1. ScheduledAt \subseteq 0 .. MaxClock + 2 * MaxStarts /\ MaxClock + 2 * MaxStarts \in Int /\
      0 \in Int
  BY BackupAssumption DEF ScheduledAt, RowTypes, RowStates
<1>2. IsFiniteSet(0 .. MaxClock + 2 * MaxStarts)
  BY <1>1, FS_Interval
<1>3. IsFiniteSet(ScheduledAt)
  BY <1>1, <1>2, FS_Subset
<1>4. IsFiniteSet(ScheduledAt) /\ ScheduledAt \subseteq Int
  BY <1>1, <1>3
<1>5. \E x \in ScheduledAt : \A y \in ScheduledAt : y <= x
  BY <1>4, Largest
<1> QED
  BY <1>5 DEF Latest

\* What was taken stays taken, and only a scheduled run takes the instant now due.
LEMMA TakenBy ==
  ASSUME NEW r, NEW trig, StartRun(r, trig)
  PROVE  taken' = IF trig = "schedule" THEN taken \cup {Previous(clock)} ELSE taken
BY DEF StartRun

\* Only what is due is taken.
LEMMA TakenIsPastHolds ==
  ASSUME ClockTypes, RowTypes, WorkerType, HandTypes, RowsInv, HandsInv, ScheduleInv, [Next]_vars
  PROVE  TakenIsPast'
<1> USE BackupAssumption
<1>1. ASSUME Sweep PROVE TakenIsPast'
  BY <1>1 DEF Sweep, runVars, ScheduleInv, TakenIsPast
<1>2. ASSUME CatchUp PROVE TakenIsPast'
  BY <1>2 DEF CatchUp, runVars, ScheduleInv, TakenIsPast
<1>3. ASSUME Arm PROVE TakenIsPast'
  BY <1>3 DEF Arm, runVars, ScheduleInv, TakenIsPast
<1>4. ASSUME Woken PROVE TakenIsPast'
  BY <1>4 DEF Woken, runVars, ScheduleInv, TakenIsPast
<1>5. ASSUME TakesManual PROVE TakenIsPast'
  BY <1>5 DEF TakesManual, runVars, ScheduleInv, TakenIsPast
<1>6. ASSUME TimerFires PROVE TakenIsPast'
  BY <1>6 DEF TimerFires, runVars, ScheduleInv, TakenIsPast
<1>7. ASSUME Leaves PROVE TakenIsPast'
  BY <1>7 DEF Leaves, runVars, ScheduleInv, TakenIsPast
<1>8. ASSUME FireChecks PROVE TakenIsPast'
  BY <1>8 DEF FireChecks, runVars, ScheduleInv, TakenIsPast
<1>9. ASSUME FireInserts PROVE TakenIsPast'
  <2>1. CASE StartRun(issued + 1, "schedule")
    BY <1>9, <2>1, TakenBy, PreviousIsLatest DEF FireInserts, ClockTypes, ScheduleInv, TakenIsPast
  <2>2. CASE UNCHANGED runVars
    BY <1>9, <2>2 DEF FireInserts, runVars, ClockTypes, ScheduleInv, TakenIsPast
  <2> QED
    BY <1>9, <2>1, <2>2 DEF FireInserts
<1>10. ASSUME FirePosts PROVE TakenIsPast'
  BY <1>10 DEF FirePosts, runVars, ScheduleInv, TakenIsPast
<1>11. ASSUME Drain PROVE TakenIsPast'
  BY <1>11 DEF Drain, runVars, ScheduleInv, TakenIsPast
<1>12. ASSUME Writes PROVE TakenIsPast'
  BY <1>12 DEF Writes, runVars, ScheduleInv, TakenIsPast
<1>13. ASSUME ReadsDestinations PROVE TakenIsPast'
  BY <1>13 DEF ReadsDestinations, runVars, ScheduleInv, TakenIsPast
<1>14. ASSUME Sent PROVE TakenIsPast'
  BY <1>14 DEF Sent, runVars, ScheduleInv, TakenIsPast
<1>15. ASSUME Settles PROVE TakenIsPast'
  BY <1>15 DEF Settles, runVars, ScheduleInv, TakenIsPast
<1>16. ASSUME NEW d \in Dests, Puts(d) PROVE TakenIsPast'
  BY <1>16 DEF Puts, runVars, ScheduleInv, TakenIsPast
<1>17. ASSUME NEW d \in Dests, Prunes(d) PROVE TakenIsPast'
  BY <1>17 DEF Prunes, runVars, ScheduleInv, TakenIsPast
<1>18. ASSUME NEW c \in Callers, Checks(c) PROVE TakenIsPast'
  BY <1>18 DEF Checks, runVars, ScheduleInv, TakenIsPast
<1>19. ASSUME NEW c \in Callers, Inserts(c) PROVE TakenIsPast'
  <2>1. CASE StartRun(issued + 1, "manual")
    BY <1>19, <2>1, TakenBy, PreviousIsLatest DEF Inserts, ClockTypes, ScheduleInv, TakenIsPast
  <2>2. CASE UNCHANGED runVars
    BY <1>19, <2>2 DEF Inserts, runVars, ClockTypes, ScheduleInv, TakenIsPast
  <2> QED
    BY <1>19, <2>1, <2>2 DEF Inserts
<1>20. ASSUME NEW c \in Callers, Posts(c) PROVE TakenIsPast'
  BY <1>20 DEF Posts, runVars, ScheduleInv, TakenIsPast
<1>21. ASSUME NEW d \in Dests, SwitchDestination(d) PROVE TakenIsPast'
  BY <1>21 DEF SwitchDestination, runVars, ScheduleInv, TakenIsPast
<1>22. ASSUME SwitchSchedule PROVE TakenIsPast'
  BY <1>22 DEF SwitchSchedule, runVars, ScheduleInv, TakenIsPast
<1>23. ASSUME Tick PROVE TakenIsPast'
  <2>1. clock' \in Int /\ clock <= clock' /\ clock \in Int /\ UNCHANGED taken
    BY <1>23 DEF Tick, runVars, ClockTypes
  <2>2. taken \subseteq Int
    BY InstantsAreNumbers DEF RowTypes
  <2> QED
    BY <2>1, <2>2 DEF ScheduleInv, TakenIsPast
<1>24. ASSUME Stop PROVE TakenIsPast'
  BY <1>24 DEF Stop, runVars, ScheduleInv, TakenIsPast
<1>25. ASSUME Ends PROVE TakenIsPast'
  BY <1>25 DEF Ends, runVars, ScheduleInv, TakenIsPast
<1>26. ASSUME Starts PROVE TakenIsPast'
  <2>1. clock' \in Int /\ clock <= clock' /\ clock \in Int /\ UNCHANGED taken
    BY <1>26 DEF Starts, runVars, ClockTypes
  <2>2. taken \subseteq Int
    BY InstantsAreNumbers DEF RowTypes
  <2> QED
    BY <2>1, <2>2 DEF ScheduleInv, TakenIsPast
<1> USE DEF runVars, atDests, settings, process, ScheduleInv, TakenIsPast
<1>27. CASE UNCHANGED vars
  BY <1>27 DEF vars
<1> QED
  BY <1>1, <1>2, <1>3, <1>4, <1>5, <1>6, <1>7, <1>8, <1>9, <1>10, <1>11, <1>12, <1>13, <1>14,
     <1>15, <1>16, <1>17, <1>18, <1>19, <1>20, <1>21, <1>22, <1>23, <1>24, <1>25, <1>26, <1>27 DEF
     Next, WorkerStep

\* The timer is armed for an instant not taken yet.
LEMMA ArmedIsLaterHolds ==
  ASSUME ClockTypes, RowTypes, WorkerType, HandTypes, RowsInv, HandsInv, ScheduleInv, [Next]_vars
  PROVE  ArmedIsLater'
<1> USE BackupAssumption
<1>1. ASSUME Sweep PROVE ArmedIsLater'
  BY <1>1 DEF Sweep, Goto, At, runVars, WorkerType, WorkerStates, ScheduleInv, ArmedIsLater
<1>2. ASSUME CatchUp PROVE ArmedIsLater'
  BY <1>2 DEF CatchUp, Goto, At, runVars, WorkerType, WorkerStates, ScheduleInv, ArmedIsLater
<1>3. ASSUME Arm PROVE ArmedIsLater'
  <2>1. worker'.armed \in {0, Following(clock)}
    BY <1>3 DEF Arm, Worker
  <2>2. Following(clock) = 0 \/ (Following(clock) \in Int /\ Following(clock) > clock)
    BY FollowingIsLater, InstantsAreNumbers DEF ClockTypes
  <2>3. clock \in Int /\ taken \subseteq Int
    BY InstantsAreNumbers DEF ClockTypes, RowTypes
  <2> QED
    BY <1>3, <2>1, <2>2, <2>3 DEF Arm, runVars, ScheduleInv, TakenIsPast, ArmedIsLater
<1>4. ASSUME Woken PROVE ArmedIsLater'
  BY <1>4 DEF Woken, Rearm, Worker, At, runVars, WorkerType, WorkerStates, ScheduleInv, ArmedIsLater
<1>5. ASSUME TakesManual PROVE ArmedIsLater'
  BY <1>5 DEF TakesManual, Worker, At, runVars, WorkerType, WorkerStates, ScheduleInv, ArmedIsLater
<1>6. ASSUME TimerFires PROVE ArmedIsLater'
  BY <1>6 DEF TimerFires, Goto, At, runVars, WorkerType, WorkerStates, ScheduleInv, ArmedIsLater
<1>7. ASSUME Leaves PROVE ArmedIsLater'
  BY <1>7 DEF Leaves, Goto, At, runVars, WorkerType, WorkerStates, ScheduleInv, ArmedIsLater
<1>8. ASSUME FireChecks PROVE ArmedIsLater'
  BY <1>8 DEF FireChecks, Goto, Rearm, Worker, At, runVars, WorkerType, WorkerStates,
     ScheduleInv, ArmedIsLater
<1>9. ASSUME FireInserts PROVE ArmedIsLater'
  <2>1. worker'.armed = 0
    <3>1. CASE worker' = [Worker("post") EXCEPT !.run = issued + 1, !.trig = "schedule"]
      BY <3>1 DEF Worker
    <3>2. CASE worker' = Worker("arm")
      BY <3>2 DEF Worker
    <3> QED
      BY <1>9, <3>1, <3>2 DEF FireInserts, Rearm
  <2> QED
    BY <2>1 DEF ArmedIsLater
<1>10. ASSUME FirePosts PROVE ArmedIsLater'
  BY <1>10 DEF FirePosts, Goto, Rearm, Worker, At, runVars, WorkerType, WorkerStates,
     ScheduleInv, ArmedIsLater
<1>11. ASSUME Drain PROVE ArmedIsLater'
  BY <1>11 DEF Drain, Goto, At, runVars, WorkerType, WorkerStates, ScheduleInv, ArmedIsLater
<1>12. ASSUME Writes PROVE ArmedIsLater'
  BY <1>12 DEF Writes, At, Fails, runVars, WorkerType, WorkerStates, ScheduleInv, ArmedIsLater
<1>13. ASSUME ReadsDestinations PROVE ArmedIsLater'
  BY <1>13 DEF ReadsDestinations, At, Fails, runVars, WorkerType, WorkerStates, ScheduleInv,
     ArmedIsLater
<1>14. ASSUME Sent PROVE ArmedIsLater'
  BY <1>14 DEF Sent, Goto, At, runVars, WorkerType, WorkerStates, ScheduleInv, ArmedIsLater
<1>15. ASSUME Settles PROVE ArmedIsLater'
  BY <1>15 DEF Settles, At, Rearm, Worker, runVars, WorkerType, WorkerStates, ScheduleInv,
     ArmedIsLater
<1>16. ASSUME NEW d \in Dests, Puts(d) PROVE ArmedIsLater'
  BY <1>16 DEF Puts, At, Fails, runVars, WorkerType, WorkerStates, ScheduleInv, ArmedIsLater
<1>17. ASSUME NEW d \in Dests, Prunes(d) PROVE ArmedIsLater'
  BY <1>17 DEF Prunes, Lists, At, Fails, runVars, WorkerType, WorkerStates, ScheduleInv,
     ArmedIsLater
<1>18. ASSUME NEW c \in Callers, Checks(c) PROVE ArmedIsLater'
  BY <1>18 DEF Checks, At, runVars, WorkerType, WorkerStates, ScheduleInv, ArmedIsLater
<1>19. ASSUME NEW c \in Callers, Inserts(c) PROVE ArmedIsLater'
  <2>1. UNCHANGED taken
    BY <1>19, TakenBy DEF Inserts, runVars
  <2> QED
    BY <1>19, <2>1 DEF Inserts, ScheduleInv, ArmedIsLater
<1>20. ASSUME NEW c \in Callers, Posts(c) PROVE ArmedIsLater'
  BY <1>20 DEF Posts, vars, runVars, WorkerType, WorkerStates, ScheduleInv, ArmedIsLater
<1>21. ASSUME NEW d \in Dests, SwitchDestination(d) PROVE ArmedIsLater'
  BY <1>21 DEF SwitchDestination, Edit, runVars, WorkerType, WorkerStates, ScheduleInv, ArmedIsLater
<1>22. ASSUME SwitchSchedule PROVE ArmedIsLater'
  BY <1>22 DEF SwitchSchedule, Edit, runVars, WorkerType, WorkerStates, ScheduleInv, ArmedIsLater
<1>23. ASSUME Tick PROVE ArmedIsLater'
  BY <1>23 DEF Tick, At, runVars, WorkerType, WorkerStates, ScheduleInv, ArmedIsLater
<1>24. ASSUME Stop PROVE ArmedIsLater'
  BY <1>24 DEF Stop, At, runVars, WorkerType, WorkerStates, ScheduleInv, ArmedIsLater
<1>25. ASSUME Ends PROVE ArmedIsLater'
  BY <1>25 DEF Ends, Worker, runVars, WorkerType, WorkerStates, ScheduleInv, ArmedIsLater
<1>26. ASSUME Starts PROVE ArmedIsLater'
  BY <1>26 DEF Starts, Worker, runVars, WorkerType, WorkerStates, ScheduleInv, ArmedIsLater
<1> USE DEF runVars, atDests, settings, process, ScheduleInv, ArmedIsLater
<1>27. CASE UNCHANGED vars
  BY <1>27 DEF vars
<1> QED
  BY <1>1, <1>2, <1>3, <1>4, <1>5, <1>6, <1>7, <1>8, <1>9, <1>10, <1>11, <1>12, <1>13, <1>14,
     <1>15, <1>16, <1>17, <1>18, <1>19, <1>20, <1>21, <1>22, <1>23, <1>24, <1>25, <1>26, <1>27 DEF
     Next, WorkerStep

\* When the worker comes to begin a run, by timer or catching up, what is due is untaken.
LEMMA DueIsUntakenHolds ==
  ASSUME ClockTypes, RowTypes, WorkerType, HandTypes, RowsInv, HandsInv, ScheduleInv, [Next]_vars
  PROVE  DueIsUntaken'
<1> USE BackupAssumption
<1>1. ASSUME Sweep PROVE DueIsUntaken'
  BY <1>1 DEF Sweep, Goto, At, runVars, WorkerType, WorkerStates, ScheduleInv, DueIsUntaken
<1>2. ASSUME CatchUp PROVE DueIsUntaken'
  <2>1. CASE Missed
    <3>1. \E s \in Runs : rows[s].trig = "schedule"
      BY <2>1 DEF Missed, ScheduledAt
    <3>2. \A t \in taken : \E u \in ScheduledAt : t <= u
      BY <3>1 DEF ScheduleInv, TakenIsRecorded, ScheduledAt
    <3>8. \A u \in ScheduledAt : u \in Int
      BY InstantsAreNumbers DEF ScheduledAt, RowTypes, RowStates
    <3>3. \A u \in ScheduledAt : u <= Latest(ScheduledAt) /\ u \in Int
      BY <2>1, <3>8, LatestScheduled DEF Missed
    <3>4. Latest(ScheduledAt) < Previous(clock) /\ Latest(ScheduledAt) \in Int
      BY <2>1, <3>3, LatestScheduled DEF Missed
    <3>5. Previous(clock) \in Int /\ taken \subseteq Int
      BY PreviousIsLatest, InstantsAreNumbers DEF ClockTypes, RowTypes
    <3>6. \A t \in taken : t < Previous(clock)
      BY <3>2, <3>3, <3>4, <3>5
    <3>7. UNCHANGED <<clock, taken>>
      BY <1>2 DEF CatchUp, runVars
    <3> QED
      BY <3>6, <3>7 DEF DueIsUntaken
  <2>2. CASE Goto("arm")
    BY <1>2, <2>2 DEF Goto, WorkerType, WorkerStates, DueIsUntaken
  <2> QED
    BY <1>2, <2>1, <2>2 DEF CatchUp
<1>3. ASSUME Arm PROVE DueIsUntaken'
  BY <1>3 DEF Arm, Worker, At, runVars, WorkerType, WorkerStates, ScheduleInv, DueIsUntaken
<1>4. ASSUME Woken PROVE DueIsUntaken'
  BY <1>4 DEF Woken, Rearm, Worker, At, runVars, WorkerType, WorkerStates, ScheduleInv, DueIsUntaken
<1>5. ASSUME TakesManual PROVE DueIsUntaken'
  BY <1>5 DEF TakesManual, Worker, At, runVars, WorkerType, WorkerStates, ScheduleInv, DueIsUntaken
<1>6. ASSUME TimerFires PROVE DueIsUntaken'
  <2>4. worker.armed \in Due /\ worker.armed <= clock
    BY <1>6, InstantsAreNumbers DEF TimerFires, WorkerType, WorkerStates, ClockTypes
  <2>1. worker.armed \in Due /\ worker.armed \in Int /\ clock \in Nat
    <3>1. \A d \in Due : d \in Int
      BY InstantsAreNumbers
    <3> QED
      BY <2>4, <3>1 DEF ClockTypes
  <2>5. Previous(clock) \in Int
    BY <2>1, InstantsAreNumbers
  <2>2. worker.armed <= Previous(clock) /\ Previous(clock) \in Int
    BY <2>1, <2>4, <2>5, PreviousIsLatest
  <2>3. taken \subseteq Int /\ \A t \in taken : t < worker.armed
    BY <1>6, InstantsAreNumbers DEF TimerFires, RowTypes, ScheduleInv, ArmedIsLater
  <2> QED
    BY <1>6, <2>1, <2>2, <2>3 DEF TimerFires, runVars, DueIsUntaken
<1>7. ASSUME Leaves PROVE DueIsUntaken'
  BY <1>7 DEF Leaves, Goto, At, runVars, WorkerType, WorkerStates, ScheduleInv, DueIsUntaken
<1>8. ASSUME FireChecks PROVE DueIsUntaken'
  BY <1>8 DEF FireChecks, Goto, Rearm, Worker, At, runVars, WorkerType, WorkerStates,
     ScheduleInv, DueIsUntaken
<1>9. ASSUME FireInserts PROVE DueIsUntaken'
  <2>1. worker'.pc \notin {"check", "insert"}
    <3>1. CASE worker' = [Worker("post") EXCEPT !.run = issued + 1, !.trig = "schedule"]
      BY <3>1 DEF Worker
    <3>2. CASE worker' = Worker("arm")
      BY <3>2 DEF Worker
    <3> QED
      BY <1>9, <3>1, <3>2 DEF FireInserts, Rearm
  <2> QED
    BY <2>1 DEF DueIsUntaken
<1>10. ASSUME FirePosts PROVE DueIsUntaken'
  BY <1>10 DEF FirePosts, Goto, Rearm, Worker, At, runVars, WorkerType, WorkerStates,
     ScheduleInv, DueIsUntaken
<1>11. ASSUME Drain PROVE DueIsUntaken'
  BY <1>11 DEF Drain, Goto, At, runVars, WorkerType, WorkerStates, ScheduleInv, DueIsUntaken
<1>12. ASSUME Writes PROVE DueIsUntaken'
  BY <1>12 DEF Writes, At, Fails, runVars, WorkerType, WorkerStates, ScheduleInv, DueIsUntaken
<1>13. ASSUME ReadsDestinations PROVE DueIsUntaken'
  BY <1>13 DEF ReadsDestinations, At, Fails, runVars, WorkerType, WorkerStates, ScheduleInv,
     DueIsUntaken
<1>14. ASSUME Sent PROVE DueIsUntaken'
  BY <1>14 DEF Sent, Goto, At, runVars, WorkerType, WorkerStates, ScheduleInv, DueIsUntaken
<1>15. ASSUME Settles PROVE DueIsUntaken'
  BY <1>15 DEF Settles, At, Rearm, Worker, runVars, WorkerType, WorkerStates, ScheduleInv,
     DueIsUntaken
<1>16. ASSUME NEW d \in Dests, Puts(d) PROVE DueIsUntaken'
  BY <1>16 DEF Puts, At, Fails, runVars, WorkerType, WorkerStates, ScheduleInv, DueIsUntaken
<1>17. ASSUME NEW d \in Dests, Prunes(d) PROVE DueIsUntaken'
  BY <1>17 DEF Prunes, Lists, At, Fails, runVars, WorkerType, WorkerStates, ScheduleInv,
     DueIsUntaken
<1>18. ASSUME NEW c \in Callers, Checks(c) PROVE DueIsUntaken'
  BY <1>18 DEF Checks, At, runVars, WorkerType, WorkerStates, ScheduleInv, DueIsUntaken
<1>19. ASSUME NEW c \in Callers, Inserts(c) PROVE DueIsUntaken'
  <2>1. UNCHANGED taken
    BY <1>19, TakenBy DEF Inserts, runVars
  <2> QED
    BY <1>19, <2>1 DEF Inserts, ScheduleInv, DueIsUntaken
<1>20. ASSUME NEW c \in Callers, Posts(c) PROVE DueIsUntaken'
  BY <1>20 DEF Posts, vars, runVars, WorkerType, WorkerStates, ScheduleInv, DueIsUntaken
<1>21. ASSUME NEW d \in Dests, SwitchDestination(d) PROVE DueIsUntaken'
  BY <1>21 DEF SwitchDestination, Edit, runVars, WorkerType, WorkerStates, ScheduleInv, DueIsUntaken
<1>22. ASSUME SwitchSchedule PROVE DueIsUntaken'
  BY <1>22 DEF SwitchSchedule, Edit, runVars, WorkerType, WorkerStates, ScheduleInv, DueIsUntaken
<1>23. ASSUME Tick PROVE DueIsUntaken'
  <2>3. clock \in Nat /\ clock' = clock + 1 /\ clock + 1 \in Nat
    BY <1>23 DEF Tick, ClockTypes
  <2>4. Previous(clock) <= Previous(clock + 1)
    BY <2>3, PreviousGrows
  <2>5. Previous(clock) \in Int /\ Previous(clock + 1) \in Int
    <3>1. \A t \in Nat : Previous(t) \in Nat
      BY InstantsAreNumbers
    <3> QED
      BY <2>3, <3>1
  <2>1. Previous(clock) <= Previous(clock') /\ Previous(clock) \in Int /\ Previous(clock') \in Int
    BY <2>3, <2>4, <2>5
  <2>2. taken \subseteq Int /\ UNCHANGED <<taken, worker>>
    BY <1>23, InstantsAreNumbers DEF Tick, RowTypes, runVars
  <2> QED
    BY <2>1, <2>2 DEF ScheduleInv, DueIsUntaken
<1>24. ASSUME Stop PROVE DueIsUntaken'
  BY <1>24 DEF Stop, At, runVars, WorkerType, WorkerStates, ScheduleInv, DueIsUntaken
<1>25. ASSUME Ends PROVE DueIsUntaken'
  <2>1. worker'.pc \notin {"check", "insert"}
    BY <1>25 DEF Ends, Worker
  <2> QED
    BY <2>1 DEF DueIsUntaken
<1>26. ASSUME Starts PROVE DueIsUntaken'
  <2>1. worker'.pc \notin {"check", "insert"}
    BY <1>26 DEF Starts, Worker
  <2> QED
    BY <2>1 DEF DueIsUntaken
<1> USE DEF runVars, atDests, settings, process, ScheduleInv, DueIsUntaken
<1>27. CASE UNCHANGED vars
  BY <1>27 DEF vars
<1> QED
  BY <1>1, <1>2, <1>3, <1>4, <1>5, <1>6, <1>7, <1>8, <1>9, <1>10, <1>11, <1>12, <1>13, <1>14,
     <1>15, <1>16, <1>17, <1>18, <1>19, <1>20, <1>21, <1>22, <1>23, <1>24, <1>25, <1>26, <1>27 DEF
     Next, WorkerStep

\* Of two rows the newer outlives the older.
LEMMA NewestIsUpward ==
  ASSUME NEW rs \in [Runs -> RowStates], NEW s \in Newest(rs), NEW q \in Runs,
         rs[q].status # "none", rs[s].at < rs[q].at
  PROVE  q \in Newest(rs)
<1> DEFINE newer(r) == {x \in Runs : /\ rs[x].status # "none"
                                     /\ rs[x].at > rs[r].at \/ (rs[x].at = rs[r].at /\ x > r)}
<1>1. s \in Runs /\ Cardinality(newer(s)) < KeepRuns
  BY DEF Newest
<1>2. \A x \in Runs : rs[x].at \in Int
  <2>1. \A x \in Runs : rs[x].at \in Instants
    BY DEF RowStates
  <2>2. \A d \in Instants : d \in Int
    BY InstantsAreNumbers
  <2> QED
    BY <2>1, <2>2
<1>3. newer(q) \subseteq newer(s)
  BY <1>1, <1>2
<1>4. MaxRuns \in Int /\ 1 \in Int /\ Runs = 1 .. MaxRuns
  BY BackupAssumption DEF Runs
<1>5. IsFiniteSet(Runs)
  BY <1>4, FS_Interval
<1>6. IsFiniteSet(newer(s)) /\ IsFiniteSet(newer(q))
  BY <1>5, FS_Subset
<1>7. Cardinality(newer(q)) <= Cardinality(newer(s))
  BY <1>3, <1>6, FS_Subset
<1>8. Cardinality(newer(q)) \in Nat /\ Cardinality(newer(s)) \in Nat /\ KeepRuns \in Nat
  BY <1>6, FS_CardinalityType, BackupAssumption
<1>9. Cardinality(newer(q)) < KeepRuns
  BY <1>1, <1>7, <1>8
<1> QED
  BY <1>9 DEF Newest

\* Settling rows changes neither why nor when they were begun.
LEMMA RecordedKept ==
  ASSUME TakenIsRecorded, UNCHANGED taken,
         \A r \in Runs : rows'[r].trig = rows[r].trig /\ rows'[r].at = rows[r].at
  PROVE  TakenIsRecorded'
BY DEF TakenIsRecorded

\* A row that is trimmed leaves a newer one behind, if one is left at all.
LEMMA RecordedOnStart ==
  ASSUME ClockTypes, RowTypes, RowsInv, TakenIsPast, TakenIsRecorded, UNCHANGED clock,
         NEW r \in Runs, NEW trig \in {"manual", "schedule"}, StartRun(r, trig), r > issued
  PROVE  TakenIsRecorded'
<1> DEFINE new == [status |-> "running", trig |-> trig, at |-> clock]
           rs == [rows EXCEPT ![r] = new]
<1>1. clock \in Instants /\ clock \in Int /\ \A x \in taken : x \in Int
  BY ClockIsInstant, InstantsAreNumbers DEF RowTypes, ClockTypes
<1>2. new \in RowStates
  BY <1>1 DEF RowStates, Statuses
<1>3. rs \in [Runs -> RowStates] /\ rs[r] = new /\ \A s \in Runs \ {r} : rs[s] = rows[s]
  BY <1>2 DEF RowTypes
<1>4. rows' = [s \in Runs |-> IF rs[s].status = "running" \/ s \in Newest(rs) THEN rs[s] ELSE NoRow]
  BY DEF StartRun, Trimmed
<1>5. rows'[r] = new
  BY <1>3, <1>4
<1>6. CASE trig = "schedule"
  <2>1. taken' = taken \cup {Previous(clock)} /\ Previous(clock) <= clock
    BY <1>6, PreviousIsLatest DEF StartRun, ClockTypes
  <2>2. \A x \in taken' : x <= clock
    BY <2>1 DEF TakenIsPast
  <2> QED
    BY <1>5, <1>6, <2>2 DEF TakenIsRecorded
<1>7. CASE trig = "manual"
  <2>1. taken' = taken
    BY <1>7 DEF StartRun
  <2>2. SUFFICES ASSUME NEW s \in Runs, rows'[s].trig = "schedule", NEW x \in taken
                 PROVE  \E q \in Runs : rows'[q].trig = "schedule" /\ x <= rows'[q].at
    BY <2>1 DEF TakenIsRecorded
  <2>3. s # r
    BY <1>5, <1>7, <2>2
  <2>4. rs[s] = rows[s] /\ s \in Newest(rs) /\ rows'[s] = rows[s]
    <3>1. rs[s] = rows[s] /\ rows[s].status # "running"
      BY <1>3, <2>3 DEF StartRun, NothingRuns, Running
    <3>2. rows'[s] # NoRow
      BY <2>2 DEF NoRow
    <3> HIDE DEF rs
    <3> QED
      BY <1>4, <3>1, <3>2
  <2>5. PICK q \in Runs : rows[q].trig = "schedule" /\ x <= rows[q].at
    BY <2>2, <2>4 DEF TakenIsRecorded
  <2>6. rows[q].status # "none" /\ q # r
    BY <2>5 DEF RowsInv, NoRow
  <2>7. rows[s].at \in Int /\ rows[q].at \in Int /\ x \in Int
    <3>1. rows[s].at \in Instants /\ rows[q].at \in Instants
      BY DEF RowTypes, RowStates
    <3>2. \A d \in Instants : d \in Int
      BY InstantsAreNumbers
    <3> QED
      BY <1>1, <3>1, <3>2
  <2>8. CASE rows[q].at <= rows[s].at
    BY <2>2, <2>4, <2>5, <2>7, <2>8
  <2>9. CASE rows[s].at < rows[q].at
    <3>1. rs[q] = rows[q]
      BY <1>3, <2>6
    <3>2. q \in Newest(rs)
      BY <1>3, <2>4, <2>6, <2>9, <3>1, NewestIsUpward
    <3>3. rows'[q] = rows[q]
      BY <1>4, <3>1, <3>2
    <3> QED
      BY <2>5, <3>3
  <2> QED
    BY <2>7, <2>8, <2>9
<1> QED
  BY <1>6, <1>7

\* As long as a scheduled row is left, the newest says what was taken.
LEMMA TakenIsRecordedHolds ==
  ASSUME ClockTypes, RowTypes, WorkerType, HandTypes, RowsInv, HandsInv, ScheduleInv, [Next]_vars
  PROVE  TakenIsRecorded'
<1> USE BackupAssumption
<1>1. ASSUME Sweep PROVE TakenIsRecorded'
  <2>1. \A r \in Runs : rows'[r].trig = rows[r].trig /\ rows'[r].at = rows[r].at
    <3>1. CASE MarkInterrupted
      <4>1. \A r \in Runs : rows[r] \in RowStates
        BY DEF RowTypes
      <4>2. \A r \in Runs : rows'[r] = IF Interrupts(r)
                                       THEN [rows[r] EXCEPT !.status = "interrupted"]
                                       ELSE rows[r]
        BY <3>1, InterruptedRows
      <4> QED
        BY <4>1, <4>2 DEF RowStates
    <3>2. CASE UNCHANGED rows
      BY <3>2
    <3> QED
      BY <1>1, <3>1, <3>2 DEF Sweep
  <2> QED
    BY <1>1, <2>1, RecordedKept DEF Sweep, ScheduleInv
<1>2. ASSUME CatchUp PROVE TakenIsRecorded'
  BY <1>2, RecordedKept DEF CatchUp, runVars, ScheduleInv
<1>3. ASSUME Arm PROVE TakenIsRecorded'
  BY <1>3, RecordedKept DEF Arm, runVars, ScheduleInv
<1>4. ASSUME Woken PROVE TakenIsRecorded'
  BY <1>4, RecordedKept DEF Woken, runVars, ScheduleInv
<1>5. ASSUME TakesManual PROVE TakenIsRecorded'
  BY <1>5, RecordedKept DEF TakesManual, runVars, ScheduleInv
<1>6. ASSUME TimerFires PROVE TakenIsRecorded'
  BY <1>6, RecordedKept DEF TimerFires, runVars, ScheduleInv
<1>7. ASSUME Leaves PROVE TakenIsRecorded'
  BY <1>7, RecordedKept DEF Leaves, runVars, ScheduleInv
<1>8. ASSUME FireChecks PROVE TakenIsRecorded'
  BY <1>8, RecordedKept DEF FireChecks, runVars, ScheduleInv
<1>9. ASSUME FireInserts PROVE TakenIsRecorded'
  <2>1. CASE issued < MaxRuns /\ StartRun(issued + 1, "schedule")
    <3>1. issued + 1 \in Runs /\ issued + 1 > issued
      BY <2>1 DEF RowTypes, Runs
    <3> QED
      BY <1>9, <2>1, <3>1, RecordedOnStart DEF FireInserts, ScheduleInv
  <2>2. CASE UNCHANGED runVars
    BY <1>9, <2>2, RecordedKept DEF FireInserts, runVars, ScheduleInv
  <2> QED
    BY <1>9, <2>1, <2>2 DEF FireInserts
<1>10. ASSUME FirePosts PROVE TakenIsRecorded'
  <2>1. UNCHANGED rows
    BY <1>10 DEF FirePosts, HandsInv, Tokens, At, Working
  <2> QED
    BY <1>10, <2>1, RecordedKept DEF FirePosts, ScheduleInv
<1>11. ASSUME Drain PROVE TakenIsRecorded'
  BY <1>11, RecordedKept DEF Drain, runVars, ScheduleInv
<1>12. ASSUME Writes PROVE TakenIsRecorded'
  BY <1>12, RecordedKept DEF Writes, runVars, ScheduleInv
<1>13. ASSUME ReadsDestinations PROVE TakenIsRecorded'
  BY <1>13, RecordedKept DEF ReadsDestinations, runVars, ScheduleInv
<1>14. ASSUME Sent PROVE TakenIsRecorded'
  BY <1>14, RecordedKept DEF Sent, runVars, ScheduleInv
<1>15. ASSUME Settles PROVE TakenIsRecorded'
  <2>1. worker.run \in Runs /\ Verdict \in Statuses \ {"running"}
    BY <1>15 DEF Settles, At, HandsInv, Tokens, Working, Verdict, Statuses
  <2>2. Settle(worker.run, Verdict, host = "up") /\ UNCHANGED taken
    BY <1>15 DEF Settles
  <2>3. /\ \A s \in Runs \ {worker.run} : rows'[s] = rows[s]
        /\ \/ rows'[worker.run] = rows[worker.run]
           \/ rows'[worker.run] = [rows[worker.run] EXCEPT !.status = Verdict]
    BY <2>1, <2>2, SettleRows
  <2>4. \A s \in Runs : rows'[s].trig = rows[s].trig /\ rows'[s].at = rows[s].at
    <3>1. TAKE s \in Runs
    <3>2. CASE s = worker.run
      BY <2>1, <2>3, <3>2 DEF RowTypes, RowStates
    <3>3. CASE s # worker.run
      BY <2>3, <3>3
    <3> QED
      BY <3>2, <3>3
  <2> QED
    BY <2>2, <2>4, RecordedKept DEF ScheduleInv
<1>16. ASSUME NEW d \in Dests, Puts(d) PROVE TakenIsRecorded'
  BY <1>16, RecordedKept DEF Puts, runVars, ScheduleInv
<1>17. ASSUME NEW d \in Dests, Prunes(d) PROVE TakenIsRecorded'
  BY <1>17, RecordedKept DEF Prunes, runVars, ScheduleInv
<1>18. ASSUME NEW c \in Callers, Checks(c) PROVE TakenIsRecorded'
  BY <1>18, RecordedKept DEF Checks, runVars, ScheduleInv
<1>19. ASSUME NEW c \in Callers, Inserts(c) PROVE TakenIsRecorded'
  <2>1. CASE issued < MaxRuns /\ StartRun(issued + 1, "manual")
    <3>1. issued + 1 \in Runs /\ issued + 1 > issued
      BY <2>1 DEF RowTypes, Runs
    <3> QED
      BY <1>19, <2>1, <3>1, RecordedOnStart DEF Inserts, ScheduleInv
  <2>2. CASE UNCHANGED runVars
    BY <1>19, <2>2, RecordedKept DEF Inserts, runVars, ScheduleInv
  <2> QED
    BY <1>19, <2>1, <2>2 DEF Inserts
<1>20. ASSUME NEW c \in Callers, Posts(c) PROVE TakenIsRecorded'
  <2>1. UNCHANGED rows
    BY <1>20 DEF Posts, HandsInv, Tokens, At, Working
  <2> QED
    BY <1>20, <2>1, RecordedKept DEF Posts, ScheduleInv
<1>21. ASSUME NEW d \in Dests, SwitchDestination(d) PROVE TakenIsRecorded'
  BY <1>21, RecordedKept DEF SwitchDestination, runVars, ScheduleInv
<1>22. ASSUME SwitchSchedule PROVE TakenIsRecorded'
  BY <1>22, RecordedKept DEF SwitchSchedule, runVars, ScheduleInv
<1>23. ASSUME Tick PROVE TakenIsRecorded'
  BY <1>23, RecordedKept DEF Tick, runVars, ScheduleInv
<1>24. ASSUME Stop PROVE TakenIsRecorded'
  BY <1>24, RecordedKept DEF Stop, runVars, ScheduleInv
<1>25. ASSUME Ends PROVE TakenIsRecorded'
  BY <1>25, RecordedKept DEF Ends, runVars, ScheduleInv
<1>26. ASSUME Starts PROVE TakenIsRecorded'
  BY <1>26, RecordedKept DEF Starts, runVars, ScheduleInv
<1> USE DEF runVars, atDests, settings, process, ScheduleInv
<1>27. CASE UNCHANGED vars
  BY <1>27, RecordedKept DEF vars
<1> QED
  BY <1>1, <1>2, <1>3, <1>4, <1>5, <1>6, <1>7, <1>8, <1>9, <1>10, <1>11, <1>12, <1>13, <1>14,
     <1>15, <1>16, <1>17, <1>18, <1>19, <1>20, <1>21, <1>22, <1>23, <1>24, <1>25, <1>26, <1>27 DEF
     Next, WorkerStep

\* The four together.
LEMMA ScheduleInvHolds ==
  ASSUME ClockTypes, RowTypes, WorkerType, HandTypes, RowsInv, HandsInv, ScheduleInv, [Next]_vars
  PROVE  ScheduleInv'
BY TakenIsPastHolds, ArmedIsLaterHolds, DueIsUntakenHolds, TakenIsRecordedHolds DEF ScheduleInv

\* Initially nothing has been asked for, taken or sent.
LEMMA BackupInitially == Init => BackupInv
<1> SUFFICES ASSUME Init PROVE BackupInv
  OBVIOUS
<1> USE BackupAssumption DEF Init
<1>1. ClockTypes
  <2>1. FirstClock \in Nat /\ FirstClock \in Instants /\ FirstClock <= MaxClock + 2 * (1 - 1) /\
        1 \in 1 .. MaxStarts
    OBVIOUS
  <2>2. starts = 1 /\ clock = FirstClock /\ builtAt = FirstClock /\ host = "up" /\ starts - 1 = 0
    OBVIOUS
  <2>3. clock <= MaxClock + 2 * (starts - 1)
    BY <2>1, <2>2
  <2>4. on \subseteq Dests /\ edits \in 0 .. MaxEdits /\ faults \in 0 .. MaxFaults
    OBVIOUS
  <2>5. enabled \in BOOLEAN /\ wake \in BOOLEAN
    BY Zenon
  <2> QED
    BY <2>1, <2>2, <2>3, <2>4, <2>5 DEF ClockTypes
<1>2. RowTypes
  <2>1. NoRow \in RowStates
    BY DEF NoRow, RowStates
  <2> QED
    BY <2>1 DEF RowTypes
<1>3. WorkerType
  BY <1>1, WorkerIsTyped, WorkerPcsAre DEF WorkerType
<1>4. HandTypes
  BY DEF HandTypes, CallerStates, IdleCaller
<1>5. HeldTypes
  <2>1. held \in [Dests -> SUBSET Archives] /\ \A d \in Dests : IsFiniteSet(held[d])
    OBVIOUS
  <2> QED
    BY <2>1 DEF HeldTypes
<1>6. RowsInv
  BY DEF RowsInv, NoRow
<1>7. worker.pc = "sweep" /\ worker.armed = 0 /\ manual = <<>> /\ \A c \in Callers :
      caller[c].pc = "idle"
  BY DEF Worker, IdleCaller
<1>8. \A r \in Runs : ~Running(r) /\ ~Handling(r)
  <2>1. \A r \in Runs : ~Running(r)
    BY DEF Running, NoRow
  <2>2. \A r \in Runs : ~Handling(r)
    BY <1>4, <1>7, HandlingIs DEF Working
  <2> QED
    BY <2>1, <2>2
<1>9. HandsInv
  BY <1>7, <1>8 DEF HandsInv, OneRow, HandledRuns, Tokens, Working
<1>10. SettledInv
  BY <1>8 DEF SettledInv
<1>11. ScheduleInv
  BY <1>7 DEF ScheduleInv, TakenIsPast, ArmedIsLater, DueIsUntaken, TakenIsRecorded
<1> QED
  BY <1>1, <1>2, <1>3, <1>4, <1>5, <1>6, <1>9, <1>10, <1>11 DEF BackupInv

\* The invariant is inductive.
LEMMA BackupInvIsKept == BackupInv /\ [Next]_vars => BackupInv'
BY ClockTypesHold, RowTypesHold, WorkerTypeHolds, HandTypesHold, HeldTypesHold, RowsInvHolds,
   HandsInvHolds, SettledInvHolds, ScheduleInvHolds DEF BackupInv

\* So it always holds.
LEMMA BackupInvHolds == Spec => []BackupInv
BY BackupInitially, BackupInvIsKept, PTL DEF Spec
-----------------------------------------------------------------------------
\* Of two backups never more than one is under way, a row that says one is has
\* somebody to finish it, and only a dead process's is called interrupted
\* (runner.go, Trigger and fire; backups.go, MarkInterrupted).
THEOREM RunsHandled == Spec => []RunsAreHandled
<1>1. BackupInv => RunsAreHandled
  <2> SUFFICES ASSUME BackupInv PROVE RunsAreHandled
    OBVIOUS
  <2>1. clock \in Instants
    BY ClockIsInstant DEF BackupInv
  <2>2. TypeOK
    <3>1. worker \in WorkerStates
      BY DEF BackupInv, WorkerType
    <3>2. /\ worker.armed \in Due \cup {0} /\ worker.run \in Runs \cup {0} /\ worker.at \in Instants
          /\ worker.left \cup worker.reached \cup worker.missed \subseteq Dests
      BY <3>1 DEF WorkerStates
    <3>3. \A c \in Callers : caller[c].pc \in {"idle", "insert", "post"} /\
          caller[c].run \in Runs \cup {0}
      BY DEF BackupInv, HandTypes, CallerStates
    <3> QED
      BY <2>1, <3>2, <3>3 DEF BackupInv, ClockTypes, RowTypes, RowStates, HandTypes, HeldTypes,
         TypeOK
  <2>3. RunningIsHandled
    BY DEF BackupInv, SettledInv, RunningIsHandled
  <2>4. OneAtATime
    BY DEF BackupInv, HandsInv, OneRow, HandledRuns, OneAtATime
  <2>5. InterruptedOutlivedItsProcess
    BY DEF BackupInv, RowsInv, InterruptedOutlivedItsProcess
  <2> QED
    BY <2>2, <2>3, <2>4, <2>5 DEF RunsAreHandled
<1> QED
  BY <1>1, BackupInvHolds, PTL

-----------------------------------------------------------------------------
\* What a step does to a row: nothing, or trimming it, settling it while it is
\* running, or beginning it, for the schedule only when the worker inserts.
RowStep(r) ==
  \/ rows'[r] \in {rows[r], NoRow}
  \/ Running(r) /\ rows'[r].trig = rows[r].trig
  \/ /\ rows[r] = NoRow /\ rows'[r].status = "running" /\ rows'[r].at = clock
     /\ rows'[r].trig = "schedule" => worker.pc = "insert"

\* Every step does that to every row.
LEMMA RowsStep ==
  ASSUME ClockTypes, RowTypes, WorkerType, HandTypes, RowsInv, HandsInv, [Next]_vars
  PROVE  \A r \in Runs : RowStep(r)
<1> USE BackupAssumption
<1>1. ASSUME Sweep PROVE \A r \in Runs : RowStep(r)
  <2>1. CASE MarkInterrupted
    <3>1. TAKE r \in Runs
    <3>2. rows[r] \in RowStates
      BY DEF RowTypes
    <3>3. rows'[r] = IF Interrupts(r) THEN [rows[r] EXCEPT !.status = "interrupted"] ELSE rows[r]
      BY <2>1, InterruptedRows
    <3>4. CASE Interrupts(r)
      BY <3>2, <3>3, <3>4 DEF Interrupts, RowStep, RowStates
    <3> QED
      BY <3>3, <3>4 DEF RowStep
  <2>2. CASE UNCHANGED rows
    BY <2>2 DEF RowStep
  <2> QED
    BY <1>1, <2>1, <2>2 DEF Sweep
<1>2. ASSUME CatchUp PROVE \A r \in Runs : RowStep(r)
  BY <1>2 DEF CatchUp, runVars, RowStep
<1>3. ASSUME Arm PROVE \A r \in Runs : RowStep(r)
  BY <1>3 DEF Arm, runVars, RowStep
<1>4. ASSUME Woken PROVE \A r \in Runs : RowStep(r)
  BY <1>4 DEF Woken, runVars, RowStep
<1>5. ASSUME TakesManual PROVE \A r \in Runs : RowStep(r)
  BY <1>5 DEF TakesManual, runVars, RowStep
<1>6. ASSUME TimerFires PROVE \A r \in Runs : RowStep(r)
  BY <1>6 DEF TimerFires, runVars, RowStep
<1>7. ASSUME Leaves PROVE \A r \in Runs : RowStep(r)
  BY <1>7 DEF Leaves, runVars, RowStep
<1>8. ASSUME FireChecks PROVE \A r \in Runs : RowStep(r)
  BY <1>8 DEF FireChecks, runVars, RowStep
<1>9. ASSUME FireInserts PROVE \A r \in Runs : RowStep(r)
  <2>1. CASE issued < MaxRuns /\ StartRun(issued + 1, "schedule")
    <3>1. issued + 1 \in Runs /\ issued + 1 > issued
      BY <2>1 DEF RowTypes, Runs
    <3>2. rows[issued + 1] = NoRow
      BY <3>1 DEF RowsInv
    <3>3. /\ rows'[issued + 1] = [status |-> "running", trig |-> "schedule", at |-> clock]
          /\ \A s \in Runs \ {issued + 1} : rows'[s] \in {rows[s], NoRow}
      BY <2>1, <3>1, StartRunRows
    <3> QED
      BY <1>9, <3>2, <3>3 DEF FireInserts, At, RowStep
  <2>2. CASE UNCHANGED runVars
    BY <2>2 DEF runVars, RowStep
  <2> QED
    BY <1>9, <2>1, <2>2 DEF FireInserts
<1>10. ASSUME FirePosts PROVE \A r \in Runs : RowStep(r)
  <2>1. UNCHANGED rows
    BY <1>10 DEF FirePosts, HandsInv, Tokens, At, Working
  <2> QED
    BY <2>1 DEF RowStep
<1>11. ASSUME Drain PROVE \A r \in Runs : RowStep(r)
  BY <1>11 DEF Drain, runVars, RowStep
<1>12. ASSUME Writes PROVE \A r \in Runs : RowStep(r)
  BY <1>12 DEF Writes, runVars, RowStep
<1>13. ASSUME ReadsDestinations PROVE \A r \in Runs : RowStep(r)
  BY <1>13 DEF ReadsDestinations, runVars, RowStep
<1>14. ASSUME Sent PROVE \A r \in Runs : RowStep(r)
  BY <1>14 DEF Sent, runVars, RowStep
<1>15. ASSUME Settles PROVE \A r \in Runs : RowStep(r)
  <2>1. worker.run \in Runs /\ Verdict \in Statuses \ {"running"}
    BY <1>15 DEF Settles, At, HandsInv, Tokens, Working, Verdict, Statuses
  <2>2. Settle(worker.run, Verdict, host = "up")
    BY <1>15 DEF Settles
  <2>3. /\ \A s \in Runs \ {worker.run} : rows'[s] = rows[s]
        /\ \/ rows'[worker.run] = rows[worker.run]
           \/ Running(worker.run) /\
              rows'[worker.run] = [rows[worker.run] EXCEPT !.status = Verdict]
    BY <2>1, <2>2, SettleRows
  <2> QED
    BY <2>1, <2>3 DEF RowStep, RowTypes, RowStates
<1>16. ASSUME NEW d \in Dests, Puts(d) PROVE \A r \in Runs : RowStep(r)
  BY <1>16 DEF Puts, runVars, RowStep
<1>17. ASSUME NEW d \in Dests, Prunes(d) PROVE \A r \in Runs : RowStep(r)
  BY <1>17 DEF Prunes, runVars, RowStep
<1>18. ASSUME NEW c \in Callers, Checks(c) PROVE \A r \in Runs : RowStep(r)
  BY <1>18 DEF Checks, runVars, RowStep
<1>19. ASSUME NEW c \in Callers, Inserts(c) PROVE \A r \in Runs : RowStep(r)
  <2>1. CASE issued < MaxRuns /\ StartRun(issued + 1, "manual")
    <3>1. issued + 1 \in Runs /\ issued + 1 > issued
      BY <2>1 DEF RowTypes, Runs
    <3>2. rows[issued + 1] = NoRow
      BY <3>1 DEF RowsInv
    <3>3. /\ rows'[issued + 1] = [status |-> "running", trig |-> "manual", at |-> clock]
          /\ \A s \in Runs \ {issued + 1} : rows'[s] \in {rows[s], NoRow}
      BY <2>1, <3>1, StartRunRows
    <3> QED
      BY <1>19, <3>2, <3>3 DEF Inserts, At, RowStep
  <2>2. CASE UNCHANGED runVars
    BY <2>2 DEF runVars, RowStep
  <2> QED
    BY <1>19, <2>1, <2>2 DEF Inserts
<1>20. ASSUME NEW c \in Callers, Posts(c) PROVE \A r \in Runs : RowStep(r)
  <2>1. UNCHANGED rows
    BY <1>20 DEF Posts, HandsInv, Tokens, At, Working
  <2> QED
    BY <2>1 DEF RowStep
<1>21. ASSUME NEW d \in Dests, SwitchDestination(d) PROVE \A r \in Runs : RowStep(r)
  BY <1>21 DEF SwitchDestination, runVars, RowStep
<1>22. ASSUME SwitchSchedule PROVE \A r \in Runs : RowStep(r)
  BY <1>22 DEF SwitchSchedule, runVars, RowStep
<1>23. ASSUME Tick PROVE \A r \in Runs : RowStep(r)
  BY <1>23 DEF Tick, runVars, RowStep
<1>24. ASSUME Stop PROVE \A r \in Runs : RowStep(r)
  BY <1>24 DEF Stop, runVars, RowStep
<1>25. ASSUME Ends PROVE \A r \in Runs : RowStep(r)
  BY <1>25 DEF Ends, runVars, RowStep
<1>26. ASSUME Starts PROVE \A r \in Runs : RowStep(r)
  BY <1>26 DEF Starts, runVars, RowStep
<1>27. CASE UNCHANGED vars
  BY <1>27 DEF vars, runVars, RowStep
<1> QED
  BY <1>1, <1>2, <1>3, <1>4, <1>5, <1>6, <1>7, <1>8, <1>9, <1>10, <1>11, <1>12, <1>13, <1>14,
     <1>15, <1>16, <1>17, <1>18, <1>19, <1>20, <1>21, <1>22, <1>23, <1>24, <1>25, <1>26, <1>27 DEF
     Next, WorkerStep

\* How a run ended is written once, and an instant of the schedule is taken once
\* by the timer or by catching up, whatever restarts lie between (backups.go,
\* FinishRun; runner.go, Run and catchUp).
THEOREM HistoryTrue == Spec => HistoryIsTrue
<1>1. BackupInv /\ [Next]_vars =>
        [\A r \in Runs : rows[r].status \notin {"none", "running"} =>
          rows'[r] \in {rows[r], NoRow}]_vars
  <2> SUFFICES ASSUME BackupInv, [Next]_vars, NEW r \in Runs,
        rows[r].status \notin {"none", "running"}
               PROVE  rows'[r] \in {rows[r], NoRow}
    OBVIOUS
  <2>1. RowStep(r)
    BY RowsStep DEF BackupInv
  <2> QED
    BY <2>1 DEF RowStep, Running, NoRow
<1>2. BackupInv /\ [Next]_vars =>
        [\A r \in Runs : rows[r] = NoRow /\ rows'[r].trig = "schedule"
           => Previous(rows'[r].at) \notin taken]_vars
  <2> SUFFICES ASSUME BackupInv, [Next]_vars, NEW r \in Runs, rows[r] = NoRow,
        rows'[r].trig = "schedule"
               PROVE  Previous(rows'[r].at) \notin taken
    OBVIOUS
  <2>1. RowStep(r)
    BY RowsStep DEF BackupInv
  <2>2. worker.pc = "insert" /\ rows'[r].at = clock
    BY <2>1 DEF RowStep, Running, NoRow
  <2>3. \A x \in taken : x < Previous(clock)
    BY <2>2 DEF BackupInv, ScheduleInv, DueIsUntaken
  <2>4. Previous(clock) \in Int
    BY InstantsAreNumbers DEF BackupInv, ClockTypes
  <2> QED
    BY <2>2, <2>3, <2>4
<1> QED
  BY <1>1, <1>2, BackupInvHolds, PTL DEF Spec, HistoryIsTrue, EndIsFinal, OncePerInstant
-----------------------------------------------------------------------------
\* The archives of a's host that are newer than it, and what must be among them
\* before it may go.
NewerHeld(S, a) == {b \in S : b.slug = a.slug /\ Newer(b, a)}
PeriodsOf(T, period) == {period[b.at] : b \in T}
Outranked(a, S, p) ==
  /\ a.slug = Us /\ Cardinality(NewerHeld(S, a)) >= p.last
  /\ PeriodIsCovered(a, NewerHeld(S, a), p.daily, Day)
  /\ PeriodIsCovered(a, NewerHeld(S, a), p.weekly, Week)
  /\ PeriodIsCovered(a, NewerHeld(S, a), p.monthly, Month)

\* A period covered by some of the newer archives is covered by all of them.
LEMMA CoveredByMore ==
  ASSUME NEW a, NEW more, IsFiniteSet(more), NEW some \in SUBSET more, NEW n \in Nat, NEW period,
         \/ \E b \in some : period[b.at] = period[a.at]
         \/ ~(Cardinality(PeriodsOf(some, period)) < n)
  PROVE  PeriodIsCovered(a, more, n, period)
<1>1. CASE \E b \in some : period[b.at] = period[a.at]
  BY <1>1 DEF PeriodIsCovered
<1>2. CASE ~(Cardinality(PeriodsOf(some, period)) < n)
  <2> DEFINE at == [b \in more |-> period[b.at]]
             D == PeriodsOf(more, period)
             E == PeriodsOf(some, period)
  <2>1. at \in Surjection(more, D)
    BY DEF Surjection, PeriodsOf
  <2>2. E \subseteq D
    BY DEF PeriodsOf
  <2>3. D = {period[b.at] : b \in more}
    BY DEF PeriodsOf
  <2> HIDE DEF at, D
  <2>4. IsFiniteSet(D)
    BY <2>1, FS_Surjection
  <2> HIDE DEF E
  <2>5. /\ Cardinality(E) <= Cardinality(D) /\ Cardinality(E) \in Nat /\ Cardinality(D) \in Nat
    BY <2>2, <2>4, FS_Subset, FS_CardinalityType
  <2>6. ~(Cardinality(E) < n)
    BY <1>2 DEF E
  <2>7. Cardinality(D) >= n
    BY <2>5, <2>6
  <2> QED
    BY <2>3, <2>7 DEF PeriodIsCovered
<1> QED
  BY <1>1, <1>2

\* What a listing costs, whatever it leaves out, is not among the newest of
\* all that is held.
LEMMA DoomedAreOld ==
  ASSUME NEW S \in SUBSET Archives, IsFiniteSet(S), NEW listing \in SUBSET S, NEW p \in Policies,
         NEW uploaded, NEW baseline, NEW a \in Remove(listing, p, uploaded, baseline)
  PROVE  Outranked(a, S, p)
<1> DEFINE L == Ours(listing)
           N == NewerIn(L, a)
           newer == NewerHeld(S, a)
<1>1. a \in L /\ a \notin Kept(L, p)
  BY DEF Remove
<1>2. a \in S /\ a.slug = Us
  BY <1>1 DEF Ours
<1>3. N \in SUBSET newer
  BY <1>2 DEF NewerIn, Ours, NewerHeld
<1>4. IsFiniteSet(newer) /\ IsFiniteSet(N)
  <2>1. newer \subseteq S
    BY DEF NewerHeld
  <2> QED
    BY <1>3, <2>1, FS_Subset
<1>5. Cardinality(N) <= Cardinality(newer)
  BY <1>3, <1>4, FS_Subset
<1>6. Cardinality(N) \in Nat /\ Cardinality(newer) \in Nat
  BY <1>4, FS_CardinalityType
<1>7. p.last \in Nat /\ p.daily \in Nat /\ p.weekly \in Nat /\ p.monthly \in Nat
  BY DEF Policies
<1>8. ~(Cardinality(N) < p.last)
  BY <1>1 DEF Kept, KeptByCount
<1>9. ASSUME NEW n, NEW period, a \notin KeptByPeriod(L, n, period)
      PROVE  \/ \E b \in N : period[b.at] = period[a.at]
             \/ ~(Cardinality(PeriodsOf(N, period)) < n)
  BY <1>1, <1>9 DEF KeptByPeriod, PeriodsOf
<1>10. /\ a \notin KeptByPeriod(L, p.daily, Day) /\ a \notin KeptByPeriod(L, p.weekly, Week)
       /\ a \notin KeptByPeriod(L, p.monthly, Month)
  BY <1>1 DEF Kept
<1> HIDE DEF L, N, newer
<1>11. PeriodIsCovered(a, newer, p.daily, Day)
  BY <1>3, <1>4, <1>7, <1>9, <1>10, CoveredByMore
<1>12. PeriodIsCovered(a, newer, p.weekly, Week)
  BY <1>3, <1>4, <1>7, <1>9, <1>10, CoveredByMore
<1>13. PeriodIsCovered(a, newer, p.monthly, Month)
  BY <1>3, <1>4, <1>7, <1>9, <1>10, CoveredByMore
<1>14. Cardinality(newer) >= p.last
  BY <1>5, <1>6, <1>7, <1>8
<1> QED
  BY <1>2, <1>11, <1>12, <1>13, <1>14 DEF Outranked, newer

\* What a step does at a destination: nothing is lost and nothing counted, or it
\* deletes what the listing dooms and takes a count of one that is believed for
\* the baseline.
HeldStep(d) ==
  \/ held[d] \subseteq held'[d] /\ lastSeen'[d] = lastSeen[d]
  \/ /\ worker'.listing \in SUBSET held[d]
     /\ held[d] \ held'[d] \subseteq Doomed(d, worker'.listing)
     /\ \/ lastSeen'[d] = lastSeen[d]
        \/ /\ lastSeen'[d] = Seen(worker'.listing, Archive, lastSeen[d])
           /\ lastSeen'[d] # UnknownSeen

\* A destination that loses nothing and is not counted.
LEMMA HeldGrows ==
  ASSUME NEW d, held[d] \subseteq held'[d], lastSeen'[d] = lastSeen[d]
  PROVE  HeldStep(d)
BY DEF HeldStep

\* Every step does that at every destination.
LEMMA HeldSteps ==
  ASSUME WorkerType, HeldTypes, [Next]_vars
  PROVE  \A d \in Dests : HeldStep(d)
<1>1. ASSUME Sweep PROVE \A e \in Dests : HeldStep(e)
  BY <1>1, HeldGrows DEF Sweep, atDests
<1>2. ASSUME CatchUp PROVE \A e \in Dests : HeldStep(e)
  BY <1>2, HeldGrows DEF CatchUp, atDests
<1>3. ASSUME Arm PROVE \A e \in Dests : HeldStep(e)
  BY <1>3, HeldGrows DEF Arm, atDests
<1>4. ASSUME Woken PROVE \A e \in Dests : HeldStep(e)
  BY <1>4, HeldGrows DEF Woken, atDests
<1>5. ASSUME TakesManual PROVE \A e \in Dests : HeldStep(e)
  BY <1>5, HeldGrows DEF TakesManual, atDests
<1>6. ASSUME TimerFires PROVE \A e \in Dests : HeldStep(e)
  BY <1>6, HeldGrows DEF TimerFires, atDests
<1>7. ASSUME Leaves PROVE \A e \in Dests : HeldStep(e)
  BY <1>7, HeldGrows DEF Leaves, atDests
<1>8. ASSUME FireChecks PROVE \A e \in Dests : HeldStep(e)
  BY <1>8, HeldGrows DEF FireChecks, atDests
<1>9. ASSUME FireInserts PROVE \A e \in Dests : HeldStep(e)
  BY <1>9, HeldGrows DEF FireInserts, atDests
<1>10. ASSUME FirePosts PROVE \A e \in Dests : HeldStep(e)
  BY <1>10, HeldGrows DEF FirePosts, atDests
<1>11. ASSUME Drain PROVE \A e \in Dests : HeldStep(e)
  BY <1>11, HeldGrows DEF Drain, atDests
<1>12. ASSUME Writes PROVE \A e \in Dests : HeldStep(e)
  BY <1>12, HeldGrows DEF Writes, atDests
<1>13. ASSUME ReadsDestinations PROVE \A e \in Dests : HeldStep(e)
  BY <1>13, HeldGrows DEF ReadsDestinations, atDests
<1>14. ASSUME Sent PROVE \A e \in Dests : HeldStep(e)
  BY <1>14, HeldGrows DEF Sent, atDests
<1>15. ASSUME Settles PROVE \A e \in Dests : HeldStep(e)
  BY <1>15, HeldGrows DEF Settles, atDests
<1>16. ASSUME NEW d \in Dests, Puts(d) PROVE \A e \in Dests : HeldStep(e)
  <2>1. \A e \in Dests : held[e] \subseteq held'[e]
    <3>1. CASE UNCHANGED held
      BY <3>1
    <3>2. CASE held' = [held EXCEPT ![d] = held[d] \cup {Archive}]
      BY <3>2 DEF HeldTypes
    <3> QED
      BY <1>16, <3>1, <3>2 DEF Puts
  <2>2. UNCHANGED lastSeen
    BY <1>16 DEF Puts
  <2> QED
    BY <2>1, <2>2, HeldGrows
<1>17. ASSUME NEW d \in Dests, Prunes(d) PROVE \A e \in Dests : HeldStep(e)
  <2>1. CASE UNCHANGED <<held, lastSeen>>
    BY <2>1, HeldGrows
  <2>2. CASE \E listing \in SUBSET held[d] :
               /\ Lists(listing)
               /\ \E gone \in SUBSET Doomed(d, listing) :
                  held' = [held EXCEPT ![d] = held[d] \ gone]
               /\ Records(d, Seen(listing, Archive, lastSeen[d])) \/ UNCHANGED lastSeen
    <3>1. PICK listing \in SUBSET held[d] :
            /\ Lists(listing)
            /\ \E gone \in SUBSET Doomed(d, listing) : held' = [held EXCEPT ![d] = held[d] \ gone]
            /\ Records(d, Seen(listing, Archive, lastSeen[d])) \/ UNCHANGED lastSeen
      BY <2>2
    <3>2. PICK gone \in SUBSET Doomed(d, listing) : held' = [held EXCEPT ![d] = held[d] \ gone]
      BY <3>1
    <3>3. held'[d] = held[d] \ gone /\ \A e \in Dests \ {d} : held'[e] = held[e]
      BY <3>2 DEF HeldTypes
    <3>4. held[d] \ held'[d] \subseteq Doomed(d, listing)
      BY <3>2, <3>3
    <3>5. \/ lastSeen'[d] = lastSeen[d]
          \/ /\ lastSeen'[d] = Seen(listing, Archive, lastSeen[d])
             /\ lastSeen'[d] # UnknownSeen
      BY <3>1 DEF Records, HeldTypes
    <3>6. \A e \in Dests \ {d} : lastSeen'[e] = lastSeen[e]
      BY <3>1 DEF Records, HeldTypes
    <3>7. worker'.listing = listing
      BY <3>1 DEF Lists, WorkerType, WorkerStates
    <3>8. HeldStep(d)
      BY <3>4, <3>5, <3>7 DEF HeldStep
    <3> QED
      BY <3>3, <3>6, <3>8, HeldGrows
  <2>3. CASE /\ Lists(held[d])
             /\ held' = [held EXCEPT ![d] = held[d] \ Doomed(d, held[d])]
             /\ Records(d, Seen(held[d], Archive, lastSeen[d]))
    <3>1. held[d] \in SUBSET held[d] /\ Doomed(d, held[d]) \in SUBSET Doomed(d, held[d])
      OBVIOUS
    <3> QED
      BY <2>2, <2>3, <3>1
  <2> QED
    BY <1>17, <2>1, <2>2, <2>3 DEF Prunes, atDests
<1>18. ASSUME NEW c \in Callers, Checks(c) PROVE \A e \in Dests : HeldStep(e)
  BY <1>18, HeldGrows DEF Checks, atDests
<1>19. ASSUME NEW c \in Callers, Inserts(c) PROVE \A e \in Dests : HeldStep(e)
  BY <1>19, HeldGrows DEF Inserts, atDests
<1>20. ASSUME NEW c \in Callers, Posts(c) PROVE \A e \in Dests : HeldStep(e)
  BY <1>20, HeldGrows DEF Posts, atDests
<1>21. ASSUME NEW d \in Dests, SwitchDestination(d) PROVE \A e \in Dests : HeldStep(e)
  BY <1>21, HeldGrows DEF SwitchDestination, atDests
<1>22. ASSUME SwitchSchedule PROVE \A e \in Dests : HeldStep(e)
  BY <1>22, HeldGrows DEF SwitchSchedule, atDests
<1>23. ASSUME Tick PROVE \A e \in Dests : HeldStep(e)
  BY <1>23, HeldGrows DEF Tick, atDests
<1>24. ASSUME Stop PROVE \A e \in Dests : HeldStep(e)
  BY <1>24, HeldGrows DEF Stop, atDests
<1>25. ASSUME Ends PROVE \A e \in Dests : HeldStep(e)
  BY <1>25, HeldGrows DEF Ends, atDests
<1>26. ASSUME Starts PROVE \A e \in Dests : HeldStep(e)
  BY <1>26, HeldGrows DEF Starts, atDests
<1>27. CASE UNCHANGED vars
  BY <1>27, HeldGrows DEF vars, atDests
<1> QED
  BY <1>1, <1>2, <1>3, <1>4, <1>5, <1>6, <1>7, <1>8, <1>9, <1>10, <1>11, <1>12, <1>13, <1>14,
     <1>15, <1>16, <1>17, <1>18, <1>19, <1>20, <1>21, <1>22, <1>23, <1>24, <1>25, <1>26, <1>27 DEF
     Next, WorkerStep

\* Retention acts on listings that may leave any archive out, and deletes none of
\* another host's, of the newest Policy.last or of the newest of the newest
\* Policy.daily days, Policy.weekly weeks or Policy.monthly months of all that is
\* held; and a listing that leaves out what was just uploaded, or has less than
\* half of what was there last time, neither deletes nor is counted
\* (retention.go, Retain; docs/backup.md, How many are kept).
THEOREM RetentionKeeps == Spec => RetentionKeepsItsWord
<1>1. BackupInv /\ [Next]_vars =>
        [\A d \in Dests : \A a \in held[d] \ held'[d] :
           LET newer == {b \in held[d] : b.slug = a.slug /\ Newer(b, a)}
           IN  /\ a.slug = Us /\ Cardinality(newer) >= Policy.last
               /\ PeriodIsCovered(a, newer, Policy.daily, Day)
               /\ PeriodIsCovered(a, newer, Policy.weekly, Week)
               /\ PeriodIsCovered(a, newer, Policy.monthly, Month)]_vars
  <2> SUFFICES ASSUME BackupInv, [Next]_vars, NEW d \in Dests, NEW a \in held[d] \ held'[d],
                      NEW newer, newer = {b \in held[d] : b.slug = a.slug /\ Newer(b, a)}
               PROVE  /\ a.slug = Us /\ Cardinality(newer) >= Policy.last
                      /\ PeriodIsCovered(a, newer, Policy.daily, Day)
                      /\ PeriodIsCovered(a, newer, Policy.weekly, Week)
                      /\ PeriodIsCovered(a, newer, Policy.monthly, Month)
    OBVIOUS
  <2>1. HeldStep(d)
    BY HeldSteps DEF BackupInv
  <2>2. PICK listing \in SUBSET held[d] : a \in Remove(listing, Policy, Archive, lastSeen[d])
    BY <2>1 DEF HeldStep, Doomed
  <2>3. held[d] \in SUBSET Archives /\ IsFiniteSet(held[d]) /\ Policy \in Policies
    BY BackupAssumption DEF BackupInv, HeldTypes
  <2>4. newer = NewerHeld(held[d], a)
    BY DEF NewerHeld
  <2>5. Outranked(a, held[d], Policy)
    BY <2>2, <2>3, DoomedAreOld
  <2> QED
    BY <2>4, <2>5 DEF Outranked
<1>2. BackupInv /\ [Next]_vars =>
        [\A d \in Dests :
           LET listed == Ours(worker'.listing)
               full   == /\ Archive \in listed
                         /\ lastSeen[d] < 4 \/ Cardinality(listed) >= lastSeen[d] \div 2
           IN  /\ held[d] \ held'[d] # {} => full
               /\ lastSeen'[d] # lastSeen[d] => full /\ lastSeen'[d] = Cardinality(listed)]_vars
  <2> SUFFICES ASSUME BackupInv, [Next]_vars, NEW d \in Dests
               PROVE  LET listed == Ours(worker'.listing)
                          full   == /\ Archive \in listed
                                    /\ lastSeen[d] < 4 \/ Cardinality(listed) >= lastSeen[d] \div 2
                      IN  /\ held[d] \ held'[d] # {} => full
                          /\ lastSeen'[d] # lastSeen[d] =>
                               full /\ lastSeen'[d] = Cardinality(listed)
    OBVIOUS
  <2> DEFINE listed == Ours(worker'.listing)
             full == Believed(listed, Archive, lastSeen[d])
  <2>1. full <=> /\ Archive \in listed
                 /\ lastSeen[d] < 4 \/ Cardinality(listed) >= lastSeen[d] \div 2
    BY DEF Believed
  <2>2. HeldStep(d)
    BY HeldSteps DEF BackupInv
  <2>3. held[d] \ held'[d] # {} => full
    BY <2>2 DEF HeldStep, Doomed, Remove
  <2>4. lastSeen'[d] # lastSeen[d] => full /\ lastSeen'[d] = Cardinality(listed)
    BY <2>2 DEF HeldStep, Seen
  <2> QED
    BY <2>1, <2>3, <2>4
<1> QED
  BY <1>1, <1>2, BackupInvHolds, PTL DEF Spec, RetentionKeepsItsWord, RecentAreKept,
     ShortListingsChangeNothing
-----------------------------------------------------------------------------
(* The inductive invariant of a restore. *)
Contents == Instances \cup {Nothing, Torn}

\* Types, and nothing is staged without the directory it is staged in.
RestoreTypes ==
  /\ target \in [Files -> Contents] /\ log \in Instances \cup {Nothing}
  /\ staging \in BOOLEAN /\ staged \in [Files -> Uploads \cup {Nothing, Torn}]
  /\ marker \in Stages \cup {Nothing, Torn}
  /\ kept \in [Stages -> [Places -> Contents]] /\ before \in [Stages -> [Places -> Contents]]
  /\ pc \in Serving \cup Booting \cup {"refused"} /\ work \in 0 .. Len(Order) + 1
  /\ archive \in [Stages -> Uploads \cup {Nothing}]
  /\ stages \in 0 .. MaxStages /\ crashes \in 0 .. MaxCrashes /\ cutOff \subseteq Stages \X Files
  /\ owed \in Uploads \cup {Nothing} /\ restaged \in BOOLEAN /\ mixed \in BOOLEAN
  /\ staged # NoFiles => staging

\* Where a stage is being filled, and where a start puts one in place.
Filling == {"clear", "unpack", "check", "mark"}
AtFile == {"aside", "asideCopied", "asideRemove", "move", "moveCopied", "remove"}
Placing == {"next"} \cup AtFile
Applied == Placing \cup {"sidecars", "finish", "unmark"}

\* What is being staged is new: the marker and what was put aside are not its.
Stagings ==
  /\ \A n \in Stages : IF n <= stages THEN archive[n] \in Uploads ELSE before[n] = Empty
  /\ marker \in Stages => marker <= stages
  /\ pc \in Filling => stages # 0 /\ marker # stages /\ before[stages] = Empty
  /\ pc \in {"unpack", "check", "mark"} => staging
  /\ pc = "unpack" => \A f \in Files \ Members[Upload] : staged[f] = Nothing
  /\ pc \in {"check", "mark"} =>
       \A f \in Files : staged[f] = IF f \in Members[Upload] THEN Upload ELSE Nothing
  /\ restaged => marker # Nothing /\ pc \in Serving \cup {"boot", "refused"}
  /\ pc \in Serving \ {"idle"} /\ marker \in Stages => restaged
  /\ pc = "mark" => marker = Torn
  /\ pc = "prune" => marker = Nothing

\* Where a start is, and that the log is gone before any file is moved.
Placements ==
  /\ pc \in Serving => target[Db] \in Instances
  /\ pc \in Applied => marker \in Stages
  /\ pc \in Applied => (staging <=> pc # "unmark")
  /\ pc \in Placing => work >= 1
  /\ pc \in AtFile => work <= Len(Order)
  /\ pc \in {"asideCopied", "asideRemove", "moveCopied", "remove"} => File \in Across
  /\ pc \in Placing \cup {"finish", "unmark"} => log = Nothing

\* The upload whose acceptance was answered is the one the marker names, or
\* is in place; and a marker over files that are its own was accepted.
Acceptance ==
  /\ owed # Nothing =>
       \/ marker \in Stages /\ archive[marker] = owed /\ ~restaged
          /\ pc \in {"idle", "boot", "refused"} \cup Applied
       \/ marker = Nothing /\ pc \in {"boot", "prune", "refused"} /\ target[Db] = owed
  /\ marker \in Stages /\ ~restaged /\ ~mixed => owed # Nothing

\* There is one still to be put in place.
Accepted == owed # Nothing /\ marker \in Stages

\* Each of its files is staged or in place, as far as the start has come.
Halfway ==
  Accepted =>
    /\ \A f \in Files : staged[f] = Nothing \/ (f \in Members[owed] /\ staged[f] = owed)
    /\ \A f \in Members[owed] : staged[f] = Nothing => target[f] = owed
    /\ pc = "idle" => \A f \in Members[owed] : staged[f] = owed
    /\ ~staging => log = Nothing
    /\ pc \in AtFile => File \in Members[owed] /\ staged[File] = owed
    /\ pc = "remove" => target[File] = owed
    /\ pc \in Placing => \A i \in 1 .. work - 1 : staged[Order[i]] = Nothing
    /\ pc \in {"finish", "unmark"} => staged = NoFiles

\* A start has begun to put the marker's archive in place.
Begun == marker \in Stages /\ before[marker] # Empty

\* A whole instance is in place except while one is being replaced.
Sound ==
  ~mixed =>
    /\ pc \in Serving \cup {"prune"} => WholeInstance /\ ~Begun
    /\ pc \in {"boot", "refused"} /\ ~Begun => WholeInstance
    /\ restaged => ~Begun
    /\ pc \in Applied => Begun

\* What was in place is put aside; or it is still there, or on its way. On
\* another filesystem what was put aside counts once the copy is over, and what
\* is in place until its own copy is begun.
Saved(n, p) == kept[n][p] = before[n][p]
Put(n, f) == \/ staged[f] = owed /\ target[f] = before[n][f] /\ kept[n][f] = Nothing
             \/ (staged[f] = Nothing \/ target[f] = Nothing) /\ Saved(n, f)
Entering(f) == pc \in {"moveCopied", "remove"} /\ File = f
PutAcross(n, f) ==
  \/ /\ staged[f] = owed /\ target[f] = before[n][f] /\ target[f] # Nothing
     /\ ~(pc \in {"move", "moveCopied", "remove"} /\ File = f)
  \/ Saved(n, f) /\ (staged[f] = owed => target[f] = Nothing \/ Entering(f))

\* Nothing is put aside for a restore that was never begun.
Unapplied == ~mixed => \A n \in Stages : before[n] = Empty => kept[n] = Empty

\* The newest of those that are done have all that they replaced.
Replaced ==
  ~mixed => \A n \in NewestSuperseded \ {marker} : \A p \in Places :
    p = "log" \/ (p \in Members[archive[n]] /\ <<n, p>> \notin cutOff) => Saved(n, p)

\* The one that is under way has it, or can still put it aside.
Underway ==
  ~mixed /\ Begun =>
    /\ before[marker][Db] \in Instances
    /\ \/ log = before[marker]["log"] /\ kept[marker]["log"] = Nothing
       \/ log = Nothing /\ Saved(marker, "log")
    /\ \A f \in Members[owed] \ Across : Put(marker, f)
    /\ pc = "move" /\ File \notin Across => target[File] = Nothing /\ Saved(marker, File)

\* So has it what is on another filesystem, unless it was cut off at the end.
UnderwayAcross ==
  ~mixed /\ Begun =>
    /\ \A f \in Members[owed] \cap Across : <<marker, f>> \notin cutOff => PutAcross(marker, f)
    /\ pc = "asideCopied" => target[File] # Nothing
    /\ pc = "asideRemove" => kept[marker][File] = target[File]

\* The one that is to begin is staged in full.
AllStaged ==
  ~mixed /\ Accepted /\ ~Begun => \A f \in Members[owed] : staged[f] = owed

RestoreInv ==
  /\ RestoreTypes /\ Stagings /\ Placements /\ Acceptance /\ Halfway /\ Sound
  /\ Unapplied /\ Replaced /\ Underway /\ UnderwayAcross /\ AllStaged
-----------------------------------------------------------------------------
\* The file a placing start is at is one of the archive's.
LEMMA FileIsListed ==
  ASSUME RestoreTypes, Placements
  PROVE  pc \in AtFile => File \in Files
BY RestoreAssumption DEF RestoreTypes, Placements, Files, File, AtFile, Placing

\* The upload that is being staged.
LEMMA UploadIsOne ==
  ASSUME RestoreTypes, Stagings, pc \in Filling
  PROVE  /\ stages \in Stages /\ Upload \in Uploads
         /\ Db \in Members[Upload] /\ Members[Upload] \subseteq Files
<1>1. stages \in Stages
  BY RestoreAssumption DEF RestoreTypes, Stagings, Stages
<1>2. Upload \in Uploads
  BY <1>1 DEF RestoreTypes, Stagings, Upload
<1> QED
  BY <1>1, <1>2, RestoreAssumption DEF Instances

\* The archive that was accepted and is still to be put in place.
LEMMA AcceptedIsOne ==
  ASSUME RestoreTypes, Acceptance, Accepted
  PROVE  /\ marker \in Stages /\ archive[marker] = owed /\ ~restaged
         /\ owed \in Uploads /\ owed # Torn
         /\ Db \in Members[owed] /\ Members[owed] \subseteq Files
<1>1. marker \in Stages /\ archive[marker] = owed /\ ~restaged /\ owed \in Uploads
  BY RestoreAssumption DEF RestoreTypes, Acceptance, Accepted
<1> QED
  BY <1>1, RestoreAssumption DEF Instances

\* Once its staging directory is gone, it is in place.
LEMMA PlacedIsWhole ==
  ASSUME RestoreTypes, Acceptance, Halfway, Accepted, ~staging
  PROVE  WholeInstance /\ target[Db] = owed /\ log = Nothing /\ staged = NoFiles
<1>1. /\ owed \in Uploads /\ Db \in Members[owed] /\ Members[owed] \subseteq Files
  BY AcceptedIsOne
<1>2. staged = NoFiles /\ log = Nothing
  BY DEF RestoreTypes, Halfway, Accepted
<1>3. \A f \in Members[owed] : target[f] = owed
  BY <1>1, <1>2, RestoreAssumption DEF Halfway, NoFiles, Instances
<1> QED
  BY <1>1, <1>2, <1>3, RestoreAssumption DEF WholeInstance, Instances

\* One entry of what a restore put aside is set.
LEMMA PutsOne ==
  ASSUME RestoreTypes, NEW n \in Stages, NEW p \in Places, NEW c \in Contents,
         kept' = [kept EXCEPT ![n][p] = c]
  PROVE  /\ kept' \in [Stages -> [Places -> Contents]]
         /\ \A m \in Stages, q \in Places :
              kept'[m][q] = IF m = n /\ q = p THEN c ELSE kept[m][q]
         /\ \A m \in Stages \ {n} : kept'[m] = kept[m]
<1> DEFINE r == [kept[n] EXCEPT ![p] = c]
<1>1. kept \in [Stages -> [Places -> Contents]]
  BY DEF RestoreTypes
<1>2. r \in [Places -> Contents] /\ \A q \in Places : r[q] = IF q = p THEN c ELSE kept[n][q]
  BY <1>1
<1>3. kept' = [kept EXCEPT ![n] = r]
  OBVIOUS
<1> HIDE DEF r
<1> QED
  BY <1>1, <1>2, <1>3

\* What a start finds before the first file is moved.
LEMMA SnapshotTaken ==
  ASSUME RestoreTypes, Applies
  PROVE  /\ marker \in Stages
         /\ before' \in [Stages -> [Places -> Contents]]
         /\ \A n \in Stages \ {marker} : before'[n] = before[n]
         /\ before[marker] # Empty => before' = before
         /\ before[marker] = Empty =>
              /\ \A f \in Files : before'[marker][f] = target[f]
              /\ before'[marker]["log"] = log
<1> DEFINE s == [p \in Places |-> IF p = "log" THEN log ELSE target[p]]
<1>1. s \in [Places -> Contents]
  BY DEF RestoreTypes, Places, Contents
<1>2. marker \in Stages /\ before \in [Stages -> [Places -> Contents]]
  BY RestoreAssumption DEF RestoreTypes, Applies, Applying
<1>3. before' = IF before[marker] # Empty THEN before ELSE [before EXCEPT ![marker] = s]
  BY DEF Applies
<1>4. (\A f \in Files : s[f] = target[f]) /\ s["log"] = log
  BY RestoreAssumption DEF Places
<1> HIDE DEF s
<1> QED
  BY <1>1, <1>2, <1>3, <1>4

\* Every step keeps the types.
LEMMA RestoreTypesHold ==
  ASSUME RestoreTypes, Stagings, Placements, [RestoreNext]_restoreVars
  PROVE  RestoreTypes'
<1> USE RestoreAssumption
<1>1. ASSUME Clears PROVE RestoreTypes'
  <2>1. CASE RemovesOne /\ UNCHANGED <<staging, pc, work>>
    BY <1>1, <2>1 DEF Clears, RemovesOne, counts, ghosts, RestoreTypes, NoFiles
  <2>2. CASE staged = NoFiles /\ UNCHANGED staged
    BY <1>1, <2>2 DEF Clears, MakesDirectory, Proceed, RemovesOne, counts, ghosts, RestoreTypes,
       NoFiles, Serving
  <2> QED
    BY <1>1, <2>1, <2>2 DEF Clears
<1>2. ASSUME Discards PROVE RestoreTypes'
  <2>1. CASE RemovesOne /\ UNCHANGED <<staging, pc, work>>
    BY <1>2, <2>1 DEF Discards, RemovesOne, counts, ghosts, RestoreTypes, NoFiles
  <2>2. CASE staged = NoFiles /\ UNCHANGED staged
    BY <1>2, <2>2 DEF Discards, Proceed, RemovesOne, counts, ghosts, RestoreTypes, NoFiles, Serving
  <2> QED
    BY <1>2, <2>1, <2>2 DEF Discards
<1>3. ASSUME Applies PROVE RestoreTypes'
  BY <1>3, SnapshotTaken DEF Applies, Proceed, disk, counts, RestoreTypes, Booting
<1>4. ASSUME Sidecars PROVE RestoreTypes'
  <2>1. marker \in Stages /\ log \in Contents /\ "log" \in Places
    BY <1>4 DEF Sidecars, Placements, Applied, RestoreTypes, Contents, Places
  <2>2. kept' \in [Stages -> [Places -> Contents]]
    BY <1>4, <2>1, PutsOne DEF Sidecars, MovesTheLog, RestoreTypes
  <2> QED
    BY <1>4, <2>2 DEF Sidecars, MovesTheLog, counts, ghosts, RestoreTypes, Booting
<1>5. ASSUME Aside PROVE RestoreTypes'
  <2>1. marker \in Stages /\ File \in Files /\ File \in Places
    BY <1>5, FileIsListed DEF Aside, Placements, Applied, AtFile, Placing, Places
  <2>2. kept' \in [Stages -> [Places -> Contents]]
    BY <1>5, <2>1, PutsOne DEF Aside, PutsAside, RestoreTypes, Contents
  <2> QED
    BY <1>5, <2>1, <2>2 DEF Aside, Proceed, counts, ghosts, RestoreTypes, Contents, Booting
<1>6. ASSUME AsideCopied PROVE RestoreTypes'
  <2>1. marker \in Stages /\ File \in Files /\ File \in Places
    BY <1>6, FileIsListed DEF AsideCopied, Placements, Applied, AtFile, Placing, Places
  <2>2. kept' \in [Stages -> [Places -> Contents]]
    BY <1>6, <2>1, PutsOne DEF AsideCopied, PutsAside, RestoreTypes
  <2> QED
    BY <1>6, <2>1, <2>2 DEF AsideCopied, Proceed, counts, ghosts, RestoreTypes, Contents, Booting
<1>7. ASSUME Moves PROVE RestoreTypes'
  <2>1. File \in Files /\ work \in 1 .. Len(Order) /\ staging
    BY <1>7, FileIsListed DEF Moves, RestoreTypes, Placements, AtFile, Placing, Applied
  <2>2. staged[File] \in Contents /\ Torn \in Contents
    BY <2>1 DEF RestoreTypes, Contents, Instances
  <2>3. target' \in [Files -> Contents]
    BY <1>7, <2>1, <2>2 DEF Moves, RestoreTypes
  <2>4. staged' \in [Files -> Uploads \cup {Nothing, Torn}]
    BY <1>7, <2>1 DEF Moves, RestoreTypes
  <2>5. pc' \in Booting /\ work' \in 0 .. Len(Order) + 1
    BY <1>7, <2>1 DEF Moves, Proceed, Booting
  <2> QED
    BY <1>7, <2>1, <2>3, <2>4, <2>5 DEF Moves, counts, ghosts, RestoreTypes
<1> USE FileIsListed, UploadIsOne DEF disk, counts, ghosts, RestoreTypes, Stagings, Placements,
   Contents, Serving, Booting, Instances, Stages, Empty, NoFiles, Filling, AtFile, Placing,
   Applied
<1>8. ASSUME NEW a \in Uploads, Stage(a) PROVE RestoreTypes'
  BY <1>8 DEF Stage, Proceed
<1>9. ASSUME Verifies PROVE RestoreTypes'
  BY <1>9 DEF Verifies, Proceed, Unpacked, Upload
<1>10. ASSUME Refuses PROVE RestoreTypes'
  BY <1>10 DEF Refuses, Proceed
<1>11. ASSUME TearsMarker PROVE RestoreTypes'
  BY <1>11 DEF TearsMarker, Proceed
<1>12. ASSUME Marks PROVE RestoreTypes'
  BY <1>12 DEF Marks, Proceed, Upload
<1>13. ASSUME MarkFails PROVE RestoreTypes'
  BY <1>13 DEF MarkFails, Proceed
<1>14. ASSUME Cancel PROVE RestoreTypes'
  BY <1>14 DEF Cancel, Proceed
<1>15. ASSUME NEW f \in Files, Unpacks(f) PROVE RestoreTypes'
  BY <1>15 DEF Unpacks, Upload
<1>16. ASSUME Commits PROVE RestoreTypes'
  BY <1>16 DEF Commits
<1>17. ASSUME Stops PROVE RestoreTypes'
  BY <1>17 DEF Stops
<1>18. ASSUME Crashes PROVE RestoreTypes'
  BY <1>18 DEF Crashes, CutsOff, File
<1>19. ASSUME NothingPending PROVE RestoreTypes'
  BY <1>19 DEF NothingPending, Proceed
<1>20. ASSUME Ignores PROVE RestoreTypes'
  BY <1>20 DEF Ignores, Proceed, Ignorable
<1>21. ASSUME WillNotStart PROVE RestoreTypes'
  BY <1>21 DEF WillNotStart, Proceed
<1>22. ASSUME NextFile PROVE RestoreTypes'
  BY <1>22 DEF NextFile, Proceed, AlreadyPlaced, File
<1>23. ASSUME MoveCopied PROVE RestoreTypes'
  BY <1>23 DEF MoveCopied, Proceed, File
<1>24. ASSUME Removes PROVE RestoreTypes'
  BY <1>24 DEF Removes, File
<1>25. ASSUME Finishes PROVE RestoreTypes'
  BY <1>25 DEF Finishes, Proceed
<1>26. ASSUME Unmarks PROVE RestoreTypes'
  BY <1>26 DEF Unmarks, Proceed
<1>27. ASSUME PrunesSuperseded PROVE RestoreTypes'
  BY <1>27 DEF PrunesSuperseded, Proceed, KeptNewest
<1>28. ASSUME Repaired PROVE RestoreTypes'
  BY <1>28 DEF Repaired, Proceed
<1>29. ASSUME StartFails PROVE RestoreTypes'
  BY <1>29 DEF StartFails, CutsOff, File
<1>30. ASSUME TriesAgain PROVE RestoreTypes'
  BY <1>30 DEF TriesAgain, Proceed
<1>31. ASSUME GivesUp PROVE RestoreTypes'
  BY <1>31 DEF GivesUp, Proceed
<1>32. ASSUME AsideRemoves PROVE RestoreTypes'
  BY <1>32 DEF AsideRemoves, Proceed, File
<1>33. CASE UNCHANGED restoreVars
  BY <1>33 DEF restoreVars, File, Upload
<1> QED
  BY <1>1, <1>2, <1>3, <1>4, <1>5, <1>6, <1>7, <1>8, <1>9, <1>10, <1>11, <1>12, <1>13, <1>14,
     <1>15, <1>16, <1>17, <1>18, <1>19, <1>20, <1>21, <1>22, <1>23, <1>24, <1>25, <1>26, <1>27,
     <1>28, <1>29, <1>30, <1>31, <1>32, <1>33 DEF RestoreNext, Boot

\* Every step keeps what is known of the file being put in place.
LEMMA PlacementsHold ==
  ASSUME RestoreTypes, Stagings, Placements, [RestoreNext]_restoreVars
  PROVE  Placements'
<1> USE RestoreAssumption
<1> USE DEF disk, counts, ghosts, RestoreTypes, Stagings, Placements, Serving, Booting, Instances,
   Stages, Empty, NoFiles, Filling, AtFile, Placing, Applied
<1>1. ASSUME NEW a \in Uploads, Stage(a) PROVE Placements'
  BY <1>1 DEF Stage, Proceed
<1>2. ASSUME Clears PROVE Placements'
  BY <1>2 DEF Clears, Proceed, RemovesOne, MakesDirectory
<1>3. ASSUME Verifies PROVE Placements'
  BY <1>3 DEF Verifies, Proceed, Unpacked, Upload
<1>4. ASSUME Refuses PROVE Placements'
  BY <1>4 DEF Refuses, Proceed
<1>5. ASSUME TearsMarker PROVE Placements'
  BY <1>5 DEF TearsMarker, Proceed
<1>6. ASSUME Marks PROVE Placements'
  BY <1>6 DEF Marks, Proceed, Upload
<1>7. ASSUME MarkFails PROVE Placements'
  BY <1>7 DEF MarkFails, Proceed
<1>8. ASSUME Discards PROVE Placements'
  BY <1>8 DEF Discards, Proceed, RemovesOne
<1>9. ASSUME Cancel PROVE Placements'
  BY <1>9 DEF Cancel, Proceed
<1>10. ASSUME NEW f \in Files, Unpacks(f) PROVE Placements'
  BY <1>10 DEF Unpacks, Upload
<1>11. ASSUME Commits PROVE Placements'
  BY <1>11 DEF Commits
<1>12. ASSUME Stops PROVE Placements'
  BY <1>12 DEF Stops
<1>13. ASSUME Crashes PROVE Placements'
  BY <1>13 DEF Crashes, CutsOff, File
<1>14. ASSUME NothingPending PROVE Placements'
  BY <1>14 DEF NothingPending, Proceed
<1>15. ASSUME Ignores PROVE Placements'
  BY <1>15 DEF Ignores, Proceed, Ignorable
<1>16. ASSUME WillNotStart PROVE Placements'
  BY <1>16 DEF WillNotStart, Proceed
<1>17. ASSUME Applies PROVE Placements'
  BY <1>17 DEF Applies, Proceed, Applying
<1>18. ASSUME Sidecars PROVE Placements'
  BY <1>18 DEF Sidecars, MovesTheLog
<1>19. ASSUME NextFile PROVE Placements'
  BY <1>19 DEF NextFile, Proceed, AlreadyPlaced, File
<1>20. ASSUME Aside PROVE Placements'
  BY <1>20 DEF Aside, Proceed, PutsAside, File
<1>21. ASSUME AsideCopied PROVE Placements'
  BY <1>21 DEF AsideCopied, Proceed, PutsAside, File
<1>22. ASSUME Moves PROVE Placements'
  BY <1>22 DEF Moves, Proceed, File
<1>23. ASSUME MoveCopied PROVE Placements'
  BY <1>23 DEF MoveCopied, Proceed, File
<1>24. ASSUME Removes PROVE Placements'
  BY <1>24 DEF Removes, File
<1>25. ASSUME Finishes PROVE Placements'
  BY <1>25 DEF Finishes, Proceed
<1>26. ASSUME Unmarks PROVE Placements'
  BY <1>26 DEF Unmarks, Proceed
<1>27. ASSUME PrunesSuperseded PROVE Placements'
  BY <1>27 DEF PrunesSuperseded, Proceed, KeptNewest
<1>28. ASSUME Repaired PROVE Placements'
  BY <1>28 DEF Repaired, Proceed
<1>29. ASSUME StartFails PROVE Placements'
  BY <1>29 DEF StartFails, CutsOff, File
<1>30. ASSUME TriesAgain PROVE Placements'
  BY <1>30 DEF TriesAgain, Proceed
<1>31. ASSUME GivesUp PROVE Placements'
  BY <1>31 DEF GivesUp, Proceed
<1>32. ASSUME AsideRemoves PROVE Placements'
  BY <1>32 DEF AsideRemoves, Proceed, File
<1>33. CASE UNCHANGED restoreVars
  BY <1>33 DEF restoreVars, File, Upload
<1> QED
  BY <1>1, <1>2, <1>3, <1>4, <1>5, <1>6, <1>7, <1>8, <1>9, <1>10, <1>11, <1>12, <1>13, <1>14,
     <1>15, <1>16, <1>17, <1>18, <1>19, <1>20, <1>21, <1>22, <1>23, <1>24, <1>25, <1>26, <1>27,
     <1>28, <1>29, <1>30, <1>31, <1>32, <1>33 DEF RestoreNext, Boot

\* Every step keeps what is known of the stage being filled.
LEMMA StagingsHold ==
  ASSUME RestoreTypes, Stagings, Placements, [RestoreNext]_restoreVars
  PROVE  Stagings'
<1> USE RestoreAssumption
<1>1. ASSUME NEW a \in Uploads, Stage(a) PROVE Stagings'
  <2>1. stages + 1 \in Stages /\ stages < stages + 1 /\ stages \in Nat
    BY <1>1 DEF Stage, RestoreTypes, Stages
  <2>2. \A n \in Stages : n <= stages + 1 <=> n <= stages \/ n = stages + 1
    BY <2>1 DEF Stages
  <2>3. \A n \in Stages : archive'[n] = IF n = stages + 1 THEN a ELSE archive[n]
    BY <1>1, <2>1 DEF Stage, RestoreTypes
  <2>4. before[stages + 1] = Empty /\ marker # stages + 1
    BY <1>1, <2>1 DEF Stagings, Stages
  <2>5. \A n \in Stages : IF n <= stages + 1 THEN archive'[n] \in Uploads ELSE before[n] = Empty
    BY <2>1, <2>2, <2>3 DEF Stagings
  <2>6. stages' = stages + 1 /\ pc' = "clear" /\ before' = before /\ marker' = marker
    BY <1>1 DEF Stage, Proceed, disk
  <2>7. marker \in Stages => marker <= stages + 1
    BY <2>1 DEF Stagings, Stages
  <2>8. (restaged' <=> marker # Nothing) /\ (marker \in Stages => marker # Nothing)
    BY <1>1 DEF Stage
  <2> QED
    BY <2>1, <2>4, <2>5, <2>6, <2>7, <2>8 DEF Stagings, Serving, Filling
<1> USE UploadIsOne DEF disk, counts, ghosts, RestoreTypes, Stagings, Placements, Contents,
   Upload, Serving, Booting, Instances, Stages, Empty, NoFiles, Filling, AtFile, Placing, Applied
<1>2. ASSUME Clears PROVE Stagings'
  BY <1>2 DEF Clears, Proceed, RemovesOne, MakesDirectory
<1>3. ASSUME Verifies PROVE Stagings'
  BY <1>3 DEF Verifies, Proceed, Unpacked, Upload
<1>4. ASSUME Refuses PROVE Stagings'
  BY <1>4 DEF Refuses, Proceed
<1>5. ASSUME TearsMarker PROVE Stagings'
  BY <1>5 DEF TearsMarker, Proceed
<1>6. ASSUME Marks PROVE Stagings'
  BY <1>6 DEF Marks, Proceed, Upload
<1>7. ASSUME MarkFails PROVE Stagings'
  BY <1>7 DEF MarkFails, Proceed
<1>8. ASSUME Discards PROVE Stagings'
  BY <1>8 DEF Discards, Proceed, RemovesOne
<1>9. ASSUME Cancel PROVE Stagings'
  BY <1>9 DEF Cancel, Proceed
<1>10. ASSUME NEW f \in Files, Unpacks(f) PROVE Stagings'
  BY <1>10 DEF Unpacks, Upload
<1>11. ASSUME Commits PROVE Stagings'
  BY <1>11 DEF Commits
<1>12. ASSUME Stops PROVE Stagings'
  BY <1>12 DEF Stops
<1>13. ASSUME Crashes PROVE Stagings'
  BY <1>13 DEF Crashes, CutsOff, File
<1>14. ASSUME NothingPending PROVE Stagings'
  BY <1>14 DEF NothingPending, Proceed
<1>15. ASSUME Ignores PROVE Stagings'
  BY <1>15 DEF Ignores, Proceed, Ignorable
<1>16. ASSUME WillNotStart PROVE Stagings'
  BY <1>16 DEF WillNotStart, Proceed
<1>17. ASSUME Applies PROVE Stagings'
  BY <1>17 DEF Applies, Proceed, Applying
<1>18. ASSUME Sidecars PROVE Stagings'
  BY <1>18 DEF Sidecars, MovesTheLog
<1>19. ASSUME NextFile PROVE Stagings'
  BY <1>19 DEF NextFile, Proceed, AlreadyPlaced, File
<1>20. ASSUME Aside PROVE Stagings'
  BY <1>20 DEF Aside, Proceed, PutsAside, File
<1>21. ASSUME AsideCopied PROVE Stagings'
  BY <1>21 DEF AsideCopied, Proceed, PutsAside, File
<1>22. ASSUME Moves PROVE Stagings'
  BY <1>22 DEF Moves, Proceed, File
<1>23. ASSUME MoveCopied PROVE Stagings'
  BY <1>23 DEF MoveCopied, Proceed, File
<1>24. ASSUME Removes PROVE Stagings'
  BY <1>24 DEF Removes, File
<1>25. ASSUME Finishes PROVE Stagings'
  BY <1>25 DEF Finishes, Proceed
<1>26. ASSUME Unmarks PROVE Stagings'
  BY <1>26 DEF Unmarks, Proceed
<1>27. ASSUME PrunesSuperseded PROVE Stagings'
  BY <1>27 DEF PrunesSuperseded, Proceed, KeptNewest
<1>28. ASSUME Repaired PROVE Stagings'
  BY <1>28 DEF Repaired, Proceed
<1>29. ASSUME StartFails PROVE Stagings'
  BY <1>29 DEF StartFails, CutsOff, File
<1>30. ASSUME TriesAgain PROVE Stagings'
  BY <1>30 DEF TriesAgain, Proceed
<1>31. ASSUME GivesUp PROVE Stagings'
  BY <1>31 DEF GivesUp, Proceed
<1>32. ASSUME AsideRemoves PROVE Stagings'
  BY <1>32 DEF AsideRemoves, Proceed, File
<1>33. CASE UNCHANGED restoreVars
  BY <1>33 DEF restoreVars, File, Upload
<1> QED
  BY <1>1, <1>2, <1>3, <1>4, <1>5, <1>6, <1>7, <1>8, <1>9, <1>10, <1>11, <1>12, <1>13, <1>14,
     <1>15, <1>16, <1>17, <1>18, <1>19, <1>20, <1>21, <1>22, <1>23, <1>24, <1>25, <1>26, <1>27,
     <1>28, <1>29, <1>30, <1>31, <1>32, <1>33 DEF RestoreNext, Boot

\* Every step keeps what is known of the upload that was accepted.
LEMMA AcceptanceHolds ==
  ASSUME RestoreTypes, Stagings, Placements, Acceptance, Halfway, [RestoreNext]_restoreVars
  PROVE  Acceptance'
<1> USE RestoreAssumption
<1>1. ASSUME WillNotStart PROVE Acceptance'
  <2>1. ~Accepted
    BY <1>1, AcceptedIsOne, PlacedIsWhole DEF WillNotStart, Accepted
  <2> QED
    BY <1>1, <2>1 DEF WillNotStart, Proceed, disk, counts, ghosts, RestoreTypes, Acceptance,
       Accepted, Applied, Placing, AtFile
<1> USE UploadIsOne DEF disk, counts, ghosts, RestoreTypes, Stagings, Placements, Acceptance,
   Accepted, Halfway, Serving, Booting, Instances, Stages, Empty, NoFiles, Filling, AtFile,
   Placing, Applied
<1>2. ASSUME NEW a \in Uploads, Stage(a) PROVE Acceptance'
  BY <1>2 DEF Stage, Proceed
<1>3. ASSUME Clears PROVE Acceptance'
  BY <1>3 DEF Clears, Proceed, RemovesOne, MakesDirectory
<1>4. ASSUME Verifies PROVE Acceptance'
  BY <1>4 DEF Verifies, Proceed, Unpacked, Upload
<1>5. ASSUME Refuses PROVE Acceptance'
  BY <1>5 DEF Refuses, Proceed
<1>6. ASSUME TearsMarker PROVE Acceptance'
  BY <1>6 DEF TearsMarker, Proceed
<1>7. ASSUME Marks PROVE Acceptance'
  BY <1>7 DEF Marks, Proceed, Upload
<1>8. ASSUME MarkFails PROVE Acceptance'
  BY <1>8 DEF MarkFails, Proceed
<1>9. ASSUME Discards PROVE Acceptance'
  BY <1>9 DEF Discards, Proceed, RemovesOne
<1>10. ASSUME Cancel PROVE Acceptance'
  BY <1>10 DEF Cancel, Proceed
<1>11. ASSUME NEW f \in Files, Unpacks(f) PROVE Acceptance'
  BY <1>11 DEF Unpacks, Upload
<1>12. ASSUME Commits PROVE Acceptance'
  BY <1>12 DEF Commits
<1>13. ASSUME Stops PROVE Acceptance'
  BY <1>13 DEF Stops
<1>14. ASSUME Crashes PROVE Acceptance'
  BY <1>14 DEF Crashes, CutsOff, File
<1>15. ASSUME NothingPending PROVE Acceptance'
  BY <1>15 DEF NothingPending, Proceed
<1>16. ASSUME Ignores PROVE Acceptance'
  BY <1>16 DEF Ignores, Proceed, Ignorable
<1>17. ASSUME Applies PROVE Acceptance'
  BY <1>17 DEF Applies, Proceed, Applying
<1>18. ASSUME Sidecars PROVE Acceptance'
  BY <1>18 DEF Sidecars, MovesTheLog
<1>19. ASSUME NextFile PROVE Acceptance'
  BY <1>19 DEF NextFile, Proceed, AlreadyPlaced, File
<1>20. ASSUME Aside PROVE Acceptance'
  BY <1>20 DEF Aside, Proceed, PutsAside, File
<1>21. ASSUME AsideCopied PROVE Acceptance'
  BY <1>21 DEF AsideCopied, Proceed, PutsAside, File
<1>22. ASSUME Moves PROVE Acceptance'
  BY <1>22 DEF Moves, Proceed, File
<1>23. ASSUME MoveCopied PROVE Acceptance'
  BY <1>23 DEF MoveCopied, Proceed, File
<1>24. ASSUME Removes PROVE Acceptance'
  BY <1>24 DEF Removes, File
<1>25. ASSUME Finishes PROVE Acceptance'
  BY <1>25 DEF Finishes, Proceed
<1>26. ASSUME Unmarks PROVE Acceptance'
  BY <1>26 DEF Unmarks, Proceed
<1>27. ASSUME PrunesSuperseded PROVE Acceptance'
  BY <1>27 DEF PrunesSuperseded, Proceed, KeptNewest
<1>28. ASSUME Repaired PROVE Acceptance'
  BY <1>28 DEF Repaired, Proceed
<1>29. ASSUME StartFails PROVE Acceptance'
  BY <1>29 DEF StartFails, CutsOff, File
<1>30. ASSUME TriesAgain PROVE Acceptance'
  BY <1>30 DEF TriesAgain, Proceed
<1>31. ASSUME GivesUp PROVE Acceptance'
  BY <1>31 DEF GivesUp, Proceed
<1>32. ASSUME AsideRemoves PROVE Acceptance'
  BY <1>32 DEF AsideRemoves, Proceed, File
<1>33. CASE UNCHANGED restoreVars
  BY <1>33 DEF restoreVars, File, Upload
<1> QED
  BY <1>1, <1>2, <1>3, <1>4, <1>5, <1>6, <1>7, <1>8, <1>9, <1>10, <1>11, <1>12, <1>13, <1>14,
     <1>15, <1>16, <1>17, <1>18, <1>19, <1>20, <1>21, <1>22, <1>23, <1>24, <1>25, <1>26, <1>27,
     <1>28, <1>29, <1>30, <1>31, <1>32, <1>33 DEF RestoreNext, Boot

\* Every step keeps what is known of the files put in place so far.
LEMMA HalfwayHolds ==
  ASSUME RestoreTypes, Stagings, Placements, Acceptance, Halfway, [RestoreNext]_restoreVars
  PROVE  Halfway'
<1> USE RestoreAssumption
<1>1. ASSUME NextFile PROVE Halfway'
  <2>1. CASE ~Accepted
    BY <1>1, <2>1 DEF NextFile, disk, ghosts, Halfway, Accepted
  <2>2. CASE Accepted
    <3>1. archive[marker] = owed /\ owed # Nothing
      BY <2>2, AcceptedIsOne DEF Accepted
    <3>2. pc = "next" /\ work \in 1 .. Len(Order) + 1
      BY <1>1 DEF NextFile, RestoreTypes, Placements, Placing
    <3>3. CASE work > Len(Order) /\ Proceed("finish")
      <4>1. \A i \in 1 .. Len(Order) : staged[Order[i]] = Nothing
        BY <2>2, <3>2, <3>3 DEF Halfway, Placing
      <4>2. \A f \in Files : staged[f] = Nothing
        BY <4>1 DEF Files
      <4> QED
        BY <1>1, <2>2, <3>3, <4>2 DEF NextFile, Proceed, disk, counts, ghosts, Halfway, Accepted,
           Placing, AtFile, NoFiles, RestoreTypes
    <3>4. CASE work <= Len(Order) /\ AlreadyPlaced(File) /\ work' = work + 1 /\ UNCHANGED pc
      <4>1. File \in Files /\ staged[File] = Nothing
        BY <2>2, <3>1, <3>2, <3>4 DEF AlreadyPlaced, Halfway, File, Files
      <4>2. \A i \in 1 .. work' - 1 : staged[Order[i]] = Nothing
        BY <2>2, <3>2, <3>4, <4>1 DEF Halfway, Placing, File
      <4> QED
        BY <1>1, <2>2, <3>2, <3>4, <4>2 DEF NextFile, disk, counts, ghosts, Halfway, Accepted,
           Placing, AtFile
    <3>5. CASE work <= Len(Order) /\ ~AlreadyPlaced(File) /\ Proceed("aside")
      <4>1. File \in Files /\ File \in Members[owed] /\ staged[File] = owed
        BY <2>2, <3>1, <3>2, <3>5 DEF AlreadyPlaced, Halfway, File, Files
      <4> QED
        BY <1>1, <2>2, <3>2, <3>5, <4>1 DEF NextFile, Proceed, disk, counts, ghosts, Halfway,
           Accepted, Placing, AtFile, File
    <3> QED
      BY <1>1, <3>3, <3>4, <3>5 DEF NextFile
  <2> QED
    BY <2>1, <2>2
<1>2. ASSUME Moves PROVE Halfway'
  <2>1. CASE ~Accepted
    BY <1>2, <2>1 DEF Moves, ghosts, Halfway, Accepted
  <2>2. CASE Accepted
    <3>1. /\ File \in Members[owed] /\ staged[File] = owed /\ File \in Files
          /\ owed # Nothing /\ staging
      BY <1>2, <2>2, FileIsListed DEF Moves, Halfway, Accepted, AtFile, Placing, Placements, Applied
    <3>2. work \in 1 .. Len(Order) /\ File = Order[work] /\ log = Nothing
      BY <1>2 DEF Moves, RestoreTypes, Placements, Placing, AtFile, File
    <3>3. CASE /\ pc' = "next" /\ work' = work + 1
               /\ target' = [target EXCEPT ![File] = staged[File]]
               /\ staged' = [staged EXCEPT ![File] = Nothing]
      <4>1. \A f \in Files : staged'[f] = IF f = File THEN Nothing ELSE staged[f]
        BY <3>1, <3>3 DEF RestoreTypes
      <4>2. \A f \in Files : target'[f] = IF f = File THEN owed ELSE target[f]
        BY <3>1, <3>3 DEF RestoreTypes
      <4>3. \A i \in 1 .. work' - 1 : Order[i] \in Files /\ (i \in 1 .. work - 1 \/ Order[i] = File)
        BY <3>2, <3>3 DEF Files
      <4>4. \A i \in 1 .. work' - 1 : staged'[Order[i]] = Nothing
        BY <1>2, <2>2, <4>1, <4>3 DEF Moves, Halfway, Placing, AtFile
      <4> QED
        BY <1>2, <2>2, <3>1, <3>2, <3>3, <4>1, <4>2, <4>4, AcceptedIsOne
        DEF Moves, counts, ghosts, Halfway, Accepted, Placing, AtFile
    <3>4. CASE /\ File \in Across /\ Proceed("moveCopied")
               /\ target' = [target EXCEPT ![File] = Torn] /\ UNCHANGED staged
      <4>1. \A f \in Files : f # File => target'[f] = target[f]
        BY <3>1, <3>4 DEF RestoreTypes
      <4> QED
        BY <1>2, <2>2, <3>1, <3>2, <3>4, <4>1, AcceptedIsOne
        DEF Moves, Proceed, counts, ghosts, Halfway, Accepted, Placing, AtFile, File
    <3> QED
      BY <1>2, <3>3, <3>4 DEF Moves
  <2> QED
    BY <2>1, <2>2
<1> USE FileIsListed, UploadIsOne DEF disk, counts, ghosts, RestoreTypes, Stagings, Placements,
   Acceptance, Accepted, Halfway, Serving, Booting, Instances, Stages, Empty, NoFiles, Filling,
   AtFile, Placing, Applied
<1>3. ASSUME NEW a \in Uploads, Stage(a) PROVE Halfway'
  BY <1>3 DEF Stage, Proceed
<1>4. ASSUME Clears PROVE Halfway'
  BY <1>4 DEF Clears, Proceed, RemovesOne, MakesDirectory
<1>5. ASSUME Verifies PROVE Halfway'
  BY <1>5 DEF Verifies, Proceed, Unpacked, Upload
<1>6. ASSUME Refuses PROVE Halfway'
  BY <1>6 DEF Refuses, Proceed
<1>7. ASSUME TearsMarker PROVE Halfway'
  BY <1>7 DEF TearsMarker, Proceed
<1>8. ASSUME Marks PROVE Halfway'
  BY <1>8 DEF Marks, Proceed, Upload
<1>9. ASSUME MarkFails PROVE Halfway'
  BY <1>9 DEF MarkFails, Proceed
<1>10. ASSUME Discards PROVE Halfway'
  BY <1>10 DEF Discards, Proceed, RemovesOne
<1>11. ASSUME Cancel PROVE Halfway'
  BY <1>11 DEF Cancel, Proceed
<1>12. ASSUME NEW f \in Files, Unpacks(f) PROVE Halfway'
  BY <1>12 DEF Unpacks, Upload
<1>13. ASSUME Commits PROVE Halfway'
  BY <1>13 DEF Commits
<1>14. ASSUME Stops PROVE Halfway'
  BY <1>14 DEF Stops
<1>15. ASSUME Crashes PROVE Halfway'
  BY <1>15 DEF Crashes, CutsOff, File
<1>16. ASSUME NothingPending PROVE Halfway'
  BY <1>16 DEF NothingPending, Proceed
<1>17. ASSUME Ignores PROVE Halfway'
  BY <1>17 DEF Ignores, Proceed, Ignorable
<1>18. ASSUME WillNotStart PROVE Halfway'
  BY <1>18 DEF WillNotStart, Proceed
<1>19. ASSUME Applies PROVE Halfway'
  BY <1>19 DEF Applies, Proceed, Applying
<1>20. ASSUME Sidecars PROVE Halfway'
  BY <1>20 DEF Sidecars, MovesTheLog
<1>21. ASSUME Aside PROVE Halfway'
  BY <1>21 DEF Aside, Proceed, PutsAside, File
<1>22. ASSUME AsideCopied PROVE Halfway'
  BY <1>22 DEF AsideCopied, Proceed, PutsAside, File
<1>23. ASSUME MoveCopied PROVE Halfway'
  BY <1>23 DEF MoveCopied, Proceed, File
<1>24. ASSUME Removes PROVE Halfway'
  BY <1>24 DEF Removes, File
<1>25. ASSUME Finishes PROVE Halfway'
  BY <1>25 DEF Finishes, Proceed
<1>26. ASSUME Unmarks PROVE Halfway'
  BY <1>26 DEF Unmarks, Proceed
<1>27. ASSUME PrunesSuperseded PROVE Halfway'
  BY <1>27 DEF PrunesSuperseded, Proceed, KeptNewest
<1>28. ASSUME Repaired PROVE Halfway'
  BY <1>28 DEF Repaired, Proceed
<1>29. ASSUME StartFails PROVE Halfway'
  BY <1>29 DEF StartFails, CutsOff, File
<1>30. ASSUME TriesAgain PROVE Halfway'
  BY <1>30 DEF TriesAgain, Proceed
<1>31. ASSUME GivesUp PROVE Halfway'
  BY <1>31 DEF GivesUp, Proceed
<1>32. ASSUME AsideRemoves PROVE Halfway'
  BY <1>32 DEF AsideRemoves, Proceed, File
<1>33. CASE UNCHANGED restoreVars
  BY <1>33 DEF restoreVars, File, Upload
<1> QED
  BY <1>1, <1>2, <1>3, <1>4, <1>5, <1>6, <1>7, <1>8, <1>9, <1>10, <1>11, <1>12, <1>13, <1>14,
     <1>15, <1>16, <1>17, <1>18, <1>19, <1>20, <1>21, <1>22, <1>23, <1>24, <1>25, <1>26, <1>27,
     <1>28, <1>29, <1>30, <1>31, <1>32, <1>33 DEF RestoreNext, Boot

\* A start that is under way is putting an accepted archive in place.
LEMMA UnderwayIsAccepted ==
  ASSUME RestoreTypes, Stagings, Placements, Acceptance, Sound, ~mixed, Begun
  PROVE  Accepted
BY RestoreAssumption DEF RestoreTypes, Stagings, Placements, Acceptance, Sound, Accepted, Begun

\* Every step keeps what is served sound.
LEMMA SoundHolds ==
  ASSUME RestoreTypes, Stagings, Placements, Acceptance, Halfway, Sound, [RestoreNext]_restoreVars
  PROVE  Sound'
<1> USE RestoreAssumption
<1>1. ASSUME WillNotStart PROVE Sound'
  <2>1. ~mixed => WholeInstance /\ ~Begun
    BY <1>1, UnderwayIsAccepted, AcceptedIsOne, PlacedIsWhole DEF WillNotStart, Sound,
       WholeInstance, Begun, Accepted
  <2> QED
    BY <1>1, <2>1 DEF WillNotStart, Proceed, disk, counts, ghosts, Sound, Begun, WholeInstance,
       Serving, Applied, Placing, AtFile
<1>2. ASSUME Applies PROVE Sound'
  <2>1. CASE mixed'
    BY <2>1 DEF Sound
  <2>2. CASE ~mixed'
    <3>1. ~mixed /\ ~restaged /\ marker \in Stages /\ pc' = "sidecars" /\ ~restaged'
      BY <1>2, <2>2 DEF Applies, Applying, Proceed, RestoreTypes
    <3>2. CASE Begun
      BY <1>2, <3>1, <3>2, SnapshotTaken DEF Applies, disk, Sound, Begun, Serving, Applied,
         Placing, AtFile
    <3>3. CASE ~Begun
      <4>1. target[Db] # Nothing /\ Db \in Files /\ Db \in Places
        BY <1>2, <3>1, <3>3 DEF Applies, Sound, WholeInstance, Places
      <4>2. before'[marker][Db] = target[Db]
        BY <1>2, <3>1, <3>3, <4>1, SnapshotTaken DEF Begun
      <4>3. before'[marker] # Empty
        BY <4>1, <4>2 DEF Empty
      <4> QED
        BY <1>2, <3>1, <4>3 DEF Applies, disk, Sound, Begun, Serving, Applied, Placing, AtFile
    <3> QED
      BY <3>2, <3>3
  <2> QED
    BY <2>1, <2>2
<1>3. ASSUME Unmarks PROVE Sound'
  <2>1. CASE mixed
    BY <1>3, <2>1 DEF Unmarks, Sound, ghosts
  <2>2. CASE ~mixed
    <3>1. Accepted /\ owed \in Uploads /\ ~staging
      BY <1>3, <2>2, AcceptedIsOne DEF Unmarks, Accepted, Acceptance, Placements, Stagings,
         RestoreTypes, Applied, Serving, Halfway
    <3>2. WholeInstance
      BY <3>1, PlacedIsWhole
    <3>3. pc' = "prune" /\ ~restaged'
      BY <1>3 DEF Unmarks, Proceed, ghosts, Stagings, Serving
    <3> QED
      BY <1>3, <3>2, <3>3 DEF Unmarks, Sound, Begun, WholeInstance, Serving, Applied, Placing,
         AtFile, ghosts
  <2> QED
    BY <2>1, <2>2
<1> USE FileIsListed, UploadIsOne, AcceptedIsOne, PlacedIsWhole DEF disk, counts, ghosts,
   RestoreTypes, Stagings, Placements, Acceptance, Accepted, Halfway, Sound, Begun, WholeInstance,
   Serving, Booting, Instances, Stages, Empty, NoFiles, Filling, AtFile, Placing, Applied
<1>4. ASSUME NEW a \in Uploads, Stage(a) PROVE Sound'
  BY <1>4 DEF Stage, Proceed
<1>5. ASSUME Clears PROVE Sound'
  BY <1>5 DEF Clears, Proceed, RemovesOne, MakesDirectory
<1>6. ASSUME Verifies PROVE Sound'
  BY <1>6 DEF Verifies, Proceed, Unpacked, Upload
<1>7. ASSUME Refuses PROVE Sound'
  BY <1>7 DEF Refuses, Proceed
<1>8. ASSUME TearsMarker PROVE Sound'
  BY <1>8 DEF TearsMarker, Proceed
<1>9. ASSUME Marks PROVE Sound'
  BY <1>9 DEF Marks, Proceed, Upload
<1>10. ASSUME MarkFails PROVE Sound'
  BY <1>10 DEF MarkFails, Proceed
<1>11. ASSUME Discards PROVE Sound'
  BY <1>11 DEF Discards, Proceed, RemovesOne
<1>12. ASSUME Cancel PROVE Sound'
  BY <1>12 DEF Cancel, Proceed
<1>13. ASSUME NEW f \in Files, Unpacks(f) PROVE Sound'
  BY <1>13 DEF Unpacks, Upload
<1>14. ASSUME Commits PROVE Sound'
  BY <1>14 DEF Commits
<1>15. ASSUME Stops PROVE Sound'
  BY <1>15 DEF Stops
<1>16. ASSUME Crashes PROVE Sound'
  BY <1>16 DEF Crashes, CutsOff, File
<1>17. ASSUME NothingPending PROVE Sound'
  BY <1>17 DEF NothingPending, Proceed
<1>18. ASSUME Ignores PROVE Sound'
  BY <1>18 DEF Ignores, Proceed, Ignorable
<1>19. ASSUME Sidecars PROVE Sound'
  BY <1>19 DEF Sidecars, MovesTheLog
<1>20. ASSUME NextFile PROVE Sound'
  BY <1>20 DEF NextFile, Proceed, AlreadyPlaced, File
<1>21. ASSUME Aside PROVE Sound'
  BY <1>21 DEF Aside, Proceed, PutsAside, File
<1>22. ASSUME AsideCopied PROVE Sound'
  BY <1>22 DEF AsideCopied, Proceed, PutsAside, File
<1>23. ASSUME Moves PROVE Sound'
  BY <1>23 DEF Moves, Proceed, File
<1>24. ASSUME MoveCopied PROVE Sound'
  BY <1>24 DEF MoveCopied, Proceed, File
<1>25. ASSUME Removes PROVE Sound'
  BY <1>25 DEF Removes, File
<1>26. ASSUME Finishes PROVE Sound'
  BY <1>26 DEF Finishes, Proceed
<1>27. ASSUME PrunesSuperseded PROVE Sound'
  BY <1>27 DEF PrunesSuperseded, Proceed, KeptNewest
<1>28. ASSUME Repaired PROVE Sound'
  BY <1>28 DEF Repaired, Proceed
<1>29. ASSUME StartFails PROVE Sound'
  BY <1>29 DEF StartFails, CutsOff, File
<1>30. ASSUME TriesAgain PROVE Sound'
  BY <1>30 DEF TriesAgain, Proceed
<1>31. ASSUME GivesUp PROVE Sound'
  BY <1>31 DEF GivesUp, Proceed
<1>32. ASSUME AsideRemoves PROVE Sound'
  BY <1>32 DEF AsideRemoves, Proceed, File
<1>33. CASE UNCHANGED restoreVars
  BY <1>33 DEF restoreVars, File, Upload
<1> QED
  BY <1>1, <1>2, <1>3, <1>4, <1>5, <1>6, <1>7, <1>8, <1>9, <1>10, <1>11, <1>12, <1>13, <1>14,
     <1>15, <1>16, <1>17, <1>18, <1>19, <1>20, <1>21, <1>22, <1>23, <1>24, <1>25, <1>26, <1>27,
     <1>28, <1>29, <1>30, <1>31, <1>32, <1>33 DEF RestoreNext, Boot

\* Which replaced instances are the newest depends on nothing but what was in place.
LEMMA NewestStays ==
  /\ before' = before => NewestSuperseded' = NewestSuperseded
  /\ \A n \in NewestSuperseded : n \in Stages /\ before[n] # Empty
BY DEF NewestSuperseded, Superseded

\* Every step keeps what is known before a stage is applied.
LEMMA UnappliedHolds ==
  ASSUME RestoreTypes, Stagings, Placements, Acceptance, Halfway, Sound, Unapplied, Replaced,
     Underway, UnderwayAcross, AllStaged, [RestoreNext]_restoreVars
  PROVE  Unapplied'
<1> USE RestoreAssumption
<1>1. ASSUME Applies PROVE Unapplied'
  BY <1>1, SnapshotTaken DEF Applies, disk, Unapplied
<1>2. ASSUME Sidecars PROVE Unapplied'
  <2>1. CASE mixed
    BY <1>2, <2>1 DEF Sidecars, ghosts, Unapplied
  <2>2. CASE ~mixed
    <3>1. marker \in Stages /\ before[marker] # Empty
      BY <1>2, <2>2 DEF Sidecars, Sound, Begun, Applied, Placing, AtFile
    <3>2. \A n \in Stages \ {marker} : kept'[n] = kept[n]
      BY <1>2, <3>1 DEF Sidecars, MovesTheLog, RestoreTypes
    <3> QED
      BY <1>2, <3>1, <3>2 DEF Sidecars, ghosts, Unapplied
  <2> QED
    BY <2>1, <2>2
<1>3. ASSUME Aside PROVE Unapplied'
  <2>1. CASE mixed
    BY <1>3, <2>1 DEF Aside, ghosts, Unapplied
  <2>2. CASE ~mixed
    <3>1. marker \in Stages /\ before[marker] # Empty
      BY <1>3, <2>2 DEF Aside, Sound, Begun, Applied, Placing, AtFile
    <3>2. \A n \in Stages \ {marker} : kept'[n] = kept[n]
      BY <1>3, <3>1 DEF Aside, PutsAside, RestoreTypes
    <3> QED
      BY <1>3, <3>1, <3>2 DEF Aside, ghosts, Unapplied
  <2> QED
    BY <2>1, <2>2
<1>4. ASSUME AsideCopied PROVE Unapplied'
  <2>1. CASE mixed
    BY <1>4, <2>1 DEF AsideCopied, ghosts, Unapplied
  <2>2. CASE ~mixed
    <3>1. marker \in Stages /\ before[marker] # Empty
      BY <1>4, <2>2 DEF AsideCopied, Sound, Begun, Applied, Placing, AtFile
    <3>2. \A n \in Stages \ {marker} : kept'[n] = kept[n]
      BY <1>4, <3>1 DEF AsideCopied, PutsAside, RestoreTypes
    <3> QED
      BY <1>4, <3>1, <3>2 DEF AsideCopied, ghosts, Unapplied
  <2> QED
    BY <2>1, <2>2
<1> USE FileIsListed DEF disk, counts, ghosts, RestoreTypes, Stagings, Placements, Acceptance,
   Accepted, Halfway, Sound, Begun, Saved, Unapplied, Serving, Booting, Instances, Stages, Empty,
   NoFiles, Filling, AtFile, Placing, Applied
<1>5. ASSUME NEW a \in Uploads, Stage(a) PROVE Unapplied'
  BY <1>5 DEF Stage, Proceed
<1>6. ASSUME Clears PROVE Unapplied'
  BY <1>6 DEF Clears, Proceed, RemovesOne, MakesDirectory
<1>7. ASSUME Verifies PROVE Unapplied'
  BY <1>7 DEF Verifies, Proceed, Unpacked, Upload
<1>8. ASSUME Refuses PROVE Unapplied'
  BY <1>8 DEF Refuses, Proceed
<1>9. ASSUME TearsMarker PROVE Unapplied'
  BY <1>9 DEF TearsMarker, Proceed
<1>10. ASSUME Marks PROVE Unapplied'
  BY <1>10 DEF Marks, Proceed, Upload
<1>11. ASSUME MarkFails PROVE Unapplied'
  BY <1>11 DEF MarkFails, Proceed
<1>12. ASSUME Discards PROVE Unapplied'
  BY <1>12 DEF Discards, Proceed, RemovesOne
<1>13. ASSUME Cancel PROVE Unapplied'
  BY <1>13 DEF Cancel, Proceed
<1>14. ASSUME NEW f \in Files, Unpacks(f) PROVE Unapplied'
  BY <1>14 DEF Unpacks, Upload
<1>15. ASSUME Commits PROVE Unapplied'
  BY <1>15 DEF Commits
<1>16. ASSUME Stops PROVE Unapplied'
  BY <1>16 DEF Stops
<1>17. ASSUME Crashes PROVE Unapplied'
  BY <1>17 DEF Crashes, CutsOff, File
<1>18. ASSUME NothingPending PROVE Unapplied'
  BY <1>18 DEF NothingPending, Proceed
<1>19. ASSUME Ignores PROVE Unapplied'
  BY <1>19 DEF Ignores, Proceed, Ignorable
<1>20. ASSUME WillNotStart PROVE Unapplied'
  BY <1>20 DEF WillNotStart, Proceed
<1>21. ASSUME NextFile PROVE Unapplied'
  BY <1>21 DEF NextFile, Proceed, AlreadyPlaced, File
<1>22. ASSUME Moves PROVE Unapplied'
  BY <1>22 DEF Moves, Proceed, File
<1>23. ASSUME MoveCopied PROVE Unapplied'
  BY <1>23 DEF MoveCopied, Proceed, File
<1>24. ASSUME Removes PROVE Unapplied'
  BY <1>24 DEF Removes, File
<1>25. ASSUME Finishes PROVE Unapplied'
  BY <1>25 DEF Finishes, Proceed
<1>26. ASSUME Unmarks PROVE Unapplied'
  BY <1>26 DEF Unmarks, Proceed
<1>27. ASSUME PrunesSuperseded PROVE Unapplied'
  BY <1>27 DEF PrunesSuperseded, Proceed, KeptNewest
<1>28. ASSUME Repaired PROVE Unapplied'
  BY <1>28 DEF Repaired, Proceed
<1>29. ASSUME StartFails PROVE Unapplied'
  BY <1>29 DEF StartFails, CutsOff, File
<1>30. ASSUME TriesAgain PROVE Unapplied'
  BY <1>30 DEF TriesAgain, Proceed
<1>31. ASSUME GivesUp PROVE Unapplied'
  BY <1>31 DEF GivesUp, Proceed
<1>32. ASSUME AsideRemoves PROVE Unapplied'
  BY <1>32 DEF AsideRemoves, Proceed, File
<1>33. CASE UNCHANGED restoreVars
  BY <1>33, NewestStays DEF restoreVars, File, Upload
<1> QED
  BY <1>1, <1>2, <1>3, <1>4, <1>5, <1>6, <1>7, <1>8, <1>9, <1>10, <1>11, <1>12, <1>13, <1>14,
     <1>15, <1>16, <1>17, <1>18, <1>19, <1>20, <1>21, <1>22, <1>23, <1>24, <1>25, <1>26, <1>27,
     <1>28, <1>29, <1>30, <1>31, <1>32, <1>33 DEF RestoreNext, Boot

\* There are finitely many stages.
LEMMA StagesAreFinite == IsFiniteSet(Stages)
<1>1. 1 \in Int /\ MaxStages \in Int
  BY RestoreAssumption
<1> QED
  BY <1>1, FS_Interval DEF Stages

\* A restore that is done has put aside what was in its place.
LEMMA DoneIsSaved ==
  ASSUME RestoreTypes, Acceptance, Halfway, Underway, UnderwayAcross, Begun, Accepted, ~mixed,
         ~staging,
         NEW p \in Places,
         p = "log" \/ (p \in Members[archive[marker]] /\ <<marker, p>> \notin cutOff)
  PROVE  Saved(marker, p)
<1>1. archive[marker] = owed /\ owed # Nothing /\ Members[owed] \subseteq Files
  BY AcceptedIsOne DEF Accepted
<1>2. staged = NoFiles /\ log = Nothing
  BY PlacedIsWhole
<1>3. CASE p = "log"
  BY <1>2, <1>3 DEF Underway, Saved
<1>4. CASE p \in Members[owed] \ Across
  BY <1>1, <1>2, <1>4 DEF Underway, Put, NoFiles
<1>5. CASE p \in Members[owed] \cap Across /\ <<marker, p>> \notin cutOff
  BY <1>1, <1>2, <1>5 DEF UnderwayAcross, PutAcross, NoFiles
<1> QED
  BY <1>1, <1>3, <1>4, <1>5

\* What is in place for the first time now makes none of the older ones newer.
LEMMA NewestOnlyLeave ==
  ASSUME RestoreTypes, NEW m \in Stages, \A n \in Stages \ {m} : before'[n] = before[n],
         before[m] = Empty
  PROVE  NewestSuperseded' \subseteq NewestSuperseded \cup {m}
<1> SUFFICES ASSUME NEW n \in NewestSuperseded', n # m PROVE n \in NewestSuperseded
  OBVIOUS
<1> DEFINE Older == {s \in Superseded : s > n}
           Now == {s \in Superseded' : s > n}
<1>1. n \in Superseded /\ Cardinality(Now) < KeepSuperseded
  BY DEF NewestSuperseded, Superseded
<1>2. Older \subseteq Now
  BY DEF Superseded
<1>3. IsFiniteSet(Now)
  BY StagesAreFinite, FS_Subset DEF Superseded
<1>4. Cardinality(Older) <= Cardinality(Now) /\ Cardinality(Older) \in Nat /\
      Cardinality(Now) \in Nat
  BY <1>2, <1>3, FS_Subset, FS_CardinalityType
<1> QED
  BY <1>1, <1>4, RestoreAssumption DEF NewestSuperseded

\* Pruning keeps what the newest of them put aside.
LEMMA NewestAreKept ==
  ASSUME RestoreTypes, Unapplied, ~mixed, NEW n \in NewestSuperseded, kept[n] # Empty
  PROVE  n \in KeptNewest
<1> DEFINE Still == {m \in Stages : m > n /\ kept[m] # Empty}
           Later == {m \in Superseded : m > n}
<1>1. n \in Stages /\ Cardinality(Later) < KeepSuperseded
  BY DEF NewestSuperseded, Superseded
<1>2. Still \subseteq Later
  BY DEF Unapplied, Superseded
<1>3. IsFiniteSet(Later)
  BY StagesAreFinite, FS_Subset DEF Superseded
<1>4. Cardinality(Still) <= Cardinality(Later) /\ Cardinality(Still) \in Nat /\
      Cardinality(Later) \in Nat
  BY <1>2, <1>3, FS_Subset, FS_CardinalityType
<1> QED
  BY <1>1, <1>4, RestoreAssumption DEF KeptNewest

\* Every step keeps what was replaced, or the database that has replaced it.
LEMMA ReplacedHolds ==
  ASSUME RestoreTypes, Stagings, Placements, Acceptance, Halfway, Sound, Unapplied, Replaced,
     Underway, UnderwayAcross, AllStaged, [RestoreNext]_restoreVars
  PROVE  Replaced'
<1> USE RestoreAssumption
<1>1. ASSUME Ignores PROVE Replaced'
  <2>1. marker' = Nothing /\ NewestSuperseded' = NewestSuperseded
    BY <1>1, NewestStays DEF Ignores
  <2>2. CASE mixed
    BY <1>1, <2>2 DEF Ignores, Replaced
  <2>3. CASE ~mixed
    <3>1. ASSUME NEW n \in NewestSuperseded, NEW p \in Places,
                 p = "log" \/ (p \in Members[archive[n]] /\ <<n, p>> \notin cutOff)
          PROVE  Saved(n, p)
      <4>1. CASE n # marker
        BY <2>3, <3>1, <4>1 DEF Replaced
      <4>2. CASE n = marker
        BY <1>1, <2>3, <3>1, <4>2, NewestStays, UnderwayIsAccepted, DoneIsSaved DEF Ignores,
           Ignorable, Begun
      <4> QED
        BY <4>1, <4>2
    <3> QED
      BY <1>1, <2>1, <3>1 DEF Ignores, counts, Replaced, Saved
  <2> QED
    BY <2>2, <2>3
<1>2. ASSUME Applies PROVE Replaced'
  <2>1. CASE mixed'
    BY <2>1 DEF Replaced
  <2>2. CASE ~mixed'
    <3>1. ~mixed /\ marker' = marker /\ kept' = kept /\ archive' = archive /\ cutOff' = cutOff
      BY <1>2, <2>2 DEF Applies, disk, counts
    <3>2. NewestSuperseded' \subseteq NewestSuperseded \cup {marker}
      BY <1>2, SnapshotTaken, NewestOnlyLeave, NewestStays
    <3>3. \A n \in NewestSuperseded \ {marker} : before'[n] = before[n]
      BY <1>2, SnapshotTaken, NewestStays
    <3> QED
      BY <3>1, <3>2, <3>3 DEF Replaced, Saved
  <2> QED
    BY <2>1, <2>2
<1>3. ASSUME Unmarks PROVE Replaced'
  <2>1. marker' = Nothing /\ NewestSuperseded' = NewestSuperseded
    BY <1>3, NewestStays DEF Unmarks, ghosts
  <2>2. CASE mixed
    BY <1>3, <2>2 DEF Unmarks, ghosts, Replaced
  <2>3. CASE ~mixed
    <3>1. ASSUME NEW n \in NewestSuperseded, NEW p \in Places,
                 p = "log" \/ (p \in Members[archive[n]] /\ <<n, p>> \notin cutOff)
          PROVE  Saved(n, p)
      <4>1. CASE n # marker
        BY <2>3, <3>1, <4>1 DEF Replaced
      <4>2. CASE n = marker
        BY <1>3, <2>3, <3>1, <4>2, NewestStays, UnderwayIsAccepted, DoneIsSaved DEF Unmarks,
           Placements, Applied, Begun
      <4> QED
        BY <4>1, <4>2
    <3> QED
      BY <1>3, <2>1, <3>1 DEF Unmarks, counts, ghosts, Replaced, Saved
  <2> QED
    BY <2>2, <2>3
<1>4. ASSUME PrunesSuperseded PROVE Replaced'
  <2>1. CASE mixed
    BY <1>4, <2>1 DEF PrunesSuperseded, Replaced
  <2>2. CASE ~mixed
    <3>1. NewestSuperseded' = NewestSuperseded /\ marker = Nothing
      BY <1>4, NewestStays DEF PrunesSuperseded, Stagings
    <3>2. \A n \in NewestSuperseded : kept'[n] = kept[n]
      BY <1>4, <2>2, NewestStays, NewestAreKept DEF PrunesSuperseded
    <3> QED
      BY <1>4, <2>2, <3>1, <3>2 DEF PrunesSuperseded, counts, Replaced, Saved
  <2> QED
    BY <2>1, <2>2
<1> USE FileIsListed, NewestStays DEF disk, counts, ghosts, RestoreTypes, Stagings, Placements,
   Acceptance, Accepted, Halfway, Sound, Begun, Saved, Unapplied, Replaced, Underway, Serving,
   Booting, Instances, Stages, Empty, NoFiles, Filling, AtFile, Placing, Applied
<1>5. ASSUME NEW a \in Uploads, Stage(a) PROVE Replaced'
  BY <1>5 DEF Stage, Proceed
<1>6. ASSUME Clears PROVE Replaced'
  BY <1>6 DEF Clears, Proceed, RemovesOne, MakesDirectory
<1>7. ASSUME Verifies PROVE Replaced'
  BY <1>7 DEF Verifies, Proceed, Unpacked, Upload
<1>8. ASSUME Refuses PROVE Replaced'
  BY <1>8 DEF Refuses, Proceed
<1>9. ASSUME TearsMarker PROVE Replaced'
  BY <1>9 DEF TearsMarker, Proceed
<1>10. ASSUME Marks PROVE Replaced'
  BY <1>10 DEF Marks, Proceed, Upload
<1>11. ASSUME MarkFails PROVE Replaced'
  BY <1>11 DEF MarkFails, Proceed
<1>12. ASSUME Discards PROVE Replaced'
  BY <1>12 DEF Discards, Proceed, RemovesOne
<1>13. ASSUME Cancel PROVE Replaced'
  BY <1>13 DEF Cancel, Proceed
<1>14. ASSUME NEW f \in Files, Unpacks(f) PROVE Replaced'
  BY <1>14 DEF Unpacks, Upload
<1>15. ASSUME Commits PROVE Replaced'
  BY <1>15 DEF Commits
<1>16. ASSUME Stops PROVE Replaced'
  BY <1>16 DEF Stops
<1>17. ASSUME Crashes PROVE Replaced'
  BY <1>17 DEF Crashes, CutsOff, File
<1>18. ASSUME NothingPending PROVE Replaced'
  BY <1>18 DEF NothingPending, Proceed
<1>19. ASSUME WillNotStart PROVE Replaced'
  BY <1>19 DEF WillNotStart, Proceed
<1>20. ASSUME Sidecars PROVE Replaced'
  BY <1>20 DEF Sidecars, MovesTheLog
<1>21. ASSUME NextFile PROVE Replaced'
  BY <1>21 DEF NextFile, Proceed, AlreadyPlaced, File
<1>22. ASSUME Aside PROVE Replaced'
  BY <1>22 DEF Aside, Proceed, PutsAside, File
<1>23. ASSUME AsideCopied PROVE Replaced'
  BY <1>23 DEF AsideCopied, Proceed, PutsAside, File
<1>24. ASSUME Moves PROVE Replaced'
  BY <1>24 DEF Moves, Proceed, File
<1>25. ASSUME MoveCopied PROVE Replaced'
  BY <1>25 DEF MoveCopied, Proceed, File
<1>26. ASSUME Removes PROVE Replaced'
  BY <1>26 DEF Removes, File
<1>27. ASSUME Finishes PROVE Replaced'
  BY <1>27 DEF Finishes, Proceed
<1>28. ASSUME Repaired PROVE Replaced'
  BY <1>28 DEF Repaired, Proceed
<1>29. ASSUME StartFails PROVE Replaced'
  BY <1>29 DEF StartFails, CutsOff, File
<1>30. ASSUME TriesAgain PROVE Replaced'
  BY <1>30 DEF TriesAgain, Proceed
<1>31. ASSUME GivesUp PROVE Replaced'
  BY <1>31 DEF GivesUp, Proceed
<1>32. ASSUME AsideRemoves PROVE Replaced'
  BY <1>32 DEF AsideRemoves, Proceed, File
<1>33. CASE UNCHANGED restoreVars
  BY <1>33, NewestStays DEF restoreVars, File, Upload
<1> QED
  BY <1>1, <1>2, <1>3, <1>4, <1>5, <1>6, <1>7, <1>8, <1>9, <1>10, <1>11, <1>12, <1>13, <1>14,
     <1>15, <1>16, <1>17, <1>18, <1>19, <1>20, <1>21, <1>22, <1>23, <1>24, <1>25, <1>26, <1>27,
     <1>28, <1>29, <1>30, <1>31, <1>32, <1>33 DEF RestoreNext, Boot

\* Every step keeps a marked stage whole.
LEMMA AllStagedHolds ==
  ASSUME RestoreTypes, Stagings, Placements, Acceptance, Halfway, Sound, Unapplied, Replaced,
     Underway, UnderwayAcross, AllStaged, [RestoreNext]_restoreVars
  PROVE  AllStaged'
<1> USE RestoreAssumption
<1> USE FileIsListed, UploadIsOne DEF disk, counts, ghosts, RestoreTypes, Stagings, Placements,
   Acceptance, Accepted, Halfway, Sound, Begun, Saved, AllStaged, Serving, Booting, Instances,
   Stages, Empty, NoFiles, Filling, AtFile, Placing, Applied
<1>1. ASSUME NEW a \in Uploads, Stage(a) PROVE AllStaged'
  BY <1>1 DEF Stage, Proceed
<1>2. ASSUME Clears PROVE AllStaged'
  BY <1>2 DEF Clears, Proceed, RemovesOne, MakesDirectory
<1>3. ASSUME Verifies PROVE AllStaged'
  BY <1>3 DEF Verifies, Proceed, Unpacked, Upload
<1>4. ASSUME Refuses PROVE AllStaged'
  BY <1>4 DEF Refuses, Proceed
<1>5. ASSUME TearsMarker PROVE AllStaged'
  BY <1>5 DEF TearsMarker, Proceed
<1>6. ASSUME Marks PROVE AllStaged'
  BY <1>6 DEF Marks, Proceed, Upload
<1>7. ASSUME MarkFails PROVE AllStaged'
  BY <1>7 DEF MarkFails, Proceed
<1>8. ASSUME Discards PROVE AllStaged'
  BY <1>8 DEF Discards, Proceed, RemovesOne
<1>9. ASSUME Cancel PROVE AllStaged'
  BY <1>9 DEF Cancel, Proceed
<1>10. ASSUME NEW f \in Files, Unpacks(f) PROVE AllStaged'
  BY <1>10 DEF Unpacks, Upload
<1>11. ASSUME Commits PROVE AllStaged'
  BY <1>11 DEF Commits
<1>12. ASSUME Stops PROVE AllStaged'
  BY <1>12 DEF Stops
<1>13. ASSUME Crashes PROVE AllStaged'
  BY <1>13 DEF Crashes, CutsOff, File
<1>14. ASSUME NothingPending PROVE AllStaged'
  BY <1>14 DEF NothingPending, Proceed
<1>15. ASSUME Ignores PROVE AllStaged'
  BY <1>15 DEF Ignores, Proceed, Ignorable
<1>16. ASSUME WillNotStart PROVE AllStaged'
  BY <1>16 DEF WillNotStart, Proceed
<1>17. ASSUME Applies PROVE AllStaged'
  BY <1>17 DEF Applies, Proceed, Applying
<1>18. ASSUME Sidecars PROVE AllStaged'
  BY <1>18 DEF Sidecars, MovesTheLog
<1>19. ASSUME NextFile PROVE AllStaged'
  BY <1>19 DEF NextFile, Proceed, AlreadyPlaced, File
<1>20. ASSUME Aside PROVE AllStaged'
  BY <1>20 DEF Aside, Proceed, PutsAside, File
<1>21. ASSUME AsideCopied PROVE AllStaged'
  BY <1>21 DEF AsideCopied, Proceed, PutsAside, File
<1>22. ASSUME Moves PROVE AllStaged'
  BY <1>22 DEF Moves, Proceed, File
<1>23. ASSUME MoveCopied PROVE AllStaged'
  BY <1>23 DEF MoveCopied, Proceed, File
<1>24. ASSUME Removes PROVE AllStaged'
  BY <1>24 DEF Removes, File
<1>25. ASSUME Finishes PROVE AllStaged'
  BY <1>25 DEF Finishes, Proceed
<1>26. ASSUME Unmarks PROVE AllStaged'
  BY <1>26 DEF Unmarks, Proceed
<1>27. ASSUME PrunesSuperseded PROVE AllStaged'
  BY <1>27 DEF PrunesSuperseded, Proceed, KeptNewest
<1>28. ASSUME Repaired PROVE AllStaged'
  BY <1>28 DEF Repaired, Proceed
<1>29. ASSUME StartFails PROVE AllStaged'
  BY <1>29 DEF StartFails, CutsOff, File
<1>30. ASSUME TriesAgain PROVE AllStaged'
  BY <1>30 DEF TriesAgain, Proceed
<1>31. ASSUME GivesUp PROVE AllStaged'
  BY <1>31 DEF GivesUp, Proceed
<1>32. ASSUME AsideRemoves PROVE AllStaged'
  BY <1>32 DEF AsideRemoves, Proceed, File
<1>33. CASE UNCHANGED restoreVars
  BY <1>33, NewestStays DEF restoreVars, File, Upload
<1> QED
  BY <1>1, <1>2, <1>3, <1>4, <1>5, <1>6, <1>7, <1>8, <1>9, <1>10, <1>11, <1>12, <1>13, <1>14,
     <1>15, <1>16, <1>17, <1>18, <1>19, <1>20, <1>21, <1>22, <1>23, <1>24, <1>25, <1>26, <1>27,
     <1>28, <1>29, <1>30, <1>31, <1>32, <1>33 DEF RestoreNext, Boot

\* Every step keeps what is known while a stage is put in place.
LEMMA UnderwayHolds ==
  ASSUME RestoreTypes, Stagings, Placements, Acceptance, Halfway, Sound, Unapplied, Replaced,
     Underway, UnderwayAcross, AllStaged, [RestoreNext]_restoreVars
  PROVE  Underway'
<1> USE RestoreAssumption
<1>1. ASSUME Applies PROVE Underway'
  <2>1. CASE mixed'
    BY <2>1 DEF Underway
  <2>2. CASE ~mixed'
    <3>1. /\ ~mixed /\ marker \in Stages /\ marker' = marker /\ pc' = "sidecars" /\ Accepted
          /\ UNCHANGED <<target, log, staged, kept, owed>>
      BY <1>1, <2>2 DEF Applies, Applying, Proceed, disk, RestoreTypes, Acceptance, Accepted
    <3>2. CASE Begun
      <4>1. before' = before /\ pc = "boot"
        BY <1>1, <3>2, SnapshotTaken DEF Begun, Applies
      <4> QED
        BY <3>1, <3>2, <4>1 DEF Underway, Put, Saved
    <3>3. CASE ~Begun
      <4>1. /\ \A f \in Files : before'[marker][f] = target[f]
            /\ before'[marker]["log"] = log
        BY <1>1, <3>1, <3>3, SnapshotTaken DEF Begun
      <4>2. kept[marker] = Empty
        BY <3>1, <3>3 DEF Unapplied, Begun
      <4>3. \A p \in Places : kept[marker][p] = Nothing
        BY <4>2 DEF Empty
      <4>4. "log" \in Places /\ Files \subseteq Places /\ Members[owed] \subseteq Files
        BY <3>1, AcceptedIsOne DEF Places
      <4>5. \A f \in Members[owed] : staged[f] = owed
        BY <3>1, <3>3 DEF AllStaged
      <4>6. target[Db] \in Instances
        BY <1>1, <3>1, <3>3 DEF Applies, Sound, WholeInstance
      <4> QED
        BY <3>1, <4>1, <4>3, <4>4, <4>5, <4>6 DEF Underway, Put
    <3> QED
      BY <3>2, <3>3
  <2> QED
    BY <2>1, <2>2
<1>2. ASSUME Sidecars PROVE Underway'
  <2>1. CASE mixed \/ ~Begun
    BY <1>2, <2>1 DEF Sidecars, ghosts, Underway, Begun
  <2>2. CASE ~mixed /\ Begun
    <3>1. /\ marker \in Stages /\ "log" \in Places /\ Files \subseteq Places /\ log \in Contents
          /\ Members[owed] \subseteq Files
      BY <2>2, UnderwayIsAccepted, AcceptedIsOne DEF Begun, Places, RestoreTypes, Contents
    <3>2. \A f \in Files : kept'[marker][f] = kept[marker][f]
      BY <1>2, <3>1, PutsOne DEF Sidecars, MovesTheLog
    <3>3. log' = Nothing /\ kept'[marker]["log"] = before[marker]["log"]
      BY <1>2, <2>2, <3>1, PutsOne DEF Sidecars, MovesTheLog, Underway, Saved
    <3> QED
      BY <1>2, <2>2, <3>1, <3>2, <3>3 DEF Sidecars, counts, ghosts, Underway, Begun, Saved, Put
  <2> QED
    BY <2>1, <2>2
<1>3. ASSUME Aside PROVE Underway'
  <2>1. CASE mixed \/ ~Begun
    BY <1>3, <2>1 DEF Aside, ghosts, Underway, Begun
  <2>2. CASE ~mixed /\ Begun
    <3>1. Accepted /\ owed # Nothing
      BY <2>2, UnderwayIsAccepted DEF Accepted
    <3>2. /\ marker \in Stages /\ "log" \in Places /\ Files \subseteq Places /\ File # "log"
          /\ Members[owed] \subseteq Files /\ File \in Files /\ File \in Members[owed] /\
             staged[File] = owed
          /\ log = Nothing /\ Saved(marker, "log") /\ File' = File
      BY <1>3, <2>2, <3>1, AcceptedIsOne, FileIsListed
      DEF Aside, Proceed, Places, Halfway, Placements, AtFile, Placing, Applied, Underway, Saved,
        File
    <3>3. /\ UNCHANGED <<log, staged, marker, owed, before, mixed, File>>
          /\ pc' \in {"move", "asideCopied"} /\ (pc' = "asideCopied" => File \in Across)
      BY <1>3, <3>2 DEF Aside, Proceed, counts, ghosts
    <3>4. /\ \A f \in Files \ {File} : target'[f] = target[f] /\ kept'[marker][f] = kept[marker][f]
          /\ kept'[marker]["log"] = kept[marker]["log"]
      <4>1. CASE UNCHANGED <<target, kept>>
        BY <4>1
      <4>2. CASE /\ kept' = [kept EXCEPT ![marker][File] = target[File]]
                 /\ target' = [target EXCEPT ![File] = Nothing]
        BY <3>2, <4>2, PutsOne DEF RestoreTypes
      <4>3. CASE kept' = [kept EXCEPT ![marker][File] = Torn] /\ UNCHANGED target
        BY <3>2, <4>3, PutsOne DEF Contents
      <4> QED
        BY <1>3, <4>1, <4>2, <4>3 DEF Aside, PutsAside
    <3>5. File \notin Across =>
            target'[File] = Nothing /\ kept'[marker][File] = before[marker][File]
      <4>1. SUFFICES ASSUME File \notin Across
                     PROVE  target'[File] = Nothing /\ kept'[marker][File] = before[marker][File]
        OBVIOUS
      <4>2. Put(marker, File)
        BY <2>2, <3>2, <4>1 DEF Underway
      <4>3. CASE target[File] = Nothing
        BY <1>3, <3>1, <3>2, <4>1, <4>2, <4>3 DEF Aside, Put, Saved
      <4>4. CASE target[File] # Nothing
        <5>1. /\ kept' = [kept EXCEPT ![marker][File] = target[File]]
              /\ target' = [target EXCEPT ![File] = Nothing]
          BY <1>3, <4>1, <4>4 DEF Aside, PutsAside
        <5>2. kept'[marker][File] = target[File]
          BY <3>2, <5>1, PutsOne DEF RestoreTypes
        <5> QED
          BY <3>1, <3>2, <4>2, <4>4, <5>1, <5>2 DEF Put, RestoreTypes
      <4> QED
        BY <4>3, <4>4
    <3> QED
      BY <2>2, <3>2, <3>3, <3>4, <3>5 DEF Underway, Begun, Saved, Put
  <2> QED
    BY <2>1, <2>2
<1> USE FileIsListed, UploadIsOne, AcceptedIsOne DEF disk, counts, ghosts, RestoreTypes, Stagings,
   Placements, Acceptance, Accepted, Halfway, Sound, Begun, Saved, Put, WholeInstance, Underway,
   AllStaged, Serving, Booting, Instances, Stages, Empty, NoFiles, Filling, AtFile, Placing,
   Applied
<1>4. ASSUME NEW a \in Uploads, Stage(a) PROVE Underway'
  BY <1>4 DEF Stage, Proceed
<1>5. ASSUME Clears PROVE Underway'
  BY <1>5 DEF Clears, Proceed, RemovesOne, MakesDirectory
<1>6. ASSUME Verifies PROVE Underway'
  BY <1>6 DEF Verifies, Proceed, Unpacked, Upload
<1>7. ASSUME Refuses PROVE Underway'
  BY <1>7 DEF Refuses, Proceed
<1>8. ASSUME TearsMarker PROVE Underway'
  BY <1>8 DEF TearsMarker, Proceed
<1>9. ASSUME Marks PROVE Underway'
  BY <1>9 DEF Marks, Proceed, Upload
<1>10. ASSUME MarkFails PROVE Underway'
  BY <1>10 DEF MarkFails, Proceed
<1>11. ASSUME Discards PROVE Underway'
  BY <1>11 DEF Discards, Proceed, RemovesOne
<1>12. ASSUME Cancel PROVE Underway'
  BY <1>12 DEF Cancel, Proceed
<1>13. ASSUME NEW f \in Files, Unpacks(f) PROVE Underway'
  BY <1>13 DEF Unpacks, Upload
<1>14. ASSUME Commits PROVE Underway'
  BY <1>14 DEF Commits
<1>15. ASSUME Stops PROVE Underway'
  BY <1>15 DEF Stops
<1>16. ASSUME Crashes PROVE Underway'
  BY <1>16 DEF Crashes, CutsOff, File
<1>17. ASSUME NothingPending PROVE Underway'
  BY <1>17 DEF NothingPending, Proceed
<1>18. ASSUME Ignores PROVE Underway'
  BY <1>18 DEF Ignores, Proceed, Ignorable
<1>19. ASSUME WillNotStart PROVE Underway'
  BY <1>19 DEF WillNotStart, Proceed
<1>20. ASSUME NextFile PROVE Underway'
  BY <1>20 DEF NextFile, Proceed, AlreadyPlaced, File
<1>21. ASSUME AsideCopied PROVE Underway'
  BY <1>21 DEF AsideCopied, Proceed, PutsAside, File
<1>22. ASSUME Moves PROVE Underway'
  BY <1>22 DEF Moves, Proceed, File
<1>23. ASSUME MoveCopied PROVE Underway'
  BY <1>23 DEF MoveCopied, Proceed, File
<1>24. ASSUME Removes PROVE Underway'
  BY <1>24 DEF Removes, File
<1>25. ASSUME Finishes PROVE Underway'
  BY <1>25 DEF Finishes, Proceed
<1>26. ASSUME Unmarks PROVE Underway'
  BY <1>26 DEF Unmarks, Proceed
<1>27. ASSUME PrunesSuperseded PROVE Underway'
  BY <1>27 DEF PrunesSuperseded, Proceed, KeptNewest
<1>28. ASSUME Repaired PROVE Underway'
  BY <1>28 DEF Repaired, Proceed
<1>29. ASSUME StartFails PROVE Underway'
  BY <1>29 DEF StartFails, CutsOff, File
<1>30. ASSUME TriesAgain PROVE Underway'
  BY <1>30 DEF TriesAgain, Proceed
<1>31. ASSUME GivesUp PROVE Underway'
  BY <1>31 DEF GivesUp, Proceed
<1>32. ASSUME AsideRemoves PROVE Underway'
  BY <1>32 DEF AsideRemoves, Proceed, File
<1>33. CASE UNCHANGED restoreVars
  BY <1>33, NewestStays DEF restoreVars, File, Upload
<1> QED
  BY <1>1, <1>2, <1>3, <1>4, <1>5, <1>6, <1>7, <1>8, <1>9, <1>10, <1>11, <1>12, <1>13, <1>14,
     <1>15, <1>16, <1>17, <1>18, <1>19, <1>20, <1>21, <1>22, <1>23, <1>24, <1>25, <1>26, <1>27,
     <1>28, <1>29, <1>30, <1>31, <1>32, <1>33 DEF RestoreNext, Boot

\* Every step keeps what is known of a file on another filesystem.
LEMMA UnderwayAcrossHolds ==
  ASSUME RestoreTypes, Stagings, Placements, Acceptance, Halfway, Sound, Unapplied, Replaced,
     Underway, UnderwayAcross, AllStaged, [RestoreNext]_restoreVars
  PROVE  UnderwayAcross'
<1> USE RestoreAssumption
<1>1. ASSUME Applies PROVE UnderwayAcross'
  <2>1. CASE mixed'
    BY <2>1 DEF UnderwayAcross
  <2>2. CASE ~mixed'
    <3>1. /\ ~mixed /\ marker \in Stages /\ marker' = marker /\ pc' = "sidecars" /\ Accepted
          /\ UNCHANGED <<target, log, staged, kept, owed, cutOff>>
      BY <1>1, <2>2 DEF Applies, Applying, Proceed, disk, RestoreTypes, Acceptance, Accepted
    <3>2. CASE Begun
      <4>1. before' = before /\ pc = "boot"
        BY <1>1, <3>2, SnapshotTaken DEF Begun, Applies
      <4> QED
        BY <3>1, <3>2, <4>1 DEF UnderwayAcross, PutAcross, Saved, Entering
    <3>3. CASE ~Begun
      <4>1. \A f \in Files : before'[marker][f] = target[f]
        BY <1>1, <3>1, <3>3, SnapshotTaken DEF Begun
      <4>2. kept[marker] = Empty
        BY <3>1, <3>3 DEF Unapplied, Begun
      <4>3. Files \subseteq Places /\ Members[owed] \subseteq Files
        BY <3>1, AcceptedIsOne DEF Places
      <4>4. \A p \in Files : kept[marker][p] = Nothing
        BY <4>2, <4>3 DEF Empty
      <4>5. \A f \in Members[owed] : staged[f] = owed
        BY <3>1, <3>3 DEF AllStaged
      <4> QED
        BY <3>1, <4>1, <4>3, <4>4, <4>5 DEF UnderwayAcross, PutAcross, Saved
    <3> QED
      BY <3>2, <3>3
  <2> QED
    BY <2>1, <2>2
<1>2. ASSUME Sidecars PROVE UnderwayAcross'
  <2>1. CASE mixed \/ ~Begun
    BY <1>2, <2>1 DEF Sidecars, ghosts, UnderwayAcross, Begun
  <2>2. CASE ~mixed /\ Begun
    <3>1. /\ marker \in Stages /\ "log" \in Places /\ Files \subseteq Places /\ log \in Contents
          /\ Members[owed] \subseteq Files
      BY <2>2, UnderwayIsAccepted, AcceptedIsOne DEF Begun, Places, RestoreTypes, Contents
    <3>2. \A f \in Files : kept'[marker][f] = kept[marker][f]
      BY <1>2, <3>1, PutsOne DEF Sidecars, MovesTheLog
    <3> QED
      BY <1>2, <2>2, <3>1, <3>2
      DEF Sidecars, counts, ghosts, UnderwayAcross, Begun, Saved, PutAcross, Entering
  <2> QED
    BY <2>1, <2>2
<1>3. ASSUME Aside PROVE UnderwayAcross'
  <2>1. CASE mixed \/ ~Begun
    BY <1>3, <2>1 DEF Aside, ghosts, UnderwayAcross, Begun
  <2>2. CASE ~mixed /\ Begun
    <3>1. /\ Accepted /\ owed # Nothing /\ marker \in Stages /\ Members[owed] \subseteq Files
          /\ File \in Files /\ File \in Members[owed] /\ staged[File] = owed
          /\ Files \subseteq Places
      BY <1>3, <2>2, UnderwayIsAccepted, AcceptedIsOne, FileIsListed
      DEF Aside, Accepted, Halfway, Placements, AtFile, Placing, Places
    <3>2. /\ UNCHANGED <<marker, owed, before, mixed, cutOff, staged, work>> /\ File' = File
          /\ pc = "aside" /\ pc' \in {"move", "asideCopied"}
      BY <1>3 DEF Aside, Proceed, counts, ghosts, File
    <3>3. \A f \in Files \ {File} : target'[f] = target[f] /\ kept'[marker][f] = kept[marker][f]
      <4>1. CASE UNCHANGED <<target, kept>>
        BY <4>1
      <4>2. CASE /\ kept' = [kept EXCEPT ![marker][File] = target[File]]
                 /\ target' = [target EXCEPT ![File] = Nothing]
        BY <3>1, <4>2, PutsOne DEF RestoreTypes
      <4>3. CASE kept' = [kept EXCEPT ![marker][File] = Torn] /\ UNCHANGED target
        BY <3>1, <4>3, PutsOne DEF Contents
      <4> QED
        BY <1>3, <4>1, <4>2, <4>3 DEF Aside, PutsAside
    <3>4. CASE target[File] = Nothing
      BY <1>3, <2>2, <3>1, <3>2, <3>3, <3>4
      DEF Aside, Proceed, UnderwayAcross, Begun, Saved, PutAcross, Entering
    <3>5. CASE File \notin Across
      BY <1>3, <2>2, <3>1, <3>2, <3>3, <3>5
      DEF Aside, Proceed, UnderwayAcross, Begun, Saved, PutAcross, Entering
    <3>6. CASE target[File] # Nothing /\ File \in Across
      BY <1>3, <2>2, <3>1, <3>2, <3>3, <3>6
      DEF Aside, Proceed, UnderwayAcross, Begun, Saved, PutAcross, Entering
    <3> QED
      BY <3>4, <3>5, <3>6
  <2> QED
    BY <2>1, <2>2
<1>4. ASSUME AsideCopied PROVE UnderwayAcross'
  <2>1. CASE mixed \/ ~Begun
    BY <1>4, <2>1 DEF AsideCopied, ghosts, UnderwayAcross, Begun
  <2>2. CASE ~mixed /\ Begun
    <3>1. /\ Accepted /\ owed # Nothing /\ marker \in Stages /\ Members[owed] \subseteq Files
          /\ File \in Files /\ File \in Members[owed] /\ staged[File] = owed
          /\ Files \subseteq Places
      BY <1>4, <2>2, UnderwayIsAccepted, AcceptedIsOne, FileIsListed
      DEF AsideCopied, Accepted, Halfway, Placements, AtFile, Placing, Places
    <3>2. /\ UNCHANGED <<marker, owed, before, mixed, cutOff, staged, target, work>>
          /\ File' = File /\ pc = "asideCopied" /\ pc' = "asideRemove"
      BY <1>4 DEF AsideCopied, Proceed, counts, ghosts, File
    <3>3. /\ \A f \in Files \ {File} : kept'[marker][f] = kept[marker][f]
          /\ kept'[marker][File] = target[File]
      BY <1>4, <3>1, PutsOne DEF AsideCopied, PutsAside, RestoreTypes
    <3> QED
      BY <2>2, <3>1, <3>2, <3>3 DEF UnderwayAcross, Begun, Saved, PutAcross, Entering
  <2> QED
    BY <2>1, <2>2
<1>5. ASSUME AsideRemoves PROVE UnderwayAcross'
  <2>1. CASE mixed \/ ~Begun
    BY <1>5, <2>1 DEF AsideRemoves, ghosts, UnderwayAcross, Begun
  <2>2. CASE ~mixed /\ Begun
    <3>1. /\ Accepted /\ owed # Nothing /\ marker \in Stages /\ Members[owed] \subseteq Files
          /\ File \in Files /\ File \in Members[owed] /\ staged[File] = owed
          /\ Files \subseteq Places
      BY <1>5, <2>2, UnderwayIsAccepted, AcceptedIsOne, FileIsListed
      DEF AsideRemoves, Accepted, Halfway, Placements, AtFile, Placing, Places
    <3>2. /\ UNCHANGED <<marker, owed, before, mixed, cutOff, staged, kept, work>>
          /\ File' = File /\ pc = "asideRemove" /\ pc' = "move"
      BY <1>5 DEF AsideRemoves, Proceed, counts, ghosts, File
    <3>3. (\A f \in Files \ {File} : target'[f] = target[f]) /\ target'[File] = Nothing
      BY <1>5, <3>1 DEF AsideRemoves, RestoreTypes
    <3> QED
      BY <2>2, <3>1, <3>2, <3>3 DEF UnderwayAcross, Begun, Saved, PutAcross, Entering
  <2> QED
    BY <2>1, <2>2
<1>6. ASSUME Moves PROVE UnderwayAcross'
  <2>1. CASE mixed \/ ~Begun
    BY <1>6, <2>1 DEF Moves, ghosts, UnderwayAcross, Begun
  <2>2. CASE ~mixed /\ Begun
    <3>1. /\ Accepted /\ owed # Nothing /\ marker \in Stages /\ Members[owed] \subseteq Files
          /\ File \in Files /\ File \in Members[owed] /\ staged[File] = owed
          /\ Files \subseteq Places
      BY <1>6, <2>2, UnderwayIsAccepted, AcceptedIsOne, FileIsListed
      DEF Moves, Accepted, Halfway, Placements, AtFile, Placing, Places
    <3>2. /\ UNCHANGED <<marker, owed, before, mixed, cutOff, kept>>
          /\ pc = "move" /\ pc' \in {"next", "moveCopied"}
          /\ (pc' = "moveCopied" => UNCHANGED <<staged, work, File>>)
      BY <1>6 DEF Moves, Proceed, counts, ghosts, File
    <3>3. \A f \in Files \ {File} : target'[f] = target[f] /\ staged'[f] = staged[f]
      BY <1>6, <3>1 DEF Moves, RestoreTypes
    <3>4. CASE File \notin Across /\ pc' = "next"
      BY <2>2, <3>1, <3>2, <3>3, <3>4 DEF UnderwayAcross, Begun, Saved, PutAcross, Entering
    <3>5. CASE File \in Across /\ pc' = "moveCopied"
      BY <2>2, <3>1, <3>2, <3>3, <3>5 DEF UnderwayAcross, Begun, Saved, PutAcross, Entering
    <3> QED
      BY <1>6, <3>4, <3>5 DEF Moves, Proceed
  <2> QED
    BY <2>1, <2>2
<1>7. ASSUME MoveCopied PROVE UnderwayAcross'
  <2>1. CASE mixed \/ ~Begun
    BY <1>7, <2>1 DEF MoveCopied, ghosts, UnderwayAcross, Begun
  <2>2. CASE ~mixed /\ Begun
    <3>1. /\ Accepted /\ owed # Nothing /\ marker \in Stages /\ Members[owed] \subseteq Files
          /\ File \in Files /\ File \in Members[owed] /\ staged[File] = owed
          /\ Files \subseteq Places
      BY <1>7, <2>2, UnderwayIsAccepted, AcceptedIsOne, FileIsListed
      DEF MoveCopied, Accepted, Halfway, Placements, AtFile, Placing, Places
    <3> QED
      BY <1>7, <2>2, <3>1
      DEF MoveCopied, Proceed, counts, ghosts, UnderwayAcross, Begun, Saved, PutAcross, Entering,
          File
  <2> QED
    BY <2>1, <2>2
<1>8. ASSUME Removes PROVE UnderwayAcross'
  <2>1. CASE mixed \/ ~Begun
    BY <1>8, <2>1 DEF Removes, ghosts, UnderwayAcross, Begun
  <2>2. CASE ~mixed /\ Begun
    <3>1. /\ Accepted /\ owed # Nothing /\ marker \in Stages /\ Members[owed] \subseteq Files
          /\ File \in Files /\ File \in Members[owed] /\ staged[File] = owed
          /\ Files \subseteq Places
      BY <1>8, <2>2, UnderwayIsAccepted, AcceptedIsOne, FileIsListed
      DEF Removes, Accepted, Halfway, Placements, AtFile, Placing, Places
    <3>2. /\ UNCHANGED <<marker, owed, before, mixed, cutOff, kept, target>>
          /\ pc = "remove" /\ pc' = "next"
      BY <1>8 DEF Removes, counts, ghosts
    <3>3. (\A f \in Files \ {File} : staged'[f] = staged[f]) /\ staged'[File] = Nothing
      BY <1>8, <3>1 DEF Removes, RestoreTypes
    <3> QED
      BY <2>2, <3>1, <3>2, <3>3 DEF UnderwayAcross, Begun, Saved, PutAcross, Entering
  <2> QED
    BY <2>1, <2>2
<1> USE FileIsListed, UploadIsOne, AcceptedIsOne DEF disk, counts, ghosts, RestoreTypes, Stagings,
   Placements, Acceptance, Accepted, Halfway, Sound, Begun, Saved, PutAcross, Entering,
   WholeInstance, UnderwayAcross, AllStaged, Serving, Booting, Instances, Stages, Empty, NoFiles,
   Filling, AtFile, Placing, Applied
<1>9. ASSUME NEW a \in Uploads, Stage(a) PROVE UnderwayAcross'
  BY <1>9 DEF Stage, Proceed
<1>10. ASSUME Clears PROVE UnderwayAcross'
  BY <1>10 DEF Clears, Proceed, RemovesOne, MakesDirectory
<1>11. ASSUME Verifies PROVE UnderwayAcross'
  BY <1>11 DEF Verifies, Proceed, Unpacked, Upload
<1>12. ASSUME Refuses PROVE UnderwayAcross'
  BY <1>12 DEF Refuses, Proceed
<1>13. ASSUME TearsMarker PROVE UnderwayAcross'
  BY <1>13 DEF TearsMarker, Proceed
<1>14. ASSUME Marks PROVE UnderwayAcross'
  BY <1>14 DEF Marks, Proceed, Upload
<1>15. ASSUME MarkFails PROVE UnderwayAcross'
  BY <1>15 DEF MarkFails, Proceed
<1>16. ASSUME Discards PROVE UnderwayAcross'
  BY <1>16 DEF Discards, Proceed, RemovesOne
<1>17. ASSUME Cancel PROVE UnderwayAcross'
  BY <1>17 DEF Cancel, Proceed
<1>18. ASSUME NEW f \in Files, Unpacks(f) PROVE UnderwayAcross'
  BY <1>18 DEF Unpacks, Upload
<1>19. ASSUME Commits PROVE UnderwayAcross'
  BY <1>19 DEF Commits
<1>20. ASSUME Stops PROVE UnderwayAcross'
  BY <1>20 DEF Stops
<1>21. ASSUME Crashes PROVE UnderwayAcross'
  BY <1>21 DEF Crashes, CutsOff, File
<1>22. ASSUME NothingPending PROVE UnderwayAcross'
  BY <1>22 DEF NothingPending, Proceed
<1>23. ASSUME Ignores PROVE UnderwayAcross'
  BY <1>23 DEF Ignores, Proceed, Ignorable
<1>24. ASSUME WillNotStart PROVE UnderwayAcross'
  BY <1>24 DEF WillNotStart, Proceed
<1>25. ASSUME NextFile PROVE UnderwayAcross'
  BY <1>25 DEF NextFile, Proceed, AlreadyPlaced, File
<1>26. ASSUME Finishes PROVE UnderwayAcross'
  BY <1>26 DEF Finishes, Proceed
<1>27. ASSUME Unmarks PROVE UnderwayAcross'
  BY <1>27 DEF Unmarks, Proceed
<1>28. ASSUME PrunesSuperseded PROVE UnderwayAcross'
  BY <1>28 DEF PrunesSuperseded, Proceed, KeptNewest
<1>29. ASSUME Repaired PROVE UnderwayAcross'
  BY <1>29 DEF Repaired, Proceed
<1>30. ASSUME StartFails PROVE UnderwayAcross'
  BY <1>30 DEF StartFails, CutsOff, File
<1>31. ASSUME TriesAgain PROVE UnderwayAcross'
  BY <1>31 DEF TriesAgain, Proceed
<1>32. ASSUME GivesUp PROVE UnderwayAcross'
  BY <1>32 DEF GivesUp, Proceed
<1>33. CASE UNCHANGED restoreVars
  BY <1>33 DEF restoreVars, File, Upload
<1> QED
  BY <1>1, <1>2, <1>3, <1>4, <1>5, <1>6, <1>7, <1>8, <1>9, <1>10, <1>11, <1>12, <1>13, <1>14,
     <1>15, <1>16, <1>17, <1>18, <1>19, <1>20, <1>21, <1>22, <1>23, <1>24, <1>25, <1>26, <1>27,
     <1>28, <1>29, <1>30, <1>31, <1>32, <1>33 DEF RestoreNext, Boot

-----------------------------------------------------------------------------
\* The invariant holds, wherever the process is killed or gives up.
LEMMA RestoreInvHolds == RestoreSpec => []RestoreInv
<1>1. RestoreInit => RestoreInv
  <2> SUFFICES ASSUME RestoreInit PROVE RestoreInv
    OBVIOUS
  <2> USE RestoreAssumption DEF RestoreInit
  <2>1. \A n \in Stages : kept[n] = Empty /\ before[n] = Empty
    OBVIOUS
  <2>2. RestoreTypes
    <3>1. Live \in Instances /\ Instances \subseteq Contents /\ Nothing \in Contents
      BY DEF Instances, Contents
    <3>2. target \in [Files -> Contents] /\ staged = NoFiles
      BY <3>1
    <3>3. /\ kept \in [Stages -> [Places -> Contents]] /\
             before \in [Stages -> [Places -> Contents]]
      BY <3>1 DEF Empty
    <3>4. work \in 0 .. Len(Order) + 1 /\ stages \in 0 .. MaxStages /\ crashes \in 0 .. MaxCrashes
      OBVIOUS
    <3> QED
      BY <3>2, <3>3, <3>4 DEF RestoreTypes, NoFiles, Serving
  <2>3. Stagings /\ Placements
    BY DEF Stagings, Placements, Serving, Filling, Applied, Placing, AtFile, Instances
  <2>4. Acceptance /\ Halfway
    BY DEF Acceptance, Halfway, Accepted
  <2>5. WholeInstance
    BY DEF WholeInstance, Instances
  <2>6. Sound
    BY <2>5 DEF Sound, Begun, Serving, Applied, Placing, AtFile
  <2>7. Unapplied /\ Underway /\ UnderwayAcross /\ AllStaged
    BY <2>1 DEF Unapplied, Underway, UnderwayAcross, AllStaged, Accepted, Begun
  <2>8. Replaced
    BY <2>1, NewestStays DEF Replaced
  <2> QED
    BY <2>2, <2>3, <2>4, <2>6, <2>7, <2>8 DEF RestoreInv
<1>2. RestoreInv /\ [RestoreNext]_restoreVars => RestoreInv'
  BY RestoreTypesHold, PlacementsHold, StagingsHold, AcceptanceHolds, HalfwayHolds, SoundHolds,
     UnappliedHolds, ReplacedHolds, UnderwayHolds, UnderwayAcrossHolds, AllStagedHolds
  DEF RestoreInv
<1> QED
  BY <1>1, <1>2, PTL DEF RestoreSpec

\* A host that serves runs one whole instance, and one that will not start leaves
\* one or what the next start finishes with, for every archive, wherever earlier
\* starts were killed or gave up, unless a marker was applied to what a second
\* stage had begun to replace (restore.go, ApplyPending).
THEOREM OneInstanceHolds == RestoreSpec => []OneInstanceRuns
<1>1. RestoreInv => OneInstanceRuns
  <2> SUFFICES ASSUME RestoreInv, ~mixed PROVE OneInstanceRuns
    BY DEF OneInstanceRuns
  <2> USE DEF RestoreInv
  <2>1. pc \in Serving => WholeInstance
    BY DEF Sound
  <2>2. pc = "refused" => WholeInstance \/ CanFinish
    <3>1. CASE ~Begun
      BY <3>1 DEF Sound
    <3>2. CASE Begun
      <4>1. Accepted /\ marker \in Stages /\ archive[marker] = owed /\ Members[owed] \subseteq Files
        BY <3>2, UnderwayIsAccepted, AcceptedIsOne
      <4>2. \A f \in Members[owed] : owed \in {staged[f], target[f]}
        BY <4>1 DEF Halfway
      <4> QED
        BY <4>1, <4>2 DEF CanFinish
    <3> QED
      BY <3>1, <3>2
  <2> QED
    BY <2>1, <2>2 DEF OneInstanceRuns
<1> QED
  BY <1>1, RestoreInvHolds, PTL

\* The newest instances replaced are still there with their logs, and while
\* one instance takes the place of another some database is whole (service.go,
\* KeepSuperseded; restore.go, moveAside).
THEOREM NothingLost == RestoreSpec => []NothingIsLost
<1>1. RestoreInv => NothingIsLost
  <2> SUFFICES ASSUME RestoreInv PROVE NothingIsLost
    OBVIOUS
  <2> USE DEF RestoreInv
  <2>1. RestoreTypeOK
    BY DEF RestoreTypes, Contents, RestoreTypeOK
  <2>2. ReplacedIsKept
    <3> SUFFICES ASSUME ~mixed, pc \in Serving, NEW n \in NewestSuperseded, NEW p \in Places,
                        p = "log" \/ (p \in Members[archive[n]] /\ <<n, p>> \notin cutOff)
                 PROVE  kept[n][p] = before[n][p]
      BY DEF ReplacedIsKept
    <3>1. n # marker
      BY NewestStays DEF Sound, Begun
    <3> QED
      BY <3>1 DEF Replaced, Saved
  <2>3. ADatabaseSurvives
    <3> SUFFICES ASSUME ~mixed
                 PROVE  \/ target[Db] \in Instances
                        \/ /\ marker \in Stages /\ kept[marker][Db] \in Instances
                           /\ staged[Db] = archive[marker]
      BY DEF ADatabaseSurvives
    <3>1. CASE ~Begun
      BY <3>1 DEF Sound, WholeInstance, RestoreTypes, Serving, Booting, Applied, Placing, AtFile
    <3>2. CASE Begun
      <4>1. Accepted /\ owed \in Uploads /\ archive[marker] = owed /\ Db \in Members[owed] \ Across
        BY <3>2, UnderwayIsAccepted, AcceptedIsOne, RestoreAssumption
      <4>2. Put(marker, Db) /\ before[marker][Db] \in Instances
        BY <3>2, <4>1 DEF Underway
      <4>3. staged[Db] = owed \/ target[Db] = owed
        BY <4>1, RestoreAssumption DEF Halfway
      <4> QED
        BY <3>2, <4>1, <4>2, <4>3 DEF Put, Saved, Begun, Instances
    <3> QED
      BY <3>1, <3>2
  <2> QED
    BY <2>1, <2>2, <2>3 DEF NothingIsLost
<1> QED
  BY <1>1, RestoreInvHolds, PTL

\* The host that serves next is the archive whose acceptance was answered
\* (admin/backup.go, stageFrom: "The next start applies it").
THEOREM AcceptedApplied == RestoreSpec => AcceptedIsApplied
<1>1. RestoreInv /\ [RestoreNext]_restoreVars =>
        [pc = "prune" /\ pc' = "idle" => owed = Nothing \/ target[Db] = owed]_restoreVars
  BY DEF RestoreInv, Acceptance, Applied, Placing, AtFile
<1> QED
  BY <1>1, RestoreInvHolds, PTL DEF RestoreSpec, AcceptedIsApplied
=============================================================================
