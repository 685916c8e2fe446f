# mcpd in TLA+

mcpd is a self-hosted gateway between assistants that speak MCP and the systems
a team runs. Reading tools answer at once; a tool that changes something only
*proposes* it. The proposal is stored, a person or a standing rule decides, an
executor re-reads the target and applies the change at most once, and everything
is written to an audit chain. Around that engine the host keeps plugins running
while their settings change, a tunnel connected, backups taken and restored, and
the accounts that decide who may do any of it. This directory models those parts.

## 1. Inventory

| Part | State it keeps | Operations | What is hard |
|---|---|---|---|
| Approval service, `internal/operations/service.go` | none of its own; one policy snapshot per call | Propose, autoApprove, Approve, ApproveInline, Reject, Cancel, AwaitOutcome | the row is read, validated, and written in a later transaction |
| State machine, `state_machine.go` | the transition table | Validate and its guards | the guard is advisory, storage enforces only part of it |
| Operation store, `storage/sqlite/operations.go` | `operations`, `idempotency_records`, `execution_attempts` | Propose, Transition, Claim, Settle, DueForExpiry, Claimable | two idempotency mechanisms that must agree about time; Settle has no expected state |
| Executor, `executor.go` | a semaphore, one in-memory copy of the row per call | Execute, apply, verify, settle, settleFailure | crash between the upstream write and its record; a lease that lapses under a live worker; a stale copy of the row |
| Reaper, `reaper.go` | the list of one sweep | Sweep, reap, expire | the list is stale by the time it is acted on |
| Outbox and publisher, `storage/sqlite/outbox.go`, `internal/messaging` | `outbox_events`, a one-slot wake-up channel | enqueue, Pending, drain, publishOne, MarkPublished, MarkFailed | at-least-once delivery, retry backoff, a handler that fails or panics, order |
| Audit trail, `storage/sqlite/audit.go` | hash-chained `audit_events` | appendAudit, VerifyChain, Prune | the chain must verify after pruning and after a failed transaction |
| Auto-approval, `autoapprove.go`, `bypass.go` | rules, open bypass windows | Evaluate, applyBypass, Covers, Allows | an exclusion must win over every grant; ceilings; expiry of a window |
| Process lifecycle, `internal/app` | the worker group | Run, Shutdown, scanClaimable, pruneHistory | restart with work in flight |
| Settings, `internal/settings` | stored settings, a cache, watchers | Set, Reset, subscribe | a commit order that is not the cache's order |
| Plugin host, `internal/plugins`, `app/reconcile.go` | mounted instances, aggregate servers, limiters, caches | mount, remount, unmount, tool call | remount while others remount, and while an aggregate is being built |
| External plugin processes, `internal/plugins/external` | one pipe, claims by id, a process | handshake, call, readLoop, Stop | an answer after its caller gave up, a pipe nobody reads, a death anywhere |
| Tunnels, `internal/tunnel` | a manager per tunnel id, its client, retries | Apply, Rebuild, Start, Stop, Restart | five goroutines over one manager, a client that reports late |
| Backup, `internal/backup`, `storage/sqlite/backups.go` | run rows, destinations, a staged restore | Trigger, Run, catchUp, Retain, Stage, ApplyPending | one at a time across restarts; a listing that is short; a kill between two renames |
| Accounts, `internal/auth/users`, `roles`, `groups`, `apikeys`; sign-in in `internal/admin` | users, sessions, identities, offers, invitations, roles, groups, keys | create, update, delete, sign in, link, register, rotate, revoke | the last administrator; a request that straddles an edit |
| Remote MCP servers, `internal/mcpservers`, `plugins/mcpremote` | configured servers, sessions, tool lists | add, connect, refresh, remove | reconnection, a list that changes under a call |
| Registry, `internal/registry`, `internal/cachestore` | cached catalogue pages | fetch, refresh, evict | a slow fetch that finishes after a newer one |
| Observability, `internal/observability`, `toolstats`, `toolcalls` | counters, a log ring, per-tool statistics | record, flush, stream | a full buffer, flush against shutdown |
| Certificates, `internal/servertls`, `internal/trust` | key pairs, trusted roots | load, renew, reload | rotation under live connections |
| Updates, notifications, configuration, admin HTTP API, MCP endpoint, dashboard, SDK, integration plugins | mostly request/response | | input/output rather than protocol |

**How they interact.** A tool handler (`plugins/registry.go`) plans a change and
calls the service. The service and the reaper write through the operation store,
whose every transaction also appends to the audit chain and enqueues an outbox
event. The publisher drains the outbox and calls `Executor.Execute` for each
`operation.approved`; at startup `scanClaimable` calls it too. The executor calls
the plugin between its claim and its settlement; a plugin may be a process of its
own, reached over a pipe. A stored setting detaches a reconcile, which remounts the
plugin and rebuilds the tunnel that serves it. Backup rows, accounts, roles and
settings live in the same SQLite database with a single writer; a staged restore is
applied before that database is opened.

**What makes each part correct** is section 4; `PROJECT.json` lists the hazards of
the code, each at its line, with the properties that would catch it going wrong.

## 2. Modules

Every SQLite transaction is one action: the database has a single writer
connection, and `DB.WriteTx` (`storage/sqlite/tx.go`) commits everything or
nothing. Likewise a section under a mutex, a channel operation, or a call to the
filesystem is one action. Whatever a component read *before* it (a row, a list, the
clock, a manager taken from a map) is a variable that lives between the two, so
every other actor, a deadline and a crash can come in between. Hashes, redaction,
wording, logging and metrics are left out; identifiers are model values.

**`Operations.tla`, the approval engine.** Variables: one function per column of
`operations` that the code branches on (`state`, `expiresAt`, `approvedBy`,
`approvalExpiresAt`, `leaseExpiresAt`, `attempts`, `verified`, and `claimedAt` from
`execution_attempts`); `outbox`, the operations whose `approved` event is not
published; `decisions`, service calls between Validate and their transaction; `pc`,
`job` and the locals of the two callers of `Execute`; `reaping` and `resuming`, the
lists the reaper and the startup scan are working through; the clock; and `writes`,
the upstream writes that landed. Actions: `Propose`; `Approve` (people, inline and
policy), `Reject` and `Cancel`, each a validated decision, and `Commit`, its
transaction; `Scan`; `Load`, `Plan`, `Refuse`, `Claim`, `Apply`, `Verify`, `Settle`
and `Return`, the steps of `Execute` between which something else can happen;
`Sweep` and `Reap`; `StoreError`, `ReapError` and `Crash`. `ApplyOutcome` is the
contract of `MutationRunner.Apply`, with every combination of report and effect that
contract allows.

**`WriteGate.tla`, what the engine promises.** Five phases of a change and one
write. `Operations!ImplementsGate` maps the engine to it: an operation that has
ever been claimed is `started`, whatever is recorded about it later.

**`Idempotency.tla`, the store's Propose.** A record per key, with a deadline and
the hash of the body, and a partial unique index over live operations. `Look` reads
the record outside the transaction, `Answer` judges it on a later reading of the
clock, `Stamp` reads the clock the transaction will use, `Insert` or `Conflict` is
the transaction, `Abandon` is a client that gives up, and `Move` is the rest of the
operation's life as far as the index sees it, the return from a terminal state to
`indeterminate` included.

**`Outbox.tla`, the publisher.** Rows are committed, writers call `Notify` later or
die before they do, the channel holds one wake-up. `Start`, `Poll`, `Wake` and
`Final` begin a drain of at most `BatchSize` due rows; `Deliver`, `Refuse`,
`MarkPublished`, `MarkFailed`, `MarkError` and `Finish` run it. A cancelled context
makes reads and marks fail. A retry time is kept as the distance to it, so the clock
needs no bound. `Operations` sees this component as a set of pending events that are
delivered at least once; what that takes is shown here.

**`AuditChain.tla`, the audit trail.** A caller reads the clock (`Begin`), waits for
the writer, and commits a row linked to the newest row present, rolls back, or
prunes. `Breaks` is `VerifyChain`. A row's hash is its seq, which assumes only that
the hash function has no collisions.

**`AutoApproval.tla`, the standing policy.** The rule set, the default ceiling and
the bypass windows change while a proposal reads them one after another
(`ReadRules`, `ReadUnmatched`, `ReadWindows`, each of which may fail and falls back
as the code does), evaluates them (`Evaluate`, `Best`, `MoreSpecific`,
`ApplyBypass`) at a time of their own (`Decide`) and records the authority (`Land`).

**`PluginProcess.tla`, a plugin that runs as its own process.** A call enters
(`Enter`), claims an id under the claim lock, queues for the pipe, writes one frame
into a pipe of `Room` frames, waits off the pipe for its answer or its deadline, and
returns, releasing its claim. The read loop, the reaper and `Stop` are the host's other
goroutines; `describe` and `shutdown` are calls like the rest. The plugin echoes ids
and does not lie about its writes; for the rest it may never answer, answer late, stop
reading, send a frame that cannot be read, close its output or die. `verdict` is what
`mutationBridge.Apply` makes of a call, which is where this module meets `Operations`:
it is the code behind one `ApplyOutcome`.

**`Host.tla`, from a stored setting to a served plugin.** A save is a transaction and
then an update of the cache; the reconcile it detaches reads the cache, decides,
builds, swaps, shuts the old plugin down, throws the aggregate server away and
rebuilds the tunnel, each its own step. Two threads do that at once, with
configurations no plugin can start with.

**`Tunnel.tla`, the manager of one tunnel and the group over it.** A manager's fields
change in sections under `mu` (`StartBegins`, `FailFields`, `ReadyFields`,
`StopFields`), its calls hold `ops` throughout; retries, the watchdog's restart and the
halt after a rejected key run detached. The group's `Apply`, `Rebuild`, `Start` and
`Stop` work on the manager they read from the map earlier. A client connects, reports,
ends and is collected on its own.

**`Retention.tla`** is `Retain`, a pure function of a listing and the policy.
**`Backup.tla`** is the runner around it: triggers by hand and by the timer, the row
that gates them, the hand-over to the worker, catch-up and the sweep at start, and a
run's visits to its destinations, over two lives of the process. **`Restore.tla`** is
staging, cancelling and applying an archive, one action for each call to the
filesystem that a kill can fall behind. Any of them may also be refused: `GivesUp` ends a
`Stage` or a `Cancel`, `StartFails` a start (the error returns of `ApplyPending` and
of `New`), and `TriesAgain` is whoever starts the host again. A file being written or
copied across filesystems is torn until it is over. `KeptNewest` is
`PruneSuperseded`, which, like `SweepWorkDirs`, only logs its errors (`app.go:228-240`).
`Db` is never across filesystems: `StorageDir()` is the directory of the database
(`config.go:406`), and the staging and superseded directories lie in it.

**`Directory.tla`**, **`APIKeys.tla`** and **`SignIn.tla`** are the tables of accounts,
roles, groups and sessions, the keys, and the requests by which somebody comes to hold
a session or a credential; **`Accounts.tla`** composes them. An administrator's edit is one
transaction with its guard; a sign-in, a callback, a registration or a link reads,
decides and writes in transactions of its own. A deadline is a moment that comes
(`graceOver`, `lapsed`), so no clock is needed.

The `*Proofs.tla` modules hold the proofs, the `MC*.tla` modules the small instances.

## 3. Runs

| Run | Bounds | Distinct states | Properties |
|---|---|---|---|
| `operation` | 1 operation, 2 approvers and the policy, 2 decisions in flight, 2 slots and both callers of Execute, clock 1..4, 1 fault, fairness | 512,901 | `WritesAreAuthorised`, `OutcomeIsTruthful`, `NothingIsForgotten`, `DecisionIsFinal`, `ImplementsGate`, `EveryOperationSettles` |
| `outbox` | 3 events, batches of 2, backoff 1..2, 3 faults, fairness | 420,158 | `AttemptedInOrder`, `NothingGoesMissing`, `EveryEventIsPublished` |
| `proposals` | three parts, see below | 2,516,665 | `RepeatsCollapse`, `AnswersAreTheirOwn`, `OrderedChainVerifies`, `GapsAreExplained`, `ApprovalsAreCovered`, `AskedForAReason` |
| `plugin` | a read, an apply, the handshake and the shutdown over a pipe of one frame, four shapes of answer, fairness | 770,730 | `AnswersComeHome`, `NobodyWaitsInVain`, `StopReleasesEveryone` |
| `host` | 3 saves by 2 threads, 4 plugins built, 3 configurations, one of them broken, 1 failed start | 3,863,193 | `WhatIsServedIsAlive`, `SavesTakeEffect`, `NothingIsLeftBehind` |
| `tunnel` | 1 tunnel id, 2 managers, 2 clients, 2 goroutines, one setting changed, 2 faults, one call, fairness | 635,860 | `ReportsAreTrue`, `OneClientPerManager`, `ToldTheTruth`, `EveryCallReturns` |
| `backups` | two parts, see below; fairness in the first | 534,647 | `RunsAreHandled`, `EveryRunEnds`, `HistoryIsTrue`, `RetentionKeepsItsWord`, `OneInstanceRuns`, `NothingIsLost`, `AcceptedIsApplied` |
| `accounts` | two halves, see below | 278,721 | `TypeOK`, `EveryAccountHasAWayIn`, `NoSessionOutlivesTheSwitch`, `HeldRolesExist`, `SomebodyAdministers`, `AnAddressIsNotAnAccount`, `RetiredSecretsStayShut` |
| `ambiguous` | one apply call | violated | `AFailureChangedNothing`, section 6 |
| `unreadable` | the policy part of `proposals` | violated | `UnreadableRulesAskAPerson`, section 6 |
| `overwritten` | the restore part of `backups`, TLS material on another filesystem | violated | `KeptWithEveryFile`, section 6 |
| `mixture` | the restore part of `backups` | violated | `NeverAMixture`, section 6 |

A module's `TypeOK` is a conjunct of an invariant of its run or a theorem of its proof
module (`TypeCorrect`, `ProposeTypeCorrect`, `AuditTypeCorrect`).

Two runs put parts side by side that share no state. A variable (`moves`) says which
part a behaviour moves and the others stand still, so each part is explored in full and
none is multiplied by another. `proposals` is what a proposal leaves in the store: *calls*, 3
of them with 2 bodies, one shared key and the bodies' own, a window of 2 in a clock
of 4; *audit*, 2 writers, the retention worker and an administrator, 5 rows, clock
0..3; *policy*, every canonical set of at most 2 rules over 5 scopes, 5 requests, 4
windows, 2 edits. `backups` is taking a backup, 2 callers, 2 runs, 1 destination with 4
older archives, 2 instants, 2 lives of the process, 1 edit, 1 fault; and restoring one, 3
files of which the plugins are on another filesystem, 2 archives, 2 stages, and 3 ends of
the process, where a kill, a stop and a refused start count alike.

**Why the bounds are enough.** No action of the engine reads two operations, except
that they share execution slots and the reaper's list, so one operation with two
workers, two racing decisions and a stale reaper list is the smallest instance in
which every pair of actors meets over a row. A decision only competes for the row's
state, and the winner is the same whoever else lost. The proofs of section 5 remove the
bound for everything but liveness. A proposal is made only while its last deadline
fits the clock (`DeadlinesFit`), so every deadline can pass. Among the *calls*, three
calls allow two concurrent callers and a later one after the window. In `outbox`, three
events with batches of two leave one behind, and three faults allow a failure inside
the recovery from a failure. In *audit*, five rows hold two prunes, the second of which
removes what the first wrote. In *policy*, two rules are enough because the evaluation
is a fold that keeps one best exclusion and one best grant; the theorems are for any set. In `plugin`, two calls and
one frame make a call wait for the claim lock, for the pipe and inside the write; a late
answer, a second writer and a stop meet over the same pipe, and the theorems are for any
number of calls. In `host`, two threads overlap at every pair of steps and the third
save finds what their overlap left. In `tunnel`, two managers are what a rebuild
makes of one, and every detached goroutine competes with a caller; the second client is
the one a stop must not lose. In taking backups, the second run is the
one the first row blocks, and the second start is the one whose sweep must spare it. In
restoring, the second stage is the one that meets what the first left staged, marked or
put aside, and one instance is kept, so that the second prunes what the first replaced;
three ends put one in each of two applications and one in the retry. In `accounts`, the state is halved: either there
are no groups, roles of their own or keys (two addresses, one provider, two identities,
one request in flight), or nobody signs in (two accounts, a role, a group and a key). The
guard of the last administrator looks at the same state in both; no transaction reads
a sign-in row and a group. The view drops the text of a password hash that no request
in flight has read.

**Deadlock** is not checked, because every module has quiet states by design (all
operations settled, all events published, a bound reached); liveness is stated as
properties instead.

**Fairness.** In `operation` and `outbox`: weak fairness on the clock, on each goroutine
the process always runs (publisher, startup scan, reaper, the writers' `Notify`) and
on the supervisor that starts mcpd again; `Final` has strong fairness, because Go's
`select` chooses at random among ready cases, so a cancelled context is noticed even
if the ticker is ready every time. In `tunnel`: each goroutine's next step, and the end
of a client that was cancelled, since `client.Stop` waits at most ten seconds. In
`backups`, for the backups: the worker, the handler that has begun, the end of a stop and
the next start, and strong fairness on taking a manual run, again for `select`. The
worker's fairness supposes that a call to a destination returns: the runner passes its own
context only, and the destinations bound their calls (`dest_s3.go:101,116,136,150`,
`opTimeout` and `uploadTimeout` of `dest_sftp.go` and `dest_webdav.go`). In `plugin`: the host's steps, its deadlines, the reaper and
`Stop`; nothing is asked of the plugin. Nobody has to decide, to call, or to change a
setting, no fault has to happen, and the number of faults is bounded in every behaviour.

## 4. Properties

In words; each is also stated above its definition.

- *One write.* Whatever is redelivered, resumed, retried, crashed or given up on, an
  operation reaches the upstream system at most once, under a recorded approval that had
  not lapsed at the claim, a person's if its risk was raised (`WritesAreAuthorised`,
  `ImplementsGate`).
- *The record is true.* Refused and failed operations wrote nothing; a succeeded one
  wrote, and was confirmed if it can be. What is not known is `indeterminate`
  (`OutcomeIsTruthful`). Of racing decisions one wins and is not replaced
  (`DecisionIsFinal`).
- *Nothing is forgotten.* An executable approval has an event, an executing operation a
  lease (`NothingIsForgotten`), and every operation settles (`EveryOperationSettles`).
- *One operation per intent and window*, although the check, the judgement and the
  insert use three readings of the clock (`RepeatsCollapse`), and nobody is answered with
  somebody else's change (`AnswersAreTheirOwn`).
- *Events* are first shown in order (`AttemptedInOrder`), never marked unhandled nor lost
  to a full channel (`NothingGoesMissing`), and all published (`EveryEventIsPublished`).
- *The trail* verifies after pruning if rows were committed in the order of their times
  (`OrderedChainVerifies`), and always explains its gaps (`GapsAreExplained`).
- *Policy.* Nothing critical, irreversible or excluded is approved without a person, and
  the recorded authority reaches that far and, if it is a window, had not expired when the
  decision was made (`ApprovalsAreCovered`); a person is only asked for a reason
  (`AskedForAReason`). Excluded means by a rule that was read: rules that cannot be read are
  the exception of section 6.
- *Plugin process.* An answer reaches the call it answers, also after earlier calls gave
  up (`AnswersComeHome`); nobody waits for an answer no one will hand over
  (`NobodyWaitsInVain`); a stop ends every call unless its own request is stuck in the pipe
  (`StopReleasesEveryone`).
- *Host.* What is mounted runs; the cached aggregate server, and the tunnel that serves
  one mounted instance, hold what is mounted or are about to be replaced
  (`WhatIsServedIsAlive`). The quiet host serves nothing older than the saves since it was
  last quiet, and exactly the last one if it ran alone (`SavesTakeEffect`). Nothing stays
  listed or running beyond what overlapping reconciles explain (`NothingIsLeftBehind`).
  The tunnel of an instance that is not mounted, a tunnel that serves every plugin, and the
  choice among overlapping saves are outside these, see section 6.
- *Tunnel.* A manager has one client (`OneClientPerManager`), reports what it runs
  (`ReportsAreTrue`), says so when it stops trying (`ToldTheTruth`), and no call waits for
  something that waits for it (`EveryCallReturns`). Excepted, see section 6: managers whose
  key was rejected, from the first two; from the third, a tunnel that is switched off in its
  settings and was started all the same.
- *Backup.* One run at a time, each handled by somebody (`RunsAreHandled`,
  `EveryRunEnds`); an instant is taken once and an end not rewritten (`HistoryIsTrue`). A
  listing that leaves archives out costs none that the policy keeps, by count, day, week or
  month; one that leaves out the new archive or half of what was seen deletes nothing, and
  is not what the next is measured against (`RetentionKeepsItsWord`).
- *Restore.* Wherever starts were killed or refused, what serves is one whole instance and
  a host that will not start has a whole one or all it needs to finish (`OneInstanceRuns`);
  what it replaced is kept (`NothingIsLost`); the accepted archive is the one applied
  (`AcceptedIsApplied`), unless it was cancelled or another was handed in, which gives the
  accepted one up even if the second is then refused. The first two except a mixture
  (`NeverAMixture`), the second also a file across filesystems (`KeptWithEveryFile`): the
  code breaks both, section 6.
- *Accounts.* Edits that each pass their own guard never leave nobody who can administer
  (`SomebodyAdministers`) or an account without a way in (`EveryAccountHasAWayIn`), a role
  that is held but gone (`HeldRolesExist`), a session of a switched-off account
  (`NoSessionOutlivesTheSwitch`), an account handed to whoever has its address at a
  provider (`AnAddressIsNotAnAccount`), or a secret that opens a key after its grace
  (`RetiredSecretsStayShut`).

## 5. Proofs

TLAPS proves every safety invariant and every action property the runs check, for every
value of the constants allowed by the named assumptions: times and bounds are naturals,
lifetimes are positive, the special names are distinct, what a destination holds before the
first backup is finite, a policy's rules, requests and windows are records of the shapes the
code declares, and the host's default is one of the options its schema lists:

- `OperationsProofs`: `TypeCorrect`, all state invariants, `DecisionsAreFinal` and
  `EngineImplementsGate`. That a write happens once rests on who may be between claim
  and settlement, so the strengthening `IInv` is a conjunction of named parts: `ClaimInv`
  (one claim per operation, in time, and which states imply it), `ApprovalInv` (who
  approved is on record exactly once decided), `HolderInv` (at most one worker is past the
  claim of an operation, and nobody else has recorded an outcome of its own), `WriteInv` (a
  worker's outcome agrees with what was written), `AuthorityInv` (the worker's copy of the
  approval is the recorded one) and `HintInv` (a worker that has returned leaves nothing
  executable). One lemma per action; the refinement splits steps into those that move a row
  and bookkeeping, which stutters.
- `StoreProofs`, three tables of one database.
  *Proposals*: `ProposeTypeCorrect`, `ProposalsCollapse`, `AnswersAreTrue`. `RecordInv`:
  every operation under a key was created at least one window before the expiry of the
  key's record, so an insert that waits for the expiry waits for all of them. `StampInv`:
  the time a call will use is never ahead of the clock. `DoneInv`: an identifier with a row
  belongs to a call that has returned.
  *The outbox*: `TypeCorrect`, `OrderIsKept`, `NothingIsDropped`. `BatchInv`: what precedes
  an event of the batch is in the batch too or has been shown, which needs that the read is
  ordered and that only shown events back off (`TriedInv`); `HeadInv` says what is known
  of the head between the handler and the mark; `WakeInv` and `ShortBatchIsAll`, that a
  drain which found less than a batch has seen everything not owed a wake-up.
  *The trail*: `AuditTypeCorrect`, `PruningKeepsOrderedChains`, `GapsHaveReasons`.
  `LinkInv`: a row whose predecessor is present names it. `SuffixInv`: if times are
  ordered, what is present is a suffix of what was appended.
- `AutoApprovalProofs`: `TypeCorrect`, `ApprovalsCovered`, `PeopleAreAskedForAReason`, for
  rule sets of any length. `Best` is a recursive function over the rules. `PassExists` shows
  that it is defined, and `BestSettles` that it keeps a narrowest rule of its kind, or
  nothing when none applies; both go by induction, as the least number without the property
  (`EveryNumber`). `SameSpecificitySameRule`: two rules that fit one request and are equally
  narrow have one scope, and `Normalised` allows one rule a scope, so the tie-break of
  `moreSpecific` never decides; this is why what a person is asked about does not depend on
  the order of the set. The invariant: what has been read is a policy (`ReadInv`), its rules
  were in force while the proposal read (`SeenInv`), the risk counts declaration and
  override (`RiskInv`), and a decision was made on what had been read at some moment up to
  now (`DecisionInv`).
- `PluginProcessProofs`: `TypeCorrect`, `NoAnswerStrays`, `EveryWaiterIsKnown`. `IDInv`: as many
  ids were given out as calls were numbered, and no two share one; `AnswerInv`: an answer
  carries its call's id wherever it is, and reports a write that was made if it reports
  success; `ClaimInv`: a call whose answer may still come is one the read loop knows or is
  about to wake.
- `AccountsProofs`: `TypeCorrect`, `RolesHeldAreThere`, `NobodyIsLockedOut`,
  `SwitchedOffIsSignedOut`, `SomebodyAlwaysAdministers`, `AnAddressOpensNoAccount` and
  `NoSecretComesBack`, the last three about steps. One named part of `IInv` per table:
  rows refer to accounts that exist and are unique where the schema says so; a session
  is of a claimed account, and one that was there at a switch is of an account still off
  (`SessionsOK`); a request that acts for an account acts for one that was claimed
  (`FlowsOK`), so none opens an invitation that is not its own; a key's previous secret is
  older than its current one (`KeysOK`).
- `HostProofs`: `NothingDeadIsServed`, `ASaveTakesEffect`, `LittleIsLeftBehind`, for any finite
  set of threads. `PluginInv`: a plugin being mounted is one thread's own and was never
  mounted. `AggInv`: a server for every plugin that is behind has somebody about to
  invalidate it. `ListedInv`: saves on their way and places in the order are no more than
  the saves made. `AloneInv` and `SaveInv`: how far a save that runs alone has got decides
  what is in force. `LeakInv`: what was lost, and what is about to be, is paid for by the
  overlaps. The tunnel of a host that serves every plugin is excepted from the second.
- `TunnelProofs`: `NeverTwoClients`, `ItRunsWhatItReports`, `FinalMeansFinal`. `OwnInv`: a
  manager's mutex is held by exactly the call that is between its sections. `BornInv`:
  managers come in order, and nobody refers to one that has not. `CancelInv`: a cancel
  function reaches no other manager's client. `LiveInv`: nothing runs while a call is
  under way, so a dial that succeeds leaves one client. `ToldInv`: a failure not reported
  as final has a timer or a start that waits for the mutex. Steps are sorted by what they
  touch (`Quiet`, `Works`, `Adopts`, `Reports`), and each sort keeps each part.
- `BackupsProofs`, the runner and the restore.
  *Backups*: `RunsHandled`, `HistoryTrue`, `RetentionKeeps`. `RowsInv`: rows are inserted
  under the next id, and which process inserted a row can be told from its time, which is
  what the sweep goes by. `HandsInv`: one row is running, what somebody handles is that row
  and this process's, and it is in one pair of hands at a time (`Tokens`). `SettledInv`: a
  running row nobody handles is an earlier process's before the sweep, or one whose
  settling was refused. `ScheduleInv`: what has been taken is past, what is armed is later,
  and the newest scheduled row says how far the schedule was taken, so catching up after a
  restart takes nothing twice. Retention compares counts of finite sets: an archive that a
  listing leaves out only lowers the count of newer ones, so what is deleted from the
  listing would be deleted from the whole (`CoveredByMore` for the days, weeks and months).
  *Restore*: `OneInstanceHolds`, `NothingLost`, `AcceptedApplied`, for any set of files, any
  order of them, any division over filesystems and any number of stages, kills and refusals.
  `Acceptance`: the answered upload is the one the marker names, or is in place. `Halfway`:
  each of its files is staged or in place, as far as the start has come. `Placements`: where
  a start is, and that the log goes before any file. `Sound`: a whole instance is in place
  unless one is being replaced. `Underway` and `Replaced`: what is replaced is still there,
  on its way aside, or aside; `UnderwayAcross` says it of a file that is copied, unless a
  start ended between the copy and the removal (`cutOff`). `Stagings`, `Unapplied` and `AllStaged`: a new stage touches
  nothing an earlier one needs, unless it is the mixture of section 6.

**Only model-checked.** Liveness and fairness, which are out of the prover's reach:
`EveryOperationSettles`, `EveryEventIsPublished`, `EveryCallReturns`,
`StopReleasesEveryone` and `EveryRunEnds`. Their safety halves are theorems: whoever should act is
there to act (`NothingIsForgotten`, `NothingGoesMissing`, `NobodyWaitsInVain`,
`RunsAreHandled`); that it does is shown on the instances of section 3.

## 6. Findings

**`ambiguous`** (`plugins/external/adapter.go:439`). A plugin's apply call that times out,
loses its process or returns something undecodable after its frame was sent comes back as
an ordinary error, and the executor records `failed`; the write may have landed.
`plugins/mutation.go:194` says such an outcome must be `ErrIndeterminate`. The theorems of
`OperationsProofs` assume that contract, so `OutcomeIsTruthful` holds for in-process
plugins; for external ones this run is the exception.

**`unreadable`** (`app.go:1450`, `:1463`). Rules that cannot be read or decoded become no
rules, and the default, "high" in the schema, then approves what a stored rule excludes; the
comments there (`:1442`) and on `autoApprove` (`service.go:261`) say a person is asked.
`ApprovalsAreCovered` therefore speaks of the rules that were read.

**`overwritten`** (`restore.go:522`). TLS material on another filesystem is copied aside and
then copied into place. If the start ends after the second copy and before the staged
source is removed, the next one finds the file still staged, takes what is in place for the
file to be replaced and moves it aside, over the one that was kept; `docs/backup.md:262`
promises that one. `NothingIsLost` excepts exactly such a file (`cutOff`).

**`mixture`** (`restore.go:136`). A second archive is unpacked into the staging directory while
the marker of an accepted one stands. Ended there, the host's next start applies the first's
marker to what exists of the second; the comment at `:134` says the halves of two archives are
never put together. `OneInstanceRuns` and `NothingIsLost` except a start that did (`mixed`).

Behaviour the models contain, seen while writing them, without a run of its own:

*Engine.* `Settle` guards with the state it just read (`storage/sqlite/operations.go:258`),
so a reaper list read before the executor settled turns `succeeded` or `failed` into
`indeterminate`, although `models.go:46` calls them final. An approval validated in time may
commit after the proposal's deadline (`operations.go:141` checks the state only). Proposing a
refused change again returns the refusal until the record expires (`operations.go:482`,
against `executor.go:186`). An `indeterminate` operation may be settled later by its slow
worker. A refusal at execution takes `approved` to `failed`, which `state_machine.go`
does not list. None of these writes twice or without approval; the proofs include them.
A second live proposal under one key can be refused as a conflict no record explains. A
backlog larger than a batch waits for the poll. `PurgePublished` has no caller.

*Audit and policy.* Pruning goes by times read before queueing for the writer and the
chain by commit order: a late commit is cut out of the middle and verification fails
(`audit.go:327`). Rules and windows are separate reads (`app.go:1394`), so a window opened after
an exclusion was stored may be combined with older rules. A window that expires between the
decision and its transaction still approves (`service.go:301`).

*Plugin process.* `Stop` may hang in the write of its own shutdown request when the pipe
is full and the plugin has stopped reading (`process.go:437`): neither closing stdin nor
the kill is reached. A plugin that stops reading pins the writer until then, whatever
`callTimeout` says.

*Host.* A remount and an unmount at once leave a mounted plugin out of `Manager.order`; two
remounts of an unmounted instance list it twice, and a later unmount leaves a name that
`Start`, `CheckHealth` and `Shutdown` look up in vain; overlapping remounts leave a plugin
running that nothing refers to. Of two overlapping saves the older may stay in force until the
next save or restart: the reconcile that read first may mount last, and the cache may be
written in the other order than the database (`settings/store.go:251`). A tunnel that serves
every plugin is not rebuilt on a remount (`group.go:190`), nor is any tunnel when its instance
is switched off (`reconcile.go:205`, `:220`): both go on serving the plugin that was shut
down. No property denies these; those of section 4 stop short of them.

*Tunnel.* `Group.Start` starts a tunnel whose setting has `Enabled` false
(`group.go:354`: `Enabled()` only asks whether a tunnel id is set, `tunnel.go:776`), and a
retry already under way starts one that `Reconfigure` has just switched off (`tunnel.go:867`). If its dial fails it is reported as being retried
(`tunnel.go:824`), though no attempt is scheduled (`:849`); a tunnel that is switched on keeps
its word (`ToldTheTruth`). A retry decides under `mu` and calls `Start` after, so a `Stop` in between is
undone (`tunnel.go:662`); the watchdog's restart likewise. No property denies that: the
manager then reports the client it runs, and has no other. A late halt after a rejected key
cancels the next client, and a start between rejection and halt leaks one, which is why
the properties except rejected managers. Two rebuilds at once leak a manager
(`group.go:107`).

*Backup and restore.* A `FinishRun` or a sweep that fails leaves a running row that refuses
every backup until the next restart (`runner.go:468`). The baseline counts archives before
the deletes, so a tightened policy may hold back the next run's. Two runs of one second
with `keep_last` 1 may delete the archive just sent. A second stage over an accepted one
gives the first up even if the second is refused. A marker torn by a full disk makes every
start refuse until somebody removes it. Ended between a copy into place and its `Chmod`
(`restore.go:470`), a file copied across filesystems whose source is gone keeps mode 0600: the
next start skips it. `docs/backup.md:263` says nothing removes what was replaced, but
`PruneSuperseded` keeps the newest three (`service.go:326`).

*Accounts.* A sign-in that straddles a password change leaves a session opened with the
old password (`users/store.go:607`, `:696`). `LinkIdentity` only checks that the account
exists. `handleUpdateUser` sets the password and the fields in two transactions. Concurrent
attempts may compare more than `MaxPendingLinkFailures` passwords against one offer.

*Elsewhere.* The rate limiter reserves after it released the lock under which it fetched
the budget (`plugins/ratelimit.go:117`), so eviction can drop one about to be spent. A slow
catalogue fetch that ends after a withdrawal was stored puts the entry back
(`registry/cache.go`).

## 7. Plan

1. The tool call path of the host: rate limiter, read cache and breaker.
2. Remote MCP servers: the shared dial of `mcpremote` and an approved tool that changes;
   the registry's refresh behind a served answer.
3. Session clocks (`TouchSession`, idle and absolute), one-time sign-on state.
4. A refinement of the outbox to an at-least-once, first-in-order queue.

## 8. Not modelled

Pure input and output (integration plugins, transports, notification delivery, the update
check, the dashboard, the command line, the SDK), cryptography and encoding, SQL beyond the
conditions of its statements, and the HTTP and MCP framing. A damaged or edited database
is what the audit chain is there to detect, not an action of the program. The map covers
the state machines of the repository; what it leaves out in line count is the bulk that
keeps none: request handlers and their JSON (`admin/api.go`), the settings schema, clients of
outside services (`plugins/*`), page formats (`registry/multi.go`), and configuration. Those
have conversions to test, not interleavings to check.
Within the modelled components, sections left out are named in the notes of
`PROJECT.json`: session clocks, CSRF and the sign-in rate limit; grants resolution; the
archive format; discovery of plugins and translation of their schemas; the client program
of a tunnel.
