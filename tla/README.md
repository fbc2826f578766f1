# Open Node: formal models, checks and proofs

Open Node is a control plane (FastAPI, `backend/app/open_node`) that manages
Xray servers through a Linux agent (`agent/app/open_node_agent`). The panel
never reaches into a host: everything it wants done is a durable *command* that
the host's agent fetches, executes and answers. Around that queue live workers
(certificates, notifications, traffic), a helper on the host that replaces the
agent itself, and a limiter compiled into Xray. This directory models the parts in
which something can go wrong between two steps: two actors in an order nobody
tested, a crash in the middle, an answer that is late, repeated or lost.

Paths below are relative to the repository root. `services/` stands for
`backend/app/open_node/services/`, `agent/` for `agent/app/open_node_agent/`.

## 1. Inventory

| Component | State | Operations | What makes it hard | Module |
|---|---|---|---|---|
| Command queue (`services/inventory.py`) | `agent_commands` rows: status, attempts, lease, result, dependency | create a sequence, lease, release, expire, apply a result, terminalise | results that are late, repeated or never come; capabilities lost after dispatch | `ChangeSets` |
| Change sets (`services/change_sets.py`) | status, steps, one reservation per server | dispatch, advance, roll back, retry, accept, migrate | exclusion against ordinary work on the same servers, compensation, restarts | `ChangeSets` |
| Node removal gate (`services/node_management.py`) | a pending removal per server | remove, retry, advance as far as they touch the queue | retires queued commands, must not meet a change set | `ChangeSets` |
| Command delivery (`services/agent_ws.py`, `api/routes/agents.py`; `agent/client.py`, `journal.py`, `lifecycle.py`) | registered socket, leases; agent queue, journal | push, poll, reply, acknowledge, report again | two transports at once, crashes between execution and journal, stale sockets | `AgentDelivery`, `RemoteCall` |
| Backup write barrier (`services/backup_coordination.py`, `backup_runtime.py`) | lease records, pauses, a lock file | operation, snapshot, close | copied contexts, inherited descriptors, failure in each stage | `BackupBarrier` |
| Notifications (`services/notifications.py`, `notification_worker.py`, `telegram_transport.py`) | deliveries, attempts, claims, chat throttle | scan, claim, send, finish, retry, recover | a claim that outlives its worker: sent or not? | `Notifications` |
| Certificates (`services/certificates.py`, `certificate_worker.py`, `certificate_acme.py`, `certificate_remote_acme.py`) | jobs, certificates, versions, revocation ledger, deployments | queue, run, recover, publish, revoke, activate, deploy | a crash between the CA's answer and the saved result; an ACME client that outlives the worker | `CertificateJobs` |
| HTTP-01 challenges (`services/certificate_remote.py`, `agent/http01.py`) | leases on both sides, challenge files, a listener | present, release, expire, drain | presentation and release in either order, restarts between their lines | `Http01Leases` |
| Agent releases (`agent/service.py`) | manifest, release directories, link, unit, host policy | install, upgrade, roll back, change policy, uninstall, recover | power loss between any two file operations | `AgentRelease` |
| Lifecycle helper (`agent/lifecycle_host.py`) | job journal, child process | submit, run, recover, report, leave | the helper is replaced while it works | `HostJobs` |
| Node limits (`runtime/xray/overlay/common/nodelimits`, `agent/limiter.py`) | policy document in memory and on disk, connection counts, rates | apply, acquire, release, evaluate, provision | policies changed under open connections, files changed under the process | `NodeLimits` |
| Token bucket (`nodelimits/bucket.go`) | one limiter per user | set, wait | limits changed under waiting streams | `LimitBucket` |
| Traffic (`services/server_traffic.py`, ledgers in `inventory.py`) | totals, baselines, daily rows, user ledgers | record, reset, reset when due | counters that restart, late reports, short months | `TrafficLedger` |
| Node removal jobs (`node_management.py`, `node_cleanup.py`) | phases of a job per server | withdraw, clean, verify | see section 12 | - |
| Agent runtime (`agent/runtime.py`, `operations.py`, `xray_takeover.py`) | Xray configuration and its backups | apply, validate, restart, restore | see section 12 | - |
| Backup jobs, restore; server removal, sharing, egress; access and accounts; subscriptions; HTTP routes; frontend; installer | | | see section 12 | - |

How they interact: API routes and workers call the store, whose operations each
run in one serialised transaction. Creating or finishing a command triggers
dispatch over the registered WebSocket; an agent without a socket polls over
HTTP. A result goes through the queue (dependents are readied or skipped) into
the change set that owns the command, and the change set may create more commands
in the same transaction. Certificate deployments and HTTP-01 leases are commands
of the same queue; an upgrade or removal of the agent is a command that the agent
defers to the host's helper, whose journal answers it. Telemetry comes over the
same two transports. Every writer of the panel holds a lease of the backup barrier
while it works.

What makes each part correct, in one line: change sets exclude one another and
ordinary work on their servers, run and compensate in order, never claim what was
not done, and come to rest; a command is executed at most once and its recorded
outcome is what happened; a snapshot sees no writer; a message is not sent twice
without consent; a job places one order, and what the revocation ledger says of a
certificate is what happens to it; a challenge is served while it is validated and
gone when its release is recorded; after a crash at any point the manifest tells
the truth about the host and recovery completes; limits in force are those of the
document; nobody is charged for a byte twice.

## 2. Plan

Done: the modules of the table, and proofs of every safety property that a passing
run checks (section 13).

Left, in order of worth:

1. the phases of `NodeManagement.advance` composed with the queue, in place of the
   pending/stalled/done abstraction in `ChangeSets`;
2. backup jobs (limits, expiry, authorisation that ends while a job runs);
3. server removal with its archived steps;
4. apply, validate and roll back of an Xray configuration on the agent.

Statements that would be worth proving next: `ChangeSets` composed with
`AgentDelivery`, so that a rolled back change set is one whose compensators the agents
executed; an abstract specification of the deployment (one release is selected, and
runs or not) that `AgentRelease` implements.

## 3. Conventions

A specification module holds the model and its properties; `MC...` gives its
constants values and is what the `.cfg` files check; `...Proofs` holds the
theorems. An operator with the suffix `_Fault` is the definition that follows it
with one plausible mistake (a dropped guard, a missing reset); no action uses it:
it is swapped in to confirm that a property notices the mistake. `PROJECT.json`
maps every definition to the source lines it stands for.

Some runs ask questions of one component that do not need each other's actors,
or of two components that share no variable. Their MC module adds a variable
(`side`, `part`, `active`) that is chosen initially, never changes, and restricts
the steps to the actors of one question; the state space is then the sum and not
the product of the questions. The restriction is part of the actions that fairness
is assumed of, so that a restricted step is never required.

## 4. ChangeSets

One action is one committed transaction of the store (`BEGIN IMMEDIATE` or an
advisory lock serialises them), so what interleaves is the order in which
operators, agents and timers reach it.

| Model | Code |
|---|---|
| `cmd[k]` | the `agent_commands` row: `status`, `sent` (attempts > 0), `lease` (`leased_at`: null, live, expired), `result` (written by the agent or by the panel), `after` (the order `leased_at` stands for) |
| `status`, `version`, `lock` | `agent_change_sets.status`, `.coordination_version`, `change_set_server_locks` |
| `capability`, `removal`, `migrated` | the agent's optional capability; the node removal of a server; whether start-up migration has run |
| `CreateSequence`, `QueueOnce` | `create_command_sequence`, commands the store queues at registration and after mutations |
| `ClaimCommandLease`, `ReleaseCommandLease`, `LeaseExpires`, `ApplyCommandResult`, `ReconcileCapabilityLoss` | the queue's operations of the same names |
| `Dispatch`, `RequestRollback`, `Accept`, `CancelPlan`, `MigrateLegacy` | `dispatch_model`, `rollback`, `accept`, `migrate_legacy` |
| `Advance`, `Compensate`, `StopUnsent`, `CanReserve`, `CanLease`, ... | the helpers of `ChangeSetCoordinator`, inlined in the transactions that call them |
| `BeginNodeRemoval`, `AdvanceNodeRemoval` | `NodeManagement.remove`, `retry`/`advance` as far as they touch the queue |
| `RegisterAgent` | `register_agent` with another capability set |

Data is abstracted to what coordination reads: payloads become membership in
`ReadOnly`, `Mutating`, `Restoring`, `Exempt`, `Gated`; time becomes lease states
and the order in `after`.

Runs:

- `coordinated_changes`, in three parts. Overlap: c1 with three steps over s1 and s2,
  c2 on s2, and the commands the store queues by itself on s2; the middle step and its
  compensator need a capability that the agent loses and regains, and three steps are
  needed for a middle compensator to be missing or to fail. Upgrade: a change set of
  an older release, already started on both servers, beside a sequence that may be in
  progress on one of them, and a new change set dispatched later. Removal: a change
  set with a plain mutation, a node removal, and a sequence of one exempt and one
  restoring command. Every push can be released, every result late or repeated. Checks
  reservations, the order of forwards and of compensation, that an outcome is claimed
  only when it happened (`SettledHonestly`), that a settled row stays as it is
  (`TerminalIsFinal`), exclusion (`RemovalExcludesChange`, `ExclusiveExecution`) and
  that no command waits for one that will never finish (`NoStrandedCommand`).
- `change_sets_rest`: liveness with one change set and one sequence on a shared
  server.
- `compensation_before_return` is expected to be violated; see section 11.

What an older release left (`Init`) is any change set planned, dispatched or queued for
rollback. That release queued what it was asked for whatever had become of the rest,
at first without dependencies, so the commands of a started set are in any mixture of
states (several pending or leased at once, failed ones beside successful ones), and
after a rollback request any of its compensators may exist. A sequence may be in progress (`Underway`)
on the same servers. `MigrateLegacy` stops what was not sent and asks for review; it
does not put right the order in which the older release had sent the rest. Therefore
`CompensationAfterForwards`, `ForwardInOrder`, `RollbackInReverse` and
`EveryForwardReturned` speak of coordinated change sets, and `NoStrandedCommand`,
`SettledHonestly`, `TerminalIsFinal` and the exclusions of legacy ones too. The run
bounds the upgrade: only c3 was started (`StartedParts`), and those of its commands that had
ended were sent and answered (`EndedByAgents`; without this bound there are twice as many
states, and the run passes as well). The theorems need neither bound.

Fairness: a leaseable command is eventually leased and a leased one eventually
answered. Agents poll or are pushed to for as long as they live, and their journal
repeats a result until it is acknowledged, which is what `AgentDelivery` shows.
Operators, registrations and failures are never assumed to happen. The runs stop
where all work is done, so deadlock is not checked here.

Proved (`ChangeSetsProofs`), for every number of servers, change sets, steps and
sequences, from `ConstantsAssumption`:

- `TypeCorrect`.
- `ReservationsSafe` and `ExclusionSafe`. Exclusion is not inductive: `reserve`
  looks at change sets awaiting review, and migration turns planned ones into such.
  `ReservationInv` adds that nothing is reserved before the migration, that after it
  every plan is coordinated, and that only legacy change sets await review.
- `CompensationSafe`, of coordinated change sets. `CompensationInv` says for each change set which rows
  exist in which status (`Sound`) and that a leased row was sent: `in_flight` is
  decided by `sent`, so without the latter `advance` could see a leased command
  as returned. The lemmas follow `Sound` through `advance()` inside one
  transaction, where rows and status are those of the transaction and not yet of
  the state.

- `ForwardsOrdered` and `RollbackReversed`, of coordinated change sets, and `SettledSafe`,
  `NothingStranded` and `TerminalSafe`, of all, from `OrderInv`. For legacy sets it
  says only what holds of any mixture of rows, which is enough for the latter three. It joins the two invariants above with what the rows
  of a change set owe each other (`Order`: steps are reached in order, compensators
  against it, all attempted steps are compensated or none, nothing waits behind a
  compensator that failed) and what its status says of them (`Rest`). A rollback that
  is asked for again breaks `Order` until `advance()` has run in the same
  transaction, so that the lemmas are stated for rows and not for the state.
- `ExclusiveSafe`, from `ExclusiveInv`, which joins `OrderInv` and adds that a
  sequence exists as a whole or not at all (`Whole`): otherwise a row could appear
  behind an ancestor that was attempted before the reservation began. `reserve` asks
  for drained servers and a lease asks for the reservation, so both ends of the
  property need to know what the status of a change set says about its reservations.

Only model-checked: both liveness properties.

Left out: federated servers, server deletion, payload validation that fails a
command with 422, the `private_routed_nodes` hook, the bookkeeping of
subscription access, stream frames of a command, the phases and own commands of
a removal job, and the history of rollback attempts (a retried compensator reuses
its row here; the code gives it a new id and keeps the old result).

## 5. AgentDelivery and RemoteCall

One server and its agent. The panel leases, pushes over the registered socket or
answers an HTTP poll; the agent's receiver fills a bounded queue, the worker task
and the HTTP session execute under one lock, and an SQLite journal brackets each
execution.

| Model | Code |
|---|---|
| `row`, `registered`, `pushes` | the command row; `AgentConnectionManager._connections`; `dispatch_command` calls suspended in the send |
| `entering`, `accepting`, `handlers` | `agent_websocket` handlers: with the auth message, sending the answer, registered |
| `conn`, `ready`, `queue`, `thread`, `journal`, `acked` | the agent's socket; whether the panel's answer came over it; `Agent.queue`; the consumers inside `Agent.execute`; the journal table |
| `cut` | history: the agent's open socket was registered and no longer is |
| `Connect`, `AnswerAuth`, `Register`, `Accepted` | the agent sends its auth message; the handler passes the backup barrier and awaits the send of its answer; it registers the socket; the agent reads the answer |
| `effects` | how often the operation was carried out on the host (history) |
| `StartPush` then `PushSent`, `PushRaises` or `PushTimesOut` | `dispatch_command` is split at its await: the lease is taken before, the failure handled after |
| `Begin`, `Apply`, `Finish`, `Defer` | `journal.begin`, the operation, `journal.finish`, `DeferredCommand` |
| `SocketBreaks`, `AgentCrash`, `PanelRestart`, lost requests, early expiry | disturbances, bounded by `MaxFaults` |

A socket is reliable until it breaks, then what was under way to the agent is
lost; the panel's handler may take any time to notice, so old and new handlers
overlap. A handler is suspended twice before it registers, in the barrier and in the
send of its answer, and `register()` replaces whatever is there: the handler of a
socket that broke meanwhile can register over a newer, live one, and when it ends leaves the
agent connected and unregistered. A send that times out on a live socket is separate (`MaxTimeouts`)
because it is the subject of a finding.

`RemoteCall` is the promise in two variables: a call may act while it is open, a
call reported successful has acted, and nothing acts after the outcome is
recorded. `KeepsPromise` maps it to rows and effects.

Runs: `delivery_under_faults` has one resumable command, two disturbances and one
send timeout, and checks the safety properties, the refinement and progress: two
disturbances are what a crash with a stale handler, a late registration, or a lost
answer after a reconnect, needs. The command is resumable because only such a command can be
deferred and begun again; the theorems cover both kinds.
`push_after_send_timeout` is expected to be violated. A queue of length one
reaches its limit with the second delivery; the code's 32 only delays that. Where
the command has settled nothing is left to do, so deadlock is not checked.

Fairness: both event loops keep running, so each enabled receive, execute, reply
and report step happens; a lease whose delivery is gone expires; heartbeats every
15 seconds dispatch again and report pending results. Disturbances are never
required, and there are finitely many. `CommandsSettle` allows one other end: the
agent stays for ever on a socket that lost its registration, because a send on it
timed out or because an older handler registered late (section 11).

Proved (`AgentDeliveryProofs`), for any commands, queue limit and number of
disturbances: `DeliveryTyped`, `ExecutedAtMostOnce`, `OutcomesAgree` and
`DeliveryKeepsPromise`. The invariant `DeliveryInv` adds to the properties that
at most one consumer executes and its command is journalled as begun
(`OneExecutes`), that effects follow the journal, and that each reply under way
is explained by the journal (`RepliesExplained`): a reply can be delivered long
after it was written, so the explanation has to be stable, which is the lemma
`ExplainedStable`.

Three more invariants stand beside it. `LeaseInv` (`LeaseHonoured`): an
attempt under way is one the panel has handed out (`AttemptsKnown`) and no push
carries the one that the HTTP session holds (`AttemptsApart`), so that a push that
fails late recognises a lease that is not its own. `AckInv` (`ResultsKept`): an
acknowledgement is on its way only once the row is terminal. `LiveSocketRegistered`
(`LiveSocketStays`) says that nothing else takes the registration of the live socket
away: a handler or a push unregisters only the socket it was started with. Its
invariant `SocketInv` adds the types, in which a socket that is registered or handled
was opened before: a new one has neither a handler nor a push.

Only model-checked: the liveness properties.

Left out: `disconnect()` when a server is removed, loss of the journal, commands
reused with another payload (409), unknown commands (404), capability checks
(in `ChangeSets`), the cryptography of the secure channel.

## 6. BackupBarrier

A task opens nested operations; the context variable carries the record of the
innermost lease, and a task started from it inherits the value even after the
lease has ended. A snapshot pauses work, drains it, pauses agents, drains them,
takes the exclusive file lock and hands out a permit.

| Model | Code |
|---|---|
| `stack[t]`, `inherited[t]` | the leases a task holds; the context value it was started with |
| `locked`, `exclusive`, `children` | shared and exclusive `flock`s; records whose descriptor a subprocess inherited |
| `stage`, `snapper`, `paused`, `closed` | where `snapshot()` is, who called it, `_work_paused`/`_agent_paused`, `_closed` |
| `Join`, `Open`, `Leave` | `operation()` and `_release` |
| `Spawn`, `StartChild`, `ChildExits` | `to_thread`/`create_task`, `child_fds` with `pass_fds`, the certificate worker's subprocess |
| `BeginSnapshot` ... `EndSnapshot`, `Close`, `Restart` | the stages of `snapshot()` and its `finally`, `close()`, a new process |

Run `snapshots`: the application with two tasks and the command line with one
share the lock file, nesting two deep, so that one task can hold a lease while the
context of another is expired. `SnapshotBlocksOthersOnly` says that a snapshot
never waits for its own caller's context and that admission is paused only while
one runs. Deadlock is checked.

Proved (`BackupBarrierProofs`), for any processes, tasks and nesting:
`BarrierTyped`, `PermitIsExclusive`, `DrainIsStable`, `LeasesStayLocked`,
`SnapshotsBlockOthersOnly`.
`BarrierInv` adds that the exclusive lock excludes every shared one, that a
permit is backed by it, and that each stage implies its pauses; `NewLeases` says
that a record becomes active only by `Open`, never by an expired context. `SnapshotInv`
says of the task inside `snapshot()` that it holds no lease and that the context it
inherited, if any, has expired; a record in use by a context is not opened again.

Left out: a barrier without a lock
file, the checks that the lock file is still the same inode, fork without exec. A
snapshot may starve behind operations that keep joining live records; the code
bounds that by its deadline (`EndSnapshot`), so no liveness is claimed.

## 7. Notifications

Every store operation is one transaction; the worker claims a delivery durably,
posts it, then commits a receipt, and may stop between any two of these. Telegram
has no idempotency key, so what was posted may arrive later, or never, whatever
the worker saw.

| Model | Code |
|---|---|
| `settings`, `eligible` | the saved channel settings; the users whose expiry a scan would announce |
| `rows[d]`, `attempts[d]` | `notification_deliveries` and its attempts; an attempt is named by delivery and attempt number |
| `throttle[c]` | the chat's row: the attempt that occupies it and the time of the next one |
| `requests[q]` | retry requests, kept so that a repeated one is answered the same |
| `worker`, `telegram[a]` | where the worker is in its tick; what became of the request of each attempt |
| `Administrator` | saving settings, a test, `retry` with and without confirmation, users becoming eligible or not |
| `Worker` | recover, scan, claim, the phases of the request, finish with each outcome, a crash |

Run `notifications`: an expiry notice or a test with automatic and confirmed
retries while the settings change, or both on one chat. The clock counts chat
intervals; a lease of two of them can expire under a request, two attempts are one
repetition, and four ticks cover two leases. Checked: a second message follows one
that may have arrived only with an administrator's confirmation
(`ResendIsConfirmed`), requests to a chat keep their distance (`ChatSpacing`), a
row tells what its last attempt did (`RowFollowsAttempt`), and every claim is
resolved (`ClaimsResolve`). Fairness: the worker's loop survives every exception
and is restarted, and time passes. Deadlock is checked.

Proved (`NotificationsProofs`), for any deliveries, chats, settings and bounds:
`NotificationsTyped`, `RowsHonest`, `ChatsSpaced`, `ResendsConfirmed`. The
invariant `NotifyInv` has three groups. `Around` types what is outside the tables;
`Store` says of the tables that they are typed, that rows follow attempts, that
attempts of one chat are spaced, that the throttle of a
chat knows its last attempt and the one that may still arrive, and that a recovered
attempt is unknown unless its receipt came late; `Sends` places every request under way at a claim that still
stands and names the consent behind each repetition. The parts are operators of
the tables and not of the variables, because `retry` and `claim` recover expired
claims first and then change the recovered tables in the same transaction: each
part is shown to survive each half.

Only model-checked: `ClaimsResolve`. Left out: the token vault's key file, the
wording of messages, configuration revisions.

## 8. CertificateJobs and Http01Leases

A job runs an ACME client in a process of its own, which survives a crash of the
panel, goes on with the CA and keeps `worker.lock` until it exits. It can fail at each of its
steps, also when the CA has acted and only the answer is lost. The certificate
is its serial number, in the order in which the CA issues them.

| Model | Code |
|---|---|
| `certs`, `versions`, `jobs`, `ledger` | `ManagedCertificate`, `CertificateVersion`, `CertificateJob`, `CertificateRevocation` |
| `targets`, `deploys` | the serial queued last for a target; unfinished deploy commands |
| `worker`, `child` | the worker's place in its loop; the ACME client's job and step |
| `disk`, `ca` | the private state directory (candidate, intent, saved order); what the CA did |
| `Administrator` | issue, renew, import, activate, revoke, account, auto-renewal |
| `WorkerStep`, `ChildStep` | recover, claim, start, wait, read, commit, fail, schedule, deploy; the client's order, save, finalise, revoke and write steps |
| `Cancel`, `Crash` | shutdown while a job runs; the end of the panel's process |
| `leases`, `commands` / `row`, `file`, `listener`, `op` (`Http01Leases`) | the panel's leases and their commands / the node's table, challenge files, listener and the operation under its lock, line by line |

Run `certificates`: a profile validated on a node, whose order is resumed after two
crashes; one issued by lego; the revocation of a certificate that two profiles
hold, with a crash; or the leases of a webroot or of a standalone profile with
commands in any order and one restart or failed step. Two jobs, serials and leases
are one and its successor. Checked: `OneOrderPerJob`; `RevocationHonest` (the
ledger agrees with the CA, a revoked certificate is neither deployed nor left in
automatic renewal); `LeasesHonest` (`ReleasedStaysGone`, `ValidatedIsServed`,
`FilesOwned`); `JobsFinish`; `CleanupConfirmed`. Fairness: the worker starts again
after every crash and goes on with its loop, a client ends if only by its time
limit, the agent's handler runs, time passes, cleanup is queued and drained again
and again. Deadlock is not checked: a run of jobs stops at its bounds.

Proved (`CertificateJobsProofs`), for any profiles, targets and bounds:
`JobsTyped`, `OneOrder`, `RevocationSafe`, `ActiveJobs` (a profile and its
unfinished job know each other) and `ClientsJob` (a client that outlived the panel
works for a job still recorded as running). `JobsInv` joins the type invariant with `Orders` (what each step of a
client implies about intent and order on disk), `Owned` and `Running` (the worker
runs one job, and waits or is down while a client lives), `Clients` (which client a job has when it posts or writes) and
`Revoking` (which status of the ledger each stage of a revocation allows); the two
prohibitions on revoked serials are inductive only together with them.

`CertificateLeases` puts the two side by side: the specification of the leases is its
instance `H`, whose properties it names. `LeasesSafe` is the theorem about `H`, from
`LeaseAssumption` (durations and the number of leases are natural numbers). `LeaseInv` joins the panel's side (`Linked`:
leases and commands know each other; `Wanting`: a job keeps its lease until it ends),
the operation under the node's lock line by line (`Working`, `Sweeping`), and what
relates the two: nothing is on the node before its presentation was taken, and a
presentation comes in time or not at all (`Early`), a confirmed removal is remembered
until none can come (`Gone`), what is wanted is served (`Served`), and every file has
a lease (`FilesOwned`). `Gone` needs `Early`, because the node forgets a released lease
after a while and would otherwise accept a late presentation of it as a new one.

Only model-checked: both liveness properties. Left out: deletion of profiles, targets and providers, self-signed material, DNS
credentials, the contents of an ACME account, checks of paths and ownership.

## 9. AgentRelease and HostJobs

The host's deployment is a series of writes and `systemctl` commands that can fail,
or end with the process or the host, after any of them; `manifest.json` is the
write-ahead record and `recover` reads nothing else. The helper runs the same
operations for requests of the panel in a child process, with a journal of its own,
and is itself stopped, killed and restarted while it works. Its units stay enabled
while a policy change stops them, so a reboot brings it back; a purge removes them, and then whatever
needs the helper refuses. A child that recovers a policy change stops the helper, and
with it itself, so that the owner has to finish what it began.

| Model | Code |
|---|---|
| `record` | `manifest.json`: status, releases, current, previous, pending, staging, policy |
| `disk`, `service`, `helper` | directories, link, unit and policy files; systemd's view of the agent; the lifecycle units |
| `proc` | the process that holds the deployment lock and the line it is at |
| `Operator`, `recover`, `Step` | the commands of the owner, `Deployment.recover`, the next line of the one that runs |
| `Environment` | a failed command, a killed process, a reboot |
| `jobs`, `host`, `owner` (`HostJobs`) | `jobs.sqlite`; the helper's worker thread; whose process holds the lock |
| `submit`, `TakesJob`, `ChildBegins`, `finish`, `acknowledge`, `HostLeaves` | the socket handler, the worker loop, the child, the report and the helper's own departure |

Run `agent_host`: the deployment alone with three faults (one under an operation,
one under its undoing, one under recovery), or an installed host whose helper gets
an upgrade and a removal while the owner gives a command and two faults strike.
Checked: the manifest tells the truth (`ManifestHonest`: selected release, release
directories, whole policies), the agent runs exactly if it was meant to
(`RunsAsWanted`), a request is begun once and reported as done only if it was
(`RequestsHonest`), and recovery completes (`DeploymentRecovers`). Fairness: an
undisturbed process goes on, and the owner repeats `recover` while `status` asks
for it (strong, because the lock may be taken in between). Deadlock is not checked:
an interrupted purge or first installation leaves an account that makes every later
command refuse, and there the system stops (section 11).

Proved (`HostJobsProofs`), for any releases, requests, commands and faults, from
`ReleaseAssumption` and `RequestAssumption`: `DeploymentHonest` (`ManifestHonest` and
`RunsAsWanted` of the deployment alone), `ManifestSafe` and `AgentRuns` (the same with
the helper and the owner taking turns), `RequestsSafe`. `DeployInv` has two halves.
`StateInv` holds wherever a process may be killed: what the fields of the manifest
imply of each other (`RecordInv`), what it says of link and release directories
(`LinkInv`), of the policy (`UnitInv`), of whether the agent is to run (`WantedInv`)
and of the paused helper (`PausedInv`), each outside the transaction that is changing
it. `PlaceInv` adds what the process knows at its place (`AtRecord`, `AtDisk`,
`AtService`). A fault anywhere leaves `StateInv`, and `recover` starts from nothing
more; a step needs only what is known at its own place, so that its proof is local.
`HostInv` adds whose process holds the lock, what the journal and the worker know of
the job, and that an answer of "ok" is true even before it is journalled.

Only model-checked: `DeploymentRecovers`. Left out: `enable-remote`, the contents
of wheels and configurations, a directory sync that fails after its file was
replaced.

## 10. NodeLimits, LimitBucket and TrafficLedger

| Model | Code |
|---|---|
| `disk`, `raw`, `doc` (`NodeLimits`) | `policy.json`, the bytes the process last read or wrote, the document in force |
| `flow`, `counts`, `state`, `closing` | open connections, connections per group, the rate of each user, connections an update cuts off |
| `client` | the agent's read-modify-write in `limiter.py` |
| `serve`, `acquire`, `release`, `RuleTriggers`, `LimitEnds`, `provision` | the handlers of the same purpose; an update is one step because the mutex is held across the file, and it can fail before or after the replacement |
| `tokens`, `last`, `lastEvent` (`LimitBucket`) | the limiter of `golang.org/x/time/rate` (external) |
| `set`, `wait`, `Reserve`, `TimerFires`, `Changed`, `Done` | the bucket's calls, cut where another stream can run |
| `count`, `user`, `boot`, `moved`, `net` (`TrafficLedger`) | the node's counters, the bytes that really moved, reports under way |
| `total`, `baseline`, `dated`, `ledger` | the server's cumulative totals, cycle baselines and daily rows; the users' ledgers |
| `record_telemetry`, `reset`, `reset_due`, `reset_subscription_traffic` | one transaction each |

Run `node_limits`, in three parts: connections of two users under policies that
regroup, remove and limit them; two provisioning commands beside an operator and an
owner who edits the file; two streams of one bucket under three changes of the
limit. `LimitsInForce`: counts and rates are those of the document in force.
`DocumentHonest`: while the file is the one last read, the document in force is what
it says, and no provisioned user is lost to another writer. `WithinRate`: under one limit no more than a burst and the rate passes.
`LastGetsBack`: the stream that reserved last pays for nothing it did not use. Flows
and streams are symmetric; no liveness property is checked with them. The provisioning commands name
different users (`BindingAssumption`). `x/time/rate` gives back more than was taken
when several reservations are cancelled out of order, so the allowance that
`WithinRate` measures starts again with each change of the limit. The run stops at
its bounds, so deadlock is not checked.

Proved (`NodeLimitsProofs`), for any users, groups, policies and bounds:
`LimitsTyped`, `DocumentSafe` from `DocumentInv`, and `LimitsSafe` from `FlowInv`,
which adds where each flow is (`FlowsPlaced`), that states are those of the current
document (`StatesCurrent`) and what each count counts (`Counting`).

Also there, of `LimitBucket` (the instance `B` of `LimitsWithBucket`), for any finite set of streams, any limits and sizes and
from `BucketAssumption` (a limit divides the scale, so that a token takes a whole number
of its parts): `RateKept` and `LastRefunded`. The invariant `BucketInv` says of the
streams that reserved under the present limit that the allowance covers what the
limiter would give at once and all that it has promised (`Booked`), and that for every
time T the allowance of that time covers what is due by then (`InTime`); the
second is what makes a stream whose turn has come pass within the rate, however many
reservations behind it are cancelled. The sums are over sets of streams, for which no
induction theorem can be used here: `Counts` says what a partial sum is, and
`SumsAgree`, `SumExists` and `TotalTakes` follow by taking the least number at which
they would fail.

Run `traffic`, in four parts: Xray's counters, the host's, the users', and the
calendar alone through months of one and of two days, so that a reset day falls
beyond the end of a month. Reports, with a time of their own or without, are lost, repeated, late and recorded in any order; Xray restarts, the
host reboots, a network device vanishes. Two bytes and two reports under way
suffice for a report to be overtaken. `NeverOvercharged`: no byte counts twice;
`CycleIsNew`: a cycle holds only what moved since it began; `NextResetHonest`: the
announced reset is the one that happens. The run stops at its bounds.

The panel orders reports by `reported_at`, and dates one without it when it records
it. The agent never sets it, and nothing orders a request that timed out, or a message of a
replaced socket, before the reports made later. `stamped` chooses between the two
kinds. With stamps the two properties hold unconditionally; without, a report that was
overtaken, or was made before a reset and is recorded after it, is charged again or to the
wrong cycle. The history `astray` notes that this happened, and `NeverOvercharged` and
`CycleIsNew` say that nothing else can be the cause: not a restart, a reboot, a vanished
device, or a report repeated while it is the latest. `reports_out_of_order` shows that it does happen
(section 11).

Proved (`TrafficLedgerProofs`), for any counters, users, calendar and bounds:
`LedgerTyped`, `NobodyOvercharged`, `CycleCharged`, `NextResetShown`. `LedgerInv` bounds what is
recorded and what was announced by what moved at the time of each report (`Times`,
`Growth`, `Between`), so that the difference a report is charged with is the traffic
of an interval not charged before (`ServerCharged`, `UsersCharged`); all of it as long
as `astray` does not name the total or cycle in question. `NextResetShown`
needs of the calendar only `CalendarAssumption` (months are at least a day long and
do not end with the bound), and of the state that the last reset is not later than
now (`ClockInv`). Left out: the backfill of servers from before the
ledger, accounts that change hands between nodes, archived traffic, quotas and their
weights, reports without host totals.

## 11. Disagreements

Three runs show the code departing from what a document says of it:

- `compensation_before_return`: `docs/change-sets.md:33` promises that rollback
  waits for every attempted forward command to return. A command whose agent lost
  the capability it needs is failed by the panel once its lease expires, and
  compensation starts while the agent may still be executing it.
- `push_after_send_timeout`: `docs/architecture.md:291` says that backlog is
  delivered to connected agents. A send that times out on a living socket
  unregisters the connection without closing it; the agent stays connected, does
  not fall back to HTTP, and nothing is dispatched to it until the socket breaks. The
  handler of an older socket that registers late, over the live one, has the same
  effect.
- `reports_out_of_order`: `docs/server-traffic.md:40` says that duplicate and older
  reports do not book a second delta. The agent's reports carry no time of their own,
  so one that is recorded after a later one counts as newer, looks like a counter that
  restarted, and all it shows is charged again. For the same reason one made before a
  reset can be charged to the cycle after it (`docs/server-traffic.md:43`).

Two more were met while modelling and have no run:

- `docs/change-sets.md:51` describes a guard against late rollbacks;
  `guard_late_rollback` reads `leased_at` (`services/change_sets.py:322`), which
  `release_command_lease` clears.
- `docs/agent-deployment.md:116` says that a failed first installation can be
  retried; `initialize()` records the installation before it creates the account
  and directories, and what an interruption in between leaves makes the next
  attempt refuse.

## 12. Not modelled and why

The repository has some 115,000 lines of implementation; most of them are HTTP
routes, request and response formats, record keeping in single transactions, user
interface, and scripts that an operator runs once. The models cover the parts whose
correctness depends on an order of steps.

- Node removal jobs: `ChangeSets` knows a removal as pending, stalled or done, which
  is all that the queue reads; the phases of `NodeManagement.advance` and the
  agent's cleanup are planned.
- Agent runtime configuration: apply, validate and roll back are planned; the
  generation of a configuration is a transformation of data.
- nginx and WARP drivers: file and process I/O, each around one transaction of its
  own.
- Backup jobs and restore: job limits, expiry and authorisation are planned; archive
  formats are I/O. The barrier they rely on is modelled.
- Server removal, sharing and egress: removal archives change-set steps (planned);
  federation between panels is a protocol of its own.
- Subscription access: its effect on the queue (held and skipped commands) is in
  `ChangeSets`, its bookkeeping of desired states is not.
- Authentication, users, plans and renewals: single transactions on rows of one
  user.
- External subscriptions, DDNS, speed tests: outbound I/O and parsing.
- Bootstrap and application updates, the HTTP API, the frontend, the installer:
  generated scripts, thin adapters over the services above, presentation, shell.

## 13. What the checks and the proofs reach

TLC explores one small instance of each module completely; TLAPS proves the theorems
listed in `PROJECT.json` for every value of the constants that satisfies the named
assumptions. The bounds are the constants `Max...`, `Horizon` and `MaxSteps` and the
sets `Registering` and `Removable`; the theorems do not depend on how large they are.
Every invariant and every action property that a passing run checks is a
theorem, and so is the refinement `KeepsPromise`. Liveness under fairness stays with
TLC, since the prover handles neither `ENABLED` nor fairness: `ChangeSetsComeToRest`,
`OrdinaryWorkFinishes`, `CommandsSettle`, `ResultsAcknowledged`, `ClaimsResolve`,
`JobsFinish`, `CleanupConfirmed`, `DeploymentRecovers`. The theorems about
`Http01Leases` and `LimitBucket` are about their instances in `CertificateLeases` and
`LimitsWithBucket`, which assume what they need of the constants (`LeaseAssumption`,
`BucketAssumption`); TLC evaluates both assumptions in the runs. No module declares a recursive operator.
