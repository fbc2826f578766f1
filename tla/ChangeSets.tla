----------------------------- MODULE ChangeSets -----------------------------
(***************************************************************************)
(* The durable command queue of the Open Node control plane and the        *)
(* coordinated change sets that run on it                                  *)
(* (backend/app/open_node/services/inventory.py and change_sets.py).       *)
(*                                                                         *)
(* Every operation of the store runs in one serialized transaction         *)
(* (BEGIN IMMEDIATE / an advisory lock), so one action is one committed     *)
(* transaction.  What interleaves is the order in which operators, agents   *)
(* (HTTP leases, WebSocket pushes, late results) and timers reach it.       *)
(***************************************************************************)
EXTENDS Integers, Sequences, FiniteSets

CONSTANTS
    Server,             \* target servers
    Change,             \* change sets (all planned, or Legacy, at the start)
    Chain,              \* ordinary command sequences
    NoChange,           \* "no reservation row"
    StepServer,         \* [Change -> Seq(Server)]: target of each step
    Compensated,        \* steps <<c, i>> that have a rollback command
    RollbackOnFailure,  \* change sets with rollback_on_failure
    ChainServer,        \* [Chain -> Server]
    ChainLength,        \* [Chain -> number of commands]
    UserChain,          \* chains an operator may create
    SyncChain,          \* [Server -> SUBSET Chain]: queued at registration
    RefreshChain,       \* [Server -> SUBSET Chain]: queued after a mutation
    Refreshed,          \* commands whose success queues a refresh
    ReadOnly,           \* commands on the GET allowlist READ_ONLY
    Mutating,           \* commands node removal calls mutating
    Restoring,          \* commands that would restore removed resources
    Exempt,             \* subscription-access commands: waited for, never held
    Gated,              \* commands that need an optional agent capability
    Preflighted,        \* the gated ones that are also checked at creation
    Legacy,             \* change sets stored by a release without coordination
    Underway,           \* sequences that may be in progress at the upgrade
    Registering,        \* bound: servers whose agent registers again
    Removable           \* bound: servers with a managed node to remove

Steps(c) == 1 .. Len(StepServer[c])
Forward(c, i) == <<"forward", c, i>>
Rollback(c, i) == <<"rollback", c, i>>
Ordinary(q, i) == <<"ordinary", q, i>>

Forwards(c) == {Forward(c, i) : i \in Steps(c)}
Rollbacks(c) == {Rollback(c, i) : i \in Steps(c)}
Commands(q) == {Ordinary(q, i) : i \in 1 .. ChainLength[q]}
Owned(c) == Forwards(c) \cup Rollbacks(c)
OwnedCommand == UNION {Owned(c) : c \in Change}
OrdinaryCommand == UNION {Commands(q) : q \in Chain}
Command == OwnedCommand \cup OrdinaryCommand

Targets(c) == {StepServer[c][i] : i \in Steps(c)}
Target(k) == IF k[1] = "ordinary" THEN ChainServer[k[2]] ELSE StepServer[k[2]][k[3]]

ASSUME ConstantsAssumption ==
    /\ StepServer \in [Change -> Seq(Server)]
    /\ \A c \in Change : Len(StepServer[c]) > 0
    /\ NoChange \notin Change
    /\ ChainServer \in [Chain -> Server]
    /\ ChainLength \in [Chain -> Nat \ {0}]
    /\ RollbackOnFailure \subseteq Change
    /\ UserChain \subseteq Chain
    /\ SyncChain \in [Server -> SUBSET Chain]
    /\ RefreshChain \in [Server -> SUBSET Chain]
    /\ Legacy \subseteq Change
    /\ Underway \subseteq Chain
    /\ Registering \subseteq Server
    /\ Removable \subseteq Server

\* What each command may be asked for; the chains the store queues by itself
\* are not also the operator's.
ASSUME DataAssumption ==
    /\ Preflighted \subseteq Gated
    /\ ReadOnly \cap Mutating = {}
    /\ Restoring \cup Exempt \subseteq Mutating
    /\ \A s \in Server : UserChain \cap (SyncChain[s] \cup RefreshChain[s]) = {}

VARIABLES
    cmd,         \* the agent_commands rows
    status,      \* agent_change_sets.status
    version,     \* agent_change_sets.coordination_version
    lock,        \* change_set_server_locks: the reserving change set
    capability,  \* the persisted optional capabilities of a server's agent
    removal,     \* the node removal of a server
    migrated     \* the store has started (migrate_legacy has run)

vars == <<cmd, status, version, lock, capability, removal, migrated>>

CommandStatus ==
    {"absent", "waiting", "pending", "leased", "succeeded", "failed", "skipped"}
Terminal == {"succeeded", "failed", "skipped"}
ChangeStatus ==
    {"planned", "dispatched", "rollback_queued", "succeeded", "failed",
     "rolled_back", "rollback_failed", "rollback_incomplete", "cancelled",
     "accepted", "needs_review"}
ReviewStates == {"failed", "rollback_failed", "rollback_incomplete", "needs_review"}

(***************************************************************************)
(* A command row.  sent is attempts > 0, all that coordination reads of the *)
(* counter.  lease is leased_at: null, within timeout_ms, or past it (once  *)
(* the command is terminal, only whether it is null is read).  result says  *)
(* who wrote the terminal status: the agent, or the panel without an        *)
(* answer.  after is the order leased_at stands for: the succeeded change   *)
(* sets whose completion precedes the last lease.                           *)
(***************************************************************************)
Row == [status : CommandStatus, sent : BOOLEAN, lease : {"none", "live", "expired"},
        result : {"none", "agent", "panel"}, after : SUBSET Change]

Absent == [status |-> "absent", sent |-> FALSE, lease |-> "none",
           result |-> "none", after |-> {}]
NewRow(s) == [Absent EXCEPT !.status = s]
Update(r, st, lease, result) ==
    [status |-> st, sent |-> r.sent, lease |-> lease, result |-> result, after |-> r.after]
Ready(r) == Update(r, "pending", r.lease, r.result)
Skip(r) == Update(r, "skipped", r.lease, "panel")

\* Seeded faults.  An operator with the suffix _Fault is the definition it
\* precedes with one plausible mistake; only mutation runs use it.
\* Fault: a command whose lease was handed back counts as returned.
InFlight_Fault(r) == r.status = "leased"
InFlight(r) == r.status \in {"waiting", "pending", "leased"} /\ r.sent
Attempted(r) == r.sent \/ r.status \in {"succeeded", "failed"}
Unsent(r) == r.status \in {"waiting", "pending"} /\ ~r.sent

(***************************************************************************)
(* Dependency chains.  Forward and ordinary commands run in order of        *)
(* position, compensators against it; a missing compensator is no link.     *)
(***************************************************************************)
IsBelow(x, k) ==
    /\ x[1] = k[1] /\ x[2] = k[2]
    /\ IF k[1] = "rollback" THEN x[3] < k[3] ELSE x[3] > k[3]

IsChild(m, x, k) ==
    /\ IsBelow(x, k)
    /\ \A y \in Command : IsBelow(y, k) /\ IsBelow(x, y) => m[y].status = "absent"

\* Fault: success releases the whole remaining chain at once.
AdvanceDependents_Fault(m, k) ==
    [x \in Command |->
        IF m[x].status # "waiting" \/ ~IsBelow(x, k) THEN m[x]
        ELSE IF m[k].status # "succeeded" THEN Skip(m[x])
        ELSE Ready(m[x])]

\* _advance_command_dependents: the child becomes pending after success;
\* otherwise all waiting descendants are skipped.
AdvanceDependents(m, k) ==
    [x \in Command |->
        IF m[x].status # "waiting" \/ ~IsBelow(x, k) THEN m[x]
        ELSE IF m[k].status # "succeeded" THEN Skip(m[x])
        ELSE IF IsChild(m, x, k) THEN Ready(m[x])
        ELSE m[x]]

(***************************************************************************)
(* Change-set coordination (ChangeSetCoordinator).                         *)
(***************************************************************************)
\* Fault: the rest of a started sequence does not count.
Draining_Fault(k) == InFlight(cmd[k])

\* draining: in flight, or behind an ancestor that was attempted.
Draining(k) == InFlight(cmd[k]) \/ \E a \in Command : IsBelow(k, a) /\ Attempted(cmd[a])

\* Fault: work that is only queued counts as in flight.
ExternalInFlight_Fault(c) ==
    {k \in Command \ Owned(c) : /\ Target(k) \in Targets(c)
                                /\ cmd[k].status \in {"waiting", "pending", "leased"}}

ExternalInFlight(c) ==
    {k \in Command \ Owned(c) : /\ Target(k) \in Targets(c)
                                /\ cmd[k].status \in {"waiting", "pending", "leased"}
                                /\ Draining(k)}

AwaitingReview(s) == {c \in Change : status[c] = "needs_review" /\ s \in Targets(c)}

RemovalPending(s) == removal[s] \in {"pending", "stalled"}

\* Fault: a pending node removal is not looked at.
CanReserve_Fault(c) ==
    \A s \in Targets(c) : AwaitingReview(s) \ {c} = {} /\ lock[s] \in {NoChange, c}

CanReserve(c) ==
    \A s \in Targets(c) : /\ AwaitingReview(s) \ {c} = {}
                          /\ ~RemovalPending(s)
                          /\ lock[s] \in {NoChange, c}

\* Fault: only the first target is reserved.
Reserve_Fault(c) == [lock EXCEPT ![StepServer[c][1]] = c]

Reserve(c) == [s \in Server |-> IF s \in Targets(c) THEN c ELSE lock[s]]
\* Fault: the reservation rows are left behind.
Release_Fault(c) == lock
Release(c) == [s \in Server |-> IF lock[s] = c THEN NoChange ELSE lock[s]]

CanLease(k) ==
    LET s == Target(k)
        mine == k \in OwnedCommand
        c == k[2]
    IN  IF mine /\ version[c] = 0 THEN InFlight(cmd[k])
        ELSE IF AwaitingReview(s) # {} THEN Draining(k)
        ELSE IF lock[s] = NoChange THEN ~mine
        ELSE IF ~mine \/ lock[s] # c THEN Draining(k)
        ELSE /\ status[c] \in {"dispatched", "rollback_queued"}
             /\ InFlight(cmd[k]) \/ ExternalInFlight(c) = {}

RequiredCapabilityError(k) == k \in Gated /\ ~capability[Target(k)]
CapabilityError(ks) == \E k \in ks : k \in Preflighted /\ ~capability[Target(k)]

StopUnsent(m, c) ==
    [x \in Command |-> IF x \in Forwards(c) /\ Unsent(m[x]) THEN Skip(m[x]) ELSE m[x]]

\* Fault: a forward command that failed is taken to have changed nothing.
Compensable_Fault(m, c) ==
    {i \in Steps(c) : m[Forward(c, i)].status = "succeeded" /\ <<c, i>> \in Compensated}

\* The steps whose compensator has to run.
Compensable(m, c) ==
    {i \in Steps(c) : Attempted(m[Forward(c, i)]) /\ <<c, i>> \in Compensated}

RollbackCreations(m, c, retryFailed) ==
    {Rollback(c, i) : i \in {j \in Compensable(m, c) :
        \/ m[Rollback(c, j)].status = "absent"
        \/ retryFailed /\ m[Rollback(c, j)].status \in {"failed", "skipped"}}}

\* Fault: compensators are queued without dependency.
PreviousSucceeded_Fault(m, c, i) == TRUE

\* depends_on = previous: the compensator of the nearest later step.
PreviousSucceeded(m, c, i) ==
    LET later == {j \in Compensable(m, c) : j > i}
    IN  \A j \in later : (\A l \in later : j <= l)
                            => m[Rollback(c, j)].status = "succeeded"

\* The creation loop of advance(): queue the missing compensators in reverse
\* order, or create all of them skipped when one cannot be queued.
Compensate(m, c) ==
    LET new == RollbackCreations(m, c, FALSE)
        error == CapabilityError(new)
    IN  [x \in Command |->
            IF x \in new
            THEN IF error THEN Skip(Absent)
                 ELSE NewRow(IF PreviousSucceeded(m, c, x[3]) THEN "pending" ELSE "waiting")
            ELSE IF error /\ x \in Rollbacks(c) /\ Unsent(m[x]) THEN Skip(m[x])
            ELSE m[x]]

RollbackOutcome(m, c) ==
    LET ran == {Rollback(c, i) : i \in Compensable(m, c)}
        missing == \E i \in Steps(c) : Attempted(m[Forward(c, i)]) /\ <<c, i>> \notin Compensated
    IN  IF \E k \in ran : m[k].status \in {"failed", "skipped"} THEN "rollback_failed"
        ELSE IF \E k \in ran : m[k].status # "succeeded" THEN "rollback_queued"
        ELSE IF missing THEN "rollback_incomplete" ELSE "rolled_back"

\* The first half of advance(): what the forward results say.
ForwardOutcome(m, st, c) ==
    IF st # "dispatched" THEN st
    ELSE IF \E k \in Forwards(c) : m[k].status \in {"failed", "skipped"}
         THEN IF c \in RollbackOnFailure THEN "rollback_queued" ELSE "failed"
    ELSE IF \A k \in Forwards(c) : m[k].status = "succeeded" THEN "succeeded"
    ELSE st

\* advance(): the rows and the status it leaves behind.
Advance(m, st, c) ==
    LET st1 == ForwardOutcome(m, st, c)
        m1 == IF st1 = "rollback_queued" \/ (st = "dispatched" /\ st1 = "failed")
              THEN StopUnsent(m, c) ELSE m
    IN  IF st1 # "rollback_queued" \/ \E k \in Forwards(c) : InFlight(m1[k])
        THEN [cmd |-> m1, status |-> st1]
        ELSE [cmd |-> Compensate(m1, c), status |-> RollbackOutcome(Compensate(m1, c), c)]

\* Store what advance() computed; success and a complete rollback release.
AdvanceTo(m, st, c, locks) ==
    LET next == Advance(m, st, c)
    IN  /\ cmd' = next.cmd
        /\ status' = [status EXCEPT ![c] = next.status]
        /\ lock' = IF next.status \in {"succeeded", "rolled_back"} THEN Release(c) ELSE locks

\* What follows the terminal status of k in m: dependents (already in m), then
\* advance_after_result of the owning change set.
AfterResult(m, k) ==
    IF k \in OwnedCommand /\ version[k[2]] = 1
    THEN AdvanceTo(m, status[k[2]], k[2], lock)
    ELSE cmd' = m /\ UNCHANGED <<status, lock>>

Finish(k, row) == AdvanceDependents([cmd EXCEPT ![k] = row], k)

(***************************************************************************)
(* Creating ordinary commands.                                             *)
(***************************************************************************)
NewChain(m, q) ==
    [x \in Command |-> IF x \in Commands(q)
                       THEN NewRow(IF x[3] = 1 THEN "pending" ELSE "waiting") ELSE m[x]]

Unused(m, q) == \A k \in Commands(q) : m[k].status = "absent"

\* Queue one chain of the pool unless one is still pending or leased.  The pool
\* bounds the rows the store creates; an empty pool leaves the traffic out.
QueueOnce(m, pool) ==
    IF pool = {} \/ \E q \in pool : m[Ordinary(q, 1)].status \in {"pending", "leased"}
    THEN {m}
    ELSE {NewChain(m, q) : q \in {p \in pool : Unused(m, p)}}

CreateSequence(q) ==
    /\ q \in UserChain
    /\ Unused(cmd, q)
    /\ ~CapabilityError(Commands(q))
    /\ cmd' = NewChain(cmd, q)
    /\ UNCHANGED <<status, version, lock, capability, removal, migrated>>

(***************************************************************************)
(* Leases and results.                                                     *)
(***************************************************************************)
LeaseCandidate(k) ==
    cmd[k].status = "pending" \/ (cmd[k].status = "leased" /\ cmd[k].lease # "live")

\* An attempted command becomes "failed"
\* (its outcome is unknown) and an unsent one "skipped"; leased_at is cleared.
TerminalizeUnleaseable(k) ==
    LET row == Update(cmd[k], IF cmd[k].sent THEN "failed" ELSE "skipped", "none", "panel")
    IN  AfterResult(Finish(k, row), k)

\* subscription_access.can_lease / node_management.can_lease on an unsent command.
Retired(k) ==
    ~cmd[k].sent /\ k \in Restoring /\ removal[Target(k)] # "none"
HeldByRemoval(k) ==
    ~cmd[k].sent /\ k \in Mutating \ Exempt /\ removal[Target(k)] = "pending"

LeasedRow(k) ==
    [status |-> "leased", sent |-> TRUE, lease |-> "live", result |-> "none",
     after |-> {c \in Change : status[c] = "succeeded" /\ Target(k) \in Targets(c)}]

ClaimCommandLease(k) ==
    /\ LeaseCandidate(k)
    /\ CanLease(k)
    /\ \/ /\ Retired(k)
          /\ AfterResult(Finish(k, Skip(cmd[k])), k)
       \/ /\ ~Retired(k) /\ ~HeldByRemoval(k)
          /\ RequiredCapabilityError(k)
          /\ TerminalizeUnleaseable(k)
       \/ /\ ~Retired(k) /\ ~HeldByRemoval(k)
          /\ ~RequiredCapabilityError(k)
          /\ cmd' = [cmd EXCEPT ![k] = LeasedRow(k)]
          /\ UNCHANGED <<status, lock>>
    /\ UNCHANGED <<version, capability, removal, migrated>>

ReconcileCapabilityLoss(k) ==
    /\ LeaseCandidate(k)
    /\ RequiredCapabilityError(k)
    /\ TerminalizeUnleaseable(k)
    /\ UNCHANGED <<version, capability, removal, migrated>>

\* A push whose send failed hands its own, still current, attempt back.
ReleaseCommandLease(k) ==
    /\ cmd[k].status = "leased"
    /\ cmd' = [cmd EXCEPT ![k] = Update(cmd[k], "pending", "none", cmd[k].result)]
    /\ UNCHANGED <<status, version, lock, capability, removal, migrated>>

LeaseExpires(k) ==
    /\ cmd[k].status = "leased" /\ cmd[k].lease = "live"
    /\ cmd' = [cmd EXCEPT ![k] = Update(cmd[k], "leased", "expired", cmd[k].result)]
    /\ UNCHANGED <<status, version, lock, capability, removal, migrated>>

\* validate_result: an unleased command takes a result only when it is neither
\* coordinated nor blocked.
ResultAllowed(k) ==
    \/ cmd[k].sent
    \/ k \notin OwnedCommand /\ lock[Target(k)] = NoChange /\ CanLease(k)

ApplyCommandResult(k, ok) ==
    /\ cmd[k].status \in {"pending", "leased"}
    /\ ResultAllowed(k)
    /\ LET row == Update(cmd[k], IF ok THEN "succeeded" ELSE "failed",
                         IF cmd[k].lease = "none" THEN "none" ELSE "expired", "agent")
           done == Finish(k, row)
       IN  \E m \in IF ok /\ k \in Refreshed
                    THEN QueueOnce(done, RefreshChain[Target(k)]) ELSE {done} :
               AfterResult(m, k)
    /\ UNCHANGED <<version, capability, removal, migrated>>

(***************************************************************************)
(* Operator requests on a change set.                                      *)
(***************************************************************************)
Dispatch(c) ==
    /\ status[c] = "planned"
    /\ ~CapabilityError(Forwards(c))
    /\ CanReserve(c)
    /\ cmd' = [x \in Command |-> IF x \in Forwards(c)
                                 THEN NewRow(IF x[3] = 1 THEN "pending" ELSE "waiting")
                                 ELSE cmd[x]]
    /\ lock' = Reserve(c)
    /\ status' = [status EXCEPT ![c] = "dispatched"]
    /\ UNCHANGED <<version, capability, removal, migrated>>

CancelPlan(c) ==
    /\ status[c] = "planned" /\ version[c] = 1
    /\ status' = [status EXCEPT ![c] = "cancelled"]
    /\ UNCHANGED <<cmd, version, lock, capability, removal, migrated>>

\* guard_late_rollback: work leased at or after the completion (leased_at still
\* set), or still in flight, that is not on the read-only allowlist.
LaterWork(c) ==
    {k \in Command \ Owned(c) : /\ cmd[k].sent /\ cmd[k].lease # "none"
                                /\ c \in cmd[k].after}
LateRollbackAllowed(c) == LaterWork(c) \cup ExternalInFlight(c) \subseteq ReadOnly

\* Fault: a retry starts the whole rollback again.
RetryRows_Fault(c) ==
    IF status[c] # "rollback_failed" THEN cmd
    ELSE [x \in Command |-> IF x \in Rollbacks(c) THEN Absent ELSE cmd[x]]

\* Retrying a failed rollback moves failed and skipped compensators to the
\* history, which leaves their steps without a rollback row.
RetryRows(c) ==
    IF status[c] # "rollback_failed" THEN cmd
    ELSE [x \in Command |-> IF x \in Rollbacks(c) /\ cmd[x].status \in {"failed", "skipped"}
                            THEN Absent ELSE cmd[x]]

RequestRollback(c) ==
    /\ version[c] = 1
    /\ status[c] \notin {"planned", "cancelled", "rolled_back", "accepted"}
    /\ ~CapabilityError(RollbackCreations(cmd, c, status[c] = "rollback_failed"))
    /\ CanReserve(c)
    /\ status[c] = "succeeded" => LateRollbackAllowed(c)
    /\ AdvanceTo(RetryRows(c), "rollback_queued", c, Reserve(c))
    /\ UNCHANGED <<version, capability, removal, migrated>>

Accept(c) ==
    /\ status[c] \in ReviewStates
    /\ \A k \in Owned(c) : ~InFlight(cmd[k])
    /\ status' = [status EXCEPT ![c] = "accepted"]
    /\ lock' = Release(c)
    /\ UNCHANGED <<cmd, version, capability, removal, migrated>>

(***************************************************************************)
(* The surroundings: registration, node removal, start-up migration.       *)
(***************************************************************************)
RegisterAgent(s, capable) ==
    /\ s \in Registering
    /\ capability' = [capability EXCEPT ![s] = capable]
    /\ cmd' \in QueueOnce(cmd, SyncChain[s])
    /\ UNCHANGED <<status, version, lock, removal, migrated>>

\* One pass of NodeManagement.advance over the job of server s.  _ready skips
\* the unsent commands that would restore what is removed, but stops at the
\* first attempted mutating command; a pass that does not get to _ready skips
\* none.  None of the skipped commands is a change set's: it would hold the server.
Retirable(s) == {k \in Command : Target(k) = s /\ k \in Restoring /\ Unsent(cmd[k])}
Quiet(s) == \A k \in Command : Target(k) = s /\ k \in Mutating => ~InFlight(cmd[k])
Retire(ks) ==
    [x \in Command |->
        IF x \in ks \/ (cmd[x].status = "waiting" /\ \E k \in ks : IsBelow(x, k))
        THEN Skip(cmd[x]) ELSE cmd[x]]

RemovalPass(s, next) ==
    /\ \E ks \in SUBSET Retirable(s) :
        /\ Quiet(s) => ks \in {{}, Retirable(s)}
        /\ next = "done" => Quiet(s) /\ ks = Retirable(s)
        /\ next = "stalled" => ks = {}
        /\ cmd' = Retire(ks)
    /\ removal' = [removal EXCEPT ![s] = next]
    /\ UNCHANGED <<status, version, lock, capability, migrated>>

BeginNodeRemoval(s) ==
    /\ s \in Removable
    /\ ~RemovalPending(s)
    /\ lock[s] = NoChange
    /\ AwaitingReview(s) = {}
    /\ \E next \in {"pending", "done"} : RemovalPass(s, next)

\* The job goes on until its phases are completed; an unsafe cleanup preview
\* stalls it, and then it holds no command back, until the operator retries.
AdvanceNodeRemoval(s) ==
    /\ RemovalPending(s)
    /\ \/ /\ removal[s] = "pending"
          /\ \E next \in {"pending", "stalled", "done"} : RemovalPass(s, next)
       \/ /\ removal[s] = "stalled"
          /\ removal' = [removal EXCEPT ![s] = "pending"]
          /\ UNCHANGED <<cmd, status, version, lock, capability, migrated>>

\* Fault: the upgrade forgets the compensators of a queued rollback.
MigratedRow_Fault(x) ==
    IF /\ x \in OwnedCommand /\ version[x[2]] = 0
       /\ status[x[2]] = "dispatched"
       /\ Unsent(cmd[x])
    THEN Skip(cmd[x]) ELSE cmd[x]

MigratedRow(x) ==
    IF /\ x \in OwnedCommand /\ version[x[2]] = 0
       /\ status[x[2]] \in {"dispatched", "rollback_queued"}
       /\ Unsent(cmd[x])
    THEN Skip(cmd[x]) ELSE cmd[x]

MigrateLegacy ==
    /\ ~migrated
    /\ migrated' = TRUE
    /\ version' = [c \in Change |-> IF status[c] = "planned" THEN 1 ELSE version[c]]
    /\ status' = [c \in Change |->
            IF version[c] = 0 /\ status[c] \in {"dispatched", "rollback_queued"}
            THEN "needs_review" ELSE status[c]]
    /\ cmd' = [x \in Command |-> MigratedRow(x)]
    /\ UNCHANGED <<lock, capability, removal>>

(***************************************************************************)
(* A release without coordination leaves its change sets planned,           *)
(* dispatched or rollback_queued.  It queued what it was asked for whatever *)
(* had become of the rest, and at first without dependencies, so a started  *)
(* set has its commands in any mixture of states, and after a rollback      *)
(* request compensators for any of the steps that have one.  Ordinary       *)
(* sequences ran at the same time.  What a row of a started legacy set       *)
(* depended on is not kept: once MigrateLegacy has run none of them waits.   *)
(***************************************************************************)
LegacyRow ==
    LET rows(st, sent, lease, result) ==
            [status : st, sent : {sent}, lease : lease, result : {result}, after : {{}}]
    IN  UNION {rows({"waiting", "pending"}, FALSE, {"none"}, "none"),
               rows({"pending"}, TRUE, {"none"}, "none"),
               rows({"leased"}, TRUE, {"live", "expired"}, "none"),
               rows({"succeeded", "failed"}, TRUE, {"none", "expired"}, "agent"),
               rows({"succeeded", "failed"}, FALSE, {"none"}, "agent"),
               rows({"failed"}, TRUE, {"none"}, "panel"),
               rows({"skipped"}, FALSE, {"none"}, "panel")}

\* The command rows an earlier release had created: those of the started change
\* sets, and the sequences of qs.
LegacyCommands(qs) ==
    LET started == {c \in Legacy : status[c] # "planned"}
        undone == {c \in Legacy : status[c] = "rollback_queued"}
        compensators == {k \in UNION {Rollbacks(c) : c \in undone} : <<k[2], k[3]>> \in Compensated}
    IN  {(UNION {Forwards(c) : c \in started}) \cup ks \cup (UNION {Commands(q) : q \in qs}) :
            ks \in SUBSET compensators}

\* A sequence in progress: each command waits for the one before it, and is
\* skipped when that one did not succeed.
InSequence(rows, q) ==
    LET st(i) == rows[Ordinary(q, i)].status
    IN  /\ st(1) # "waiting"
        /\ \A i \in 1 .. ChainLength[q] - 1 :
            /\ st(i) = "succeeded" => st(i + 1) # "waiting"
            /\ st(i) \in {"failed", "skipped"} => st(i + 1) = "skipped"
            /\ st(i) \in {"waiting", "pending", "leased"} => st(i + 1) \in {"waiting", "skipped"}

Init ==
    /\ status \in [Change -> {"planned", "dispatched", "rollback_queued"}]
    /\ \A c \in Change \ Legacy : status[c] = "planned"
    /\ \E qs \in SUBSET Underway : \E ks \in LegacyCommands(qs) : \E rows \in [ks -> LegacyRow] :
        /\ \A q \in qs : InSequence(rows, q)
        /\ cmd = [x \in Command |-> IF x \in ks THEN rows[x] ELSE Absent]
    /\ version = [c \in Change |-> IF c \in Legacy THEN 0 ELSE 1]
    /\ lock = [s \in Server |-> NoChange]
    /\ capability = [s \in Server |-> TRUE]
    /\ removal = [s \in Server |-> "none"]
    /\ migrated = FALSE

CommandStep(k) ==
    \/ ClaimCommandLease(k)
    \/ ReconcileCapabilityLoss(k)
    \/ ReleaseCommandLease(k)
    \/ LeaseExpires(k)
    \/ \E ok \in BOOLEAN : ApplyCommandResult(k, ok)

ChangeStep(c) == Dispatch(c) \/ CancelPlan(c) \/ RequestRollback(c) \/ Accept(c)

ServerStep(s) ==
    \/ \E capable \in BOOLEAN : RegisterAgent(s, capable)
    \/ BeginNodeRemoval(s)
    \/ AdvanceNodeRemoval(s)

Next ==
    \/ MigrateLegacy
    \/ /\ migrated
       /\ \/ \E q \in Chain : CreateSequence(q)
          \/ \E k \in Command : CommandStep(k)
          \/ \E c \in Change : ChangeStep(c)
          \/ \E s \in Server : ServerStep(s)

Spec == Init /\ [][Next]_vars
-----------------------------------------------------------------------------
\* Every row, reservation and status has the shape the schema gives it.
TypeOK ==
    /\ cmd \in [Command -> Row]
    /\ status \in [Change -> ChangeStatus]
    /\ version \in [Change -> {0, 1}]
    /\ lock \in [Server -> Change \cup {NoChange}]
    /\ capability \in [Server -> BOOLEAN]
    /\ removal \in [Server -> {"none", "pending", "stalled", "done"}]
    /\ migrated \in BOOLEAN

Present(k) == cmd[k].status # "absent"

\* The change sets this release coordinates: what an earlier one had started keeps
\* the order it was given, and migrate_legacy() only stops it.
Coordinated == {c \in Change : version[c] = 1}

\* advance(): compensation is created only when no forward command can run any
\* more, whatever leases, retries and late results did before.
CompensationAfterForwards ==
    \A c \in Coordinated : \A i, j \in Steps(c) :
        Present(Rollback(c, i)) => cmd[Forward(c, j)].status \in Terminal

\* reserve()/release(): reservations are all-or-nothing and never leak.  A change
\* set holds every target exactly while it executes or awaits the operator.
Holding == {"dispatched", "rollback_queued", "failed", "rollback_failed", "rollback_incomplete"}
ReservationsMatchStatus ==
    /\ \A c \in Change : version[c] = 1 /\ status[c] \in Holding
            => \A s \in Targets(c) : lock[s] = c
    /\ \A s \in Server : lock[s] # NoChange
            => /\ s \in Targets(lock[s])
               /\ version[lock[s]] = 1 /\ status[lock[s]] \in Holding

\* can_lease(): while a command of a change set is with an agent, nothing else
\* is with an agent on any server the change set targets, and no ordinary
\* sequence that had started there is left half-way.
ExclusiveExecution ==
    \A k \in OwnedCommand : \A c \in {k[2]} :
        InFlight(cmd[k]) /\ version[c] = 1
        => \A x \in Command \ {k} : Target(x) \in Targets(c) =>
            /\ ~InFlight(cmd[x])
            /\ x \in OrdinaryCommand /\ cmd[x].status \in {"waiting", "pending"}
                => \A a \in Command : IsBelow(x, a) => ~Attempted(cmd[a])

\* depends_on_command_id: a step is handed to an agent only after every earlier
\* step of its change set (on whatever server) succeeded.
ForwardInOrder ==
    \A c \in Coordinated : \A i, j \in Steps(c) :
        j < i /\ cmd[Forward(c, i)].sent
        => cmd[Forward(c, j)].status = "succeeded"

\* advance(): compensators run in reverse step order, each only after those of
\* all later attempted steps succeeded, also across rollback retries.
RollbackInReverse ==
    \A c \in Coordinated : \A i, j \in Steps(c) :
        /\ i < j /\ cmd[Rollback(c, i)].sent
        /\ j \in Compensable(cmd, c)
        => cmd[Rollback(c, j)].status = "succeeded"

\* The settled statuses tell the truth: succeeded means every forward command
\* succeeded, rolled_back that every attempted step was compensated, and both
\* rest on agents' answers, never on a status the panel wrote.
SettledHonestly ==
    \A c \in Change :
        /\ status[c] = "succeeded" =>
            \A k \in Forwards(c) : cmd[k].status = "succeeded" /\ cmd[k].result = "agent"
        /\ status[c] = "rolled_back" =>
            \A i \in Steps(c) : Attempted(cmd[Forward(c, i)]) =>
                /\ cmd[Rollback(c, i)].status = "succeeded"
                /\ cmd[Rollback(c, i)].result = "agent"

\* reserve() and NodeManagement._view: a server never has a pending node removal
\* and a change-set reservation at once.
RemovalExcludesChange == \A s \in Server : RemovalPending(s) => lock[s] = NoChange

\* reserve() and migrate_legacy(): as long as a legacy change set awaits review,
\* no coordinated change set holds one of its servers.
ReviewExcludesReservation ==
    \A s \in Server : AwaitingReview(s) # {} => lock[s] = NoChange

\* A change set that has settled (or was accepted) leaves no command behind that
\* could still be handed to an agent, a legacy one in whatever state the upgrade
\* found it.
NoStrandedCommand ==
    \A c \in Change :
        status[c] \in {"succeeded", "rolled_back", "cancelled", "accepted"}
        => \A k \in Owned(c) : cmd[k].status \in Terminal \cup {"absent"}

\* A terminal command never runs or changes again: late, repeated and stale
\* results are ignored, and a rollback retry repeats no successful compensator.
TerminalIsFinal ==
    [][\A k \in Command :
        /\ cmd[k].status \in Terminal => \/ cmd'[k] = cmd[k]
                                         \/ \E c \in Change : k \in Rollbacks(c)
        /\ cmd[k].status = "succeeded" => cmd'[k] = cmd[k]]_vars

\* docs/change-sets.md, "Failure and Rollback": compensation waits for every
\* attempted forward command to return.
EveryForwardReturned ==
    \A c \in Coordinated : \A i, j \in Steps(c) :
        Present(Rollback(c, i)) /\ Attempted(cmd[Forward(c, j)])
        => cmd[Forward(c, j)].result = "agent"

-----------------------------------------------------------------------------
\* Agents poll, execute and answer: each offered command is eventually leased
\* and each lease eventually answered (the agent's journal keeps the result
\* until it is acknowledged).  Operators and failures promise nothing.
Fairness ==
    /\ WF_vars(MigrateLegacy)
    /\ \A k \in Command : /\ WF_vars(migrated /\ ClaimCommandLease(k))
                         /\ WF_vars(migrated /\ cmd[k].sent
                                        /\ \E ok \in BOOLEAN : ApplyCommandResult(k, ok))

FairSpec == Spec /\ Fairness

\* A running change set is never stuck behind other work or behind itself: it
\* reaches a state in which it is settled or asks the operator.
ChangeSetsComeToRest ==
    \A c \in Change : version[c] = 1 /\ status[c] \in {"dispatched", "rollback_queued"}
        ~> status[c] \notin {"dispatched", "rollback_queued"}

\* Ordinary work queued behind a reservation is not starved: it finishes, unless
\* a change set on its server is waiting for the operator.
OrdinaryWorkFinishes ==
    \A k \in OrdinaryCommand :
        cmd[k].status \in {"waiting", "pending", "leased"}
        ~> \/ cmd[k].status \in Terminal
           \/ \E c \in Change : Target(k) \in Targets(c) /\ status[c] \in ReviewStates
=============================================================================
