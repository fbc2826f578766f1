---------------------------- MODULE BackupBarrier ----------------------------
(***************************************************************************)
(* The admission barrier of control-plane backups                           *)
(* (services/backup_coordination.py, services/backup_runtime.py).  Writers  *)
(* hold leases; a snapshot first pauses new work, then agents, drains both  *)
(* and takes an exclusive flock.  Each process has a barrier of its own;    *)
(* the processes share only the lock file, and so do subprocesses that      *)
(* inherited a lease's descriptor and may outlive it.                       *)
(*                                                                         *)
(* A task is a thread or coroutine with its own context.  A lease record is *)
(* named by its process, its kind and a number, which is used again only    *)
(* when nothing refers to the record any more.                              *)
(***************************************************************************)
EXTENDS Integers, Sequences, FiniteSets

CONSTANTS
    Process,     \* the application and the administrator's command line
    Task,
    Home,        \* the process a task runs in
    RecordId,    \* bound: how many records of one kind a process has at a time
    MaxDepth,    \* bound: how deep a task nests operations
    NoProcess, NoTask, NoRecord

ASSUME BarrierAssumption ==
    /\ Home \in [Task -> Process]
    /\ NoProcess \notin Process /\ NoTask \notin Task
    /\ MaxDepth \in Nat

Kind == {"work", "agent"}
Record == [process : Process, kind : Kind, id : RecordId]

ASSUME NoRecordAssumption == NoRecord \notin Record

VARIABLES
    stack,       \* the leases a task holds: their records, innermost last
    inherited,   \* the context value a task was started with
    locked,      \* the records whose descriptor carries the shared flock
    children,    \* the records whose descriptor a living subprocess inherited
    stage,       \* how far the process's snapshot() has come
    snapper,     \* the task inside snapshot()
    paused,      \* _work_paused and _agent_paused
    exclusive,   \* the process whose descriptor carries the exclusive flock
    closed

vars == <<stack, inherited, locked, children, stage, snapper, paused, exclusive, closed>>

Stage == {"none", "work", "agents", "lock", "granted", "permit"}

Holds(t, r) == \E i \in 1 .. Len(stack[t]) : stack[t][i] = r

\* _record_active: the record has a holder.
Active(r) == r # NoRecord /\ \E t \in Task : Holds(t, r)
ActiveOf(p, kinds) == \E r \in Record : r.process = p /\ r.kind \in kinds /\ Active(r)

\* The context variable: reset() restores what operation() found.
Context(t) == IF stack[t] = <<>> THEN inherited[t] ELSE stack[t][Len(stack[t])]

Snapping(t) == \E p \in Process : stage[p] # "none" /\ snapper[p] = t
MayStep(t) == ~closed[Home[t]] /\ ~Snapping(t)

(***************************************************************************)
(* Leases.                                                                 *)
(***************************************************************************)
\* Fault: a copied context is authority even after its record has expired.
Joins_Fault(t, kind) == Context(t) # NoRecord /\ Context(t).kind = kind

\* operation() joins the record of its context while that is alive.
Joins(t, kind) == Active(Context(t)) /\ Context(t).kind = kind

Join(t, kind) ==
    /\ MayStep(t) /\ Len(stack[t]) < MaxDepth
    /\ Joins(t, kind)
    /\ stack' = [stack EXCEPT ![t] = Append(@, Context(t))]
    /\ UNCHANGED <<inherited, locked, children, stage, snapper, paused, exclusive, closed>>

Unreferenced(r) ==
    /\ ~Active(r) /\ r \notin children /\ r \notin locked
    /\ \A t \in Task : inherited[t] # r

\* _work_paused, _agent_paused
Admitted(p, kind) == kind \notin paused[p]

\* Otherwise it needs admission and a shared flock of its own (LOCK_NB: while
\* some process holds the exclusive one, BackupBusyError).
Open(t, kind) ==
    /\ MayStep(t) /\ Len(stack[t]) < MaxDepth
    /\ ~Joins(t, kind)
    /\ Admitted(Home[t], kind)
    /\ exclusive = NoProcess
    /\ \E r \in Record :
        /\ r.process = Home[t] /\ r.kind = kind /\ Unreferenced(r)
        /\ stack' = [stack EXCEPT ![t] = Append(@, r)]
        /\ locked' = locked \cup {r}
    /\ UNCHANGED <<inherited, children, stage, snapper, paused, exclusive, closed>>

\* Fault: the last holder unlocks explicitly instead of closing.
Unlock_Fault(r) == locked \ {r}
\* Closing the last descriptor releases the flock: the record's own, or the one
\* a surviving child inherited.
Unlock(r) == IF r \in children THEN locked ELSE locked \ {r}

HeldByOthers(t, r) ==
    \/ \E u \in Task \ {t} : Holds(u, r)
    \/ \E i \in 1 .. Len(stack[t]) - 1 : stack[t][i] = r

\* _release: the last holder closes the descriptor.
Leave(t) ==
    /\ MayStep(t) /\ stack[t] # <<>>
    /\ LET r == stack[t][Len(stack[t])]
       IN  locked' = IF HeldByOthers(t, r) THEN locked ELSE Unlock(r)
    /\ stack' = [stack EXCEPT ![t] = SubSeq(@, 1, Len(@) - 1)]
    /\ UNCHANGED <<inherited, children, stage, snapper, paused, exclusive, closed>>

\* _check_pid
SameProcess(t, u) == Home[t] = Home[u]

\* asyncio.to_thread, run_in_threadpool, create_task: a copy of the context.  The
\* new task has no lease before it calls operation(), and its parent may be gone
\* by then.
Spawn(t, u) ==
    /\ MayStep(t) /\ MayStep(u) /\ t # u /\ SameProcess(t, u) /\ stack[u] = <<>>
    /\ inherited[u] # Context(t)
    /\ inherited' = [inherited EXCEPT ![u] = Context(t)]
    /\ UNCHANGED <<stack, locked, children, stage, snapper, paused, exclusive, closed>>

\* A subprocess inherits the descriptors child_fds names.
StartChild(t) ==
    /\ MayStep(t) /\ stack[t] # <<>>
    /\ children' = children \cup {stack[t][Len(stack[t])]}
    /\ UNCHANGED <<stack, inherited, locked, stage, snapper, paused, exclusive, closed>>

ChildExits(r) ==
    /\ r \in children
    /\ children' = children \ {r}
    /\ locked' = IF Active(r) THEN locked ELSE locked \ {r}
    /\ UNCHANGED <<stack, inherited, stage, snapper, paused, exclusive, closed>>

(***************************************************************************)
(* snapshot().                                                             *)
(***************************************************************************)
\* Fault: a task inside an operation may ask for a snapshot.
MaySnapshot_Fault(t) == stage[Home[t]] = "none"
\* One snapshot at a time, and none from within a live lease.
MaySnapshot(t) == stage[Home[t]] = "none" /\ ~Active(Context(t))

BeginSnapshot(t) ==
    LET p == Home[t]
    IN  /\ MayStep(t) /\ MaySnapshot(t)
        /\ stage' = [stage EXCEPT ![p] = "work"]
        /\ snapper' = [snapper EXCEPT ![p] = t]
        /\ paused' = [paused EXCEPT ![p] = {"work"}]
        /\ UNCHANGED <<stack, inherited, locked, children, exclusive, closed>>

\* _wait_for_kind
Drained(p, kind) == ~ActiveOf(p, {kind})

DrainWork(p) ==
    /\ stage[p] = "work" /\ Drained(p, "work")
    /\ stage' = [stage EXCEPT ![p] = "agents"]
    /\ paused' = [paused EXCEPT ![p] = Kind]
    /\ UNCHANGED <<stack, inherited, locked, children, snapper, exclusive, closed>>

DrainAgents(p) ==
    /\ stage[p] = "agents" /\ Drained(p, "agent")
    /\ stage' = [stage EXCEPT ![p] = "lock"]
    /\ UNCHANGED <<stack, inherited, locked, children, snapper, paused, exclusive, closed>>

AcquireExclusive(p) ==
    /\ stage[p] = "lock"
    /\ locked = {} /\ exclusive = NoProcess
    /\ exclusive' = p
    /\ stage' = [stage EXCEPT ![p] = "granted"]
    /\ UNCHANGED <<stack, inherited, locked, children, snapper, paused, closed>>

IssuePermit(p) ==
    /\ stage[p] = "granted"
    /\ stage' = [stage EXCEPT ![p] = "permit"]
    /\ UNCHANGED <<stack, inherited, locked, children, snapper, paused, exclusive, closed>>

Resumed(p) == {}

\* The finally block: the context ends, a deadline passes or a step raises.
EndSnapshot(p) ==
    /\ stage[p] # "none"
    /\ stage' = [stage EXCEPT ![p] = "none"]
    /\ snapper' = [snapper EXCEPT ![p] = NoTask]
    /\ paused' = [paused EXCEPT ![p] = Resumed(p)]
    /\ exclusive' = IF exclusive = p THEN NoProcess ELSE exclusive
    /\ UNCHANGED <<stack, inherited, locked, children, closed>>

MayClose(p) == stage[p] = "none" /\ ~ActiveOf(p, Kind)

Close(p) ==
    /\ ~closed[p] /\ MayClose(p)
    /\ closed' = [closed EXCEPT ![p] = TRUE]
    /\ UNCHANGED <<stack, inherited, locked, children, stage, snapper, paused, exclusive>>

\* The process ends at any point, killed or closed, and starts again with a new
\* barrier.  Its subprocesses survive with what they inherited.
Restart(p) ==
    /\ stack' = [t \in Task |-> IF Home[t] = p THEN <<>> ELSE stack[t]]
    /\ inherited' = [t \in Task |-> IF Home[t] = p THEN NoRecord ELSE inherited[t]]
    /\ locked' = {r \in locked : r.process # p \/ r \in children}
    /\ stage' = [stage EXCEPT ![p] = "none"]
    /\ snapper' = [snapper EXCEPT ![p] = NoTask]
    /\ paused' = [paused EXCEPT ![p] = {}]
    /\ exclusive' = IF exclusive = p THEN NoProcess ELSE exclusive
    /\ closed' = [closed EXCEPT ![p] = FALSE]
    /\ UNCHANGED children

-----------------------------------------------------------------------------
Init ==
    /\ stack = [t \in Task |-> <<>>]
    /\ inherited = [t \in Task |-> NoRecord]
    /\ locked = {} /\ children = {}
    /\ stage = [p \in Process |-> "none"]
    /\ snapper = [p \in Process |-> NoTask]
    /\ paused = [p \in Process |-> {}]
    /\ exclusive = NoProcess
    /\ closed = [p \in Process |-> FALSE]

TaskStep(t) ==
    \/ \E kind \in Kind : Join(t, kind) \/ Open(t, kind)
    \/ Leave(t) \/ StartChild(t) \/ BeginSnapshot(t)
    \/ \E u \in Task : Spawn(t, u)

SnapshotStep(p) == DrainWork(p) \/ DrainAgents(p) \/ AcquireExclusive(p) \/ IssuePermit(p)

Next ==
    \/ \E t \in Task : TaskStep(t)
    \/ \E r \in Record : ChildExits(r)
    \/ \E p \in Process : SnapshotStep(p) \/ EndSnapshot(p) \/ Close(p) \/ Restart(p)

Spec == Init /\ [][Next]_vars

-----------------------------------------------------------------------------
\* The state has the shape the code gives it, and a task's leases are leases of
\* its own process.
TypeOK ==
    /\ stack \in [Task -> Seq(Record)]
    /\ \A t \in Task : \A i \in 1 .. Len(stack[t]) : stack[t][i].process = Home[t]
    /\ inherited \in [Task -> Record \cup {NoRecord}]
    /\ \A t \in Task : inherited[t] # NoRecord => inherited[t].process = Home[t]
    /\ locked \subseteq Record /\ children \subseteq Record
    /\ stage \in [Process -> Stage]
    /\ snapper \in [Process -> Task \cup {NoTask}]
    /\ paused \in [Process -> SUBSET Kind]
    /\ exclusive \in Process \cup {NoProcess}
    /\ closed \in [Process -> BOOLEAN]

\* While a snapshot has its permit nobody writes: no lease is alive in any
\* process, and no subprocess that inherited one survives its parent.
PermitExcludesWriters ==
    (\E p \in Process : stage[p] = "permit") => children = {} /\ \A r \in Record : ~Active(r)

\* What a snapshot has drained stays drained, although live contexts may still
\* join their records and expired copies of contexts are around.
DrainedStaysDrained ==
    \A p \in Process :
        /\ stage[p] \in {"agents", "lock", "granted", "permit"} => ~ActiveOf(p, {"work"})
        /\ stage[p] \in {"lock", "granted", "permit"} => ~ActiveOf(p, {"agent"})

\* A lease holds its flock for as long as anybody relies on it, so that other
\* processes see it: its holders here, and a child after all of them are gone.
LeaseIsLocked == \A r \in Record : Active(r) \/ r \in children => r \in locked

\* However a snapshot ends, it leaves admission open.
PausedOnlyForSnapshot == \A p \in Process : stage[p] = "none" => paused[p] = {}

\* snapshot() never waits for a lease of the context it was called in, nor does an
\* expired one come back to life underneath it.
SnapshotNotSelfBlocked ==
    \A p \in Process : stage[p] # "none" => ~Active(Context(snapper[p]))

\* A snapshot holds up the writers for as long as it lasts, and never itself.
SnapshotBlocksOthersOnly == SnapshotNotSelfBlocked /\ PausedOnlyForSnapshot

=============================================================================
