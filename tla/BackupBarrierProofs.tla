------------------------- MODULE BackupBarrierProofs -------------------------
(***************************************************************************)
(* Proofs about BackupBarrier for any number of processes, tasks, records   *)
(* and nesting: a snapshot permit excludes every writer.                    *)
(***************************************************************************)
EXTENDS BackupBarrier, SequenceTheorems, TLAPS

\* The typed parts of the state, without the process a lease belongs to.
Shapes ==
    /\ stack \in [Task -> Seq(Record)]
    /\ inherited \in [Task -> Record \cup {NoRecord}]
    /\ locked \subseteq Record /\ children \subseteq Record
    /\ stage \in [Process -> Stage]
    /\ snapper \in [Process -> Task \cup {NoTask}]
    /\ paused \in [Process -> SUBSET Kind]
    /\ exclusive \in Process \cup {NoProcess}
    /\ closed \in [Process -> BOOLEAN]

\* A task's leases and its inherited context belong to its process.
AtHome ==
    /\ \A t \in Task : \A i \in 1 .. Len(stack[t]) : stack[t][i].process = Home[t]
    /\ \A t \in Task : inherited[t] # NoRecord => inherited[t].process = Home[t]

\* TypeOK is the conjunction of the two.
LEMMA TypeParts == TypeOK <=> Shapes /\ AtHome
  BY DEF TypeOK, Shapes, AtHome

\* The context of a task is a record of its process, or none.
LEMMA ContextTyped ==
  ASSUME TypeOK, NEW t \in Task
  PROVE  /\ Context(t) \in Record \cup {NoRecord}
         /\ Context(t) # NoRecord => Context(t).process = Home[t]
<1>1. CASE stack[t] = <<>>
  BY <1>1 DEF TypeOK, Context
<1>2. CASE stack[t] # <<>>
  <2>1. Len(stack[t]) \in 1 .. Len(stack[t])
    BY <1>2 DEF TypeOK
  <2> QED BY <1>2, <2>1 DEF TypeOK, Context
<1> QED BY <1>1, <1>2

\* What appending a lease to a stack and dropping the last one do.
LEMMA StackOperations ==
  ASSUME NEW s \in Seq(Record), NEW r \in Record
  PROVE  /\ Append(s, r) \in Seq(Record)
         /\ \A q : (\E i \in 1 .. Len(Append(s, r)) : Append(s, r)[i] = q)
                   <=> q = r \/ \E i \in 1 .. Len(s) : s[i] = q
         /\ s # <<>> =>
              /\ SubSeq(s, 1, Len(s) - 1) \in Seq(Record)
              /\ \A q : (\E i \in 1 .. Len(SubSeq(s, 1, Len(s) - 1)) :
                            SubSeq(s, 1, Len(s) - 1)[i] = q)
                        <=> \E i \in 1 .. Len(s) - 1 : s[i] = q
              /\ Len(s) \in 1 .. Len(s) /\ s[Len(s)] \in Record
<1>1. Append(s, r) \in Seq(Record)
  OBVIOUS
<1>2. ASSUME NEW q
      PROVE  (\E i \in 1 .. Len(Append(s, r)) : Append(s, r)[i] = q)
             <=> q = r \/ \E i \in 1 .. Len(s) : s[i] = q
  <2>1. Len(Append(s, r)) = Len(s) + 1 /\ Len(s) \in Nat
    OBVIOUS
  <2>2. \A i \in 1 .. Len(s) : Append(s, r)[i] = s[i]
    OBVIOUS
  <2>3. Append(s, r)[Len(s) + 1] = r
    OBVIOUS
  <2>4. 1 .. Len(s) + 1 = (1 .. Len(s)) \cup {Len(s) + 1}
    BY <2>1
  <2> QED BY <2>1, <2>2, <2>3, <2>4
<1>3. ASSUME s # <<>>
      PROVE  /\ SubSeq(s, 1, Len(s) - 1) \in Seq(Record)
             /\ \A q : (\E i \in 1 .. Len(SubSeq(s, 1, Len(s) - 1)) :
                            SubSeq(s, 1, Len(s) - 1)[i] = q)
                        <=> \E i \in 1 .. Len(s) - 1 : s[i] = q
             /\ Len(s) \in 1 .. Len(s) /\ s[Len(s)] \in Record
  <2>1. Len(s) \in Nat \ {0}
    BY <1>3
  <2>2. /\ SubSeq(s, 1, Len(s) - 1) \in Seq(Record)
        /\ Len(SubSeq(s, 1, Len(s) - 1)) = Len(s) - 1
        /\ \A i \in 1 .. Len(s) - 1 : SubSeq(s, 1, Len(s) - 1)[i] = s[i]
    <3> DEFINE n == Len(s) - 1
    <3>1. n \in 0 .. Len(s) /\ n + 1 = Len(s) /\ n \in Nat
      BY <2>1
    <3> HIDE DEF n
    <3>2. 1 \in 1 .. Len(s) + 1
      BY <2>1
    <3>3. n - 1 + 1 = n /\ \A i \in 1 .. n : 1 + i - 1 = i
      BY <3>1
    <3>4. /\ SubSeq(s, 1, n) \in Seq(Record)
          /\ Len(SubSeq(s, 1, n)) = IF 1 <= n THEN n - 1 + 1 ELSE 0
          /\ \A i \in 1 .. n - 1 + 1 : SubSeq(s, 1, n)[i] = s[1 + i - 1]
      BY <3>1, <3>2, SubSeqProperties
    <3>5. /\ SubSeq(s, 1, n) \in Seq(Record)
          /\ Len(SubSeq(s, 1, n)) = n
          /\ \A i \in 1 .. n : SubSeq(s, 1, n)[i] = s[i]
      BY <3>1, <3>3, <3>4
    <3> QED BY <3>5 DEF n
  <2>3. Len(s) \in 1 .. Len(s)
    BY <2>1
  <2> QED BY <2>2, <2>3
<1> QED BY <1>1, <1>2, <1>3

\* Every step keeps the state well formed.
LEMMA TypeStep == TypeOK /\ [Next]_vars => TypeOK'
<1> SUFFICES ASSUME TypeOK, [Next]_vars PROVE TypeOK'
  OBVIOUS
<1> USE BarrierAssumption
<1>0. Shapes /\ AtHome
  BY TypeParts
<1>s. \A t \in Task : stack[t] \in Seq(Record)
  BY <1>0 DEF Shapes
<1>a. ASSUME NEW t \in Task, NEW r \in Record, r.process = Home[t],
             stack' = [stack EXCEPT ![t] = Append(@, r)]
      PROVE  /\ stack' \in [Task -> Seq(Record)]
             /\ \A u \in Task : \A i \in 1 .. Len(stack'[u]) : stack'[u][i].process = Home[u]
  <2>1. /\ stack'[t] = Append(stack[t], r)
        /\ \A u \in Task \ {t} : stack'[u] = stack[u]
    BY <1>0, <1>a DEF Shapes
  <2>2. Append(stack[t], r) \in Seq(Record)
    BY <1>s
  <2>3. \A i \in 1 .. Len(Append(stack[t], r)) :
            Append(stack[t], r)[i] = r \/ \E j \in 1 .. Len(stack[t]) : stack[t][j] = Append(stack[t], r)[i]
    BY <1>s, StackOperations
  <2>4. \A i \in 1 .. Len(Append(stack[t], r)) : Append(stack[t], r)[i].process = Home[t]
    BY <1>0, <1>a, <2>3 DEF AtHome
  <2>5. stack' \in [Task -> Seq(Record)]
    BY <1>0, <1>a, <2>2 DEF Shapes
  <2>6. ASSUME NEW u \in Task
        PROVE  \A i \in 1 .. Len(stack'[u]) : stack'[u][i].process = Home[u]
    <3>1. CASE u = t
      BY <2>1, <2>4, <3>1
    <3>2. CASE u # t
      BY <1>0, <2>1, <3>2 DEF AtHome
    <3> QED BY <3>1, <3>2
  <2> QED BY <2>5, <2>6
<1>1. ASSUME NEW t \in Task, NEW kind \in Kind, Join(t, kind) PROVE TypeOK'
  <2>1. Context(t) \in Record /\ Context(t).process = Home[t]
    BY <1>1, ContextTyped DEF Join, Joins, Active
  <2> QED BY <1>0, <1>1, <1>a, <2>1 DEF Join, Shapes, AtHome, TypeOK
<1>2. ASSUME NEW t \in Task, NEW kind \in Kind, Open(t, kind) PROVE TypeOK'
  <2>1. PICK r \in Record : /\ r.process = Home[t]
                            /\ stack' = [stack EXCEPT ![t] = Append(@, r)]
                            /\ locked' = locked \cup {r}
    BY <1>2 DEF Open
  <2> QED BY <1>0, <1>2, <1>a, <2>1 DEF Open, Shapes, AtHome, TypeOK
<1>3. ASSUME NEW t \in Task, Leave(t) PROVE TypeOK'
  <2> DEFINE front == SubSeq(stack[t], 1, Len(stack[t]) - 1)
  <2>1. /\ stack' = [stack EXCEPT ![t] = front]
        /\ stack[t] # <<>>
    BY <1>3 DEF Leave
  <2>n. Record # {}
    BY <1>s, <2>1
  <2>2. /\ front \in Seq(Record)
        /\ \A i \in 1 .. Len(front) : \E j \in 1 .. Len(stack[t]) - 1 : stack[t][j] = front[i]
    BY <1>s, <2>1, <2>n, StackOperations
  <2>3. \A i \in 1 .. Len(front) : front[i].process = Home[t]
    BY <1>0, <1>s, <2>2 DEF AtHome
  <2>4. /\ stack'[t] = front
        /\ \A u \in Task \ {t} : stack'[u] = stack[u]
    BY <1>0, <2>1 DEF Shapes
  <2> HIDE DEF front
  <2>5. /\ stack' \in [Task -> Seq(Record)]
        /\ \A u \in Task : \A i \in 1 .. Len(stack'[u]) : stack'[u][i].process = Home[u]
    BY <1>0, <2>1, <2>2, <2>3, <2>4 DEF Shapes, AtHome
  <2>6. locked' \subseteq Record
    BY <1>0, <1>3 DEF Leave, Unlock, Shapes
  <2> QED BY <1>0, <1>3, <2>5, <2>6 DEF Leave, Shapes, AtHome, TypeOK
<1>4. ASSUME NEW t \in Task, NEW u \in Task, Spawn(t, u) PROVE TypeOK'
  <2>1. /\ Context(t) \in Record \cup {NoRecord}
        /\ Context(t) # NoRecord => Context(t).process = Home[u]
    BY <1>4, ContextTyped DEF Spawn, SameProcess
  <2> QED BY <1>0, <1>4, <2>1 DEF Spawn, Shapes, AtHome, TypeOK
<1>5. ASSUME NEW t \in Task, StartChild(t) PROVE TypeOK'
  <2>1. Len(stack[t]) \in 1 .. Len(stack[t])
    BY <1>5, <1>s DEF StartChild
  <2>2. stack[t][Len(stack[t])] \in Record
    BY <1>s, <2>1
  <2> QED BY <1>0, <1>5, <2>2 DEF StartChild, Shapes, AtHome, TypeOK
<1>6. ASSUME NEW t \in Task, BeginSnapshot(t) PROVE TypeOK'
  <2> DEFINE p == Home[t]
  <2>1. /\ p \in Process
        /\ stage' = [stage EXCEPT ![p] = "work"]
        /\ snapper' = [snapper EXCEPT ![p] = t]
        /\ paused' = [paused EXCEPT ![p] = {"work"}]
        /\ UNCHANGED <<stack, inherited, locked, children, exclusive, closed>>
    BY <1>6 DEF BeginSnapshot
  <2> HIDE DEF p
  <2>2. "work" \in Stage /\ {"work"} \in SUBSET Kind
    BY DEF Stage, Kind
  <2> QED BY <1>0, <2>1, <2>2 DEF Shapes, AtHome, TypeOK
<1>7. ASSUME NEW r \in Record, ChildExits(r) PROVE TypeOK'
  BY <1>0, <1>7 DEF ChildExits, Shapes, AtHome, TypeOK
<1>8. ASSUME NEW p \in Process, SnapshotStep(p) PROVE TypeOK'
  <2>1. CASE DrainWork(p)
    <3>1. "agents" \in Stage /\ Kind \in SUBSET Kind
      BY DEF Stage
    <3> QED BY <1>0, <2>1, <3>1 DEF DrainWork, Shapes, AtHome, TypeOK
  <2>2. CASE DrainAgents(p)
    BY <1>0, <2>2 DEF DrainAgents, Shapes, AtHome, TypeOK, Stage
  <2>3. CASE AcquireExclusive(p)
    BY <1>0, <2>3 DEF AcquireExclusive, Shapes, AtHome, TypeOK, Stage
  <2>4. CASE IssuePermit(p)
    BY <1>0, <2>4 DEF IssuePermit, Shapes, AtHome, TypeOK, Stage
  <2> QED BY <1>8, <2>1, <2>2, <2>3, <2>4 DEF SnapshotStep
<1>9. ASSUME NEW p \in Process, EndSnapshot(p) PROVE TypeOK'
  BY <1>0, <1>9 DEF EndSnapshot, Resumed, Shapes, AtHome, TypeOK, Stage
<1>10. ASSUME NEW p \in Process, Close(p) PROVE TypeOK'
  BY <1>0, <1>10 DEF Close, Shapes, AtHome, TypeOK
<1>11. ASSUME NEW p \in Process, Restart(p) PROVE TypeOK'
  <2>1. <<>> \in Seq(Record) /\ Len(<<>>) = 0
    OBVIOUS
  <2>2. stack' \in [Task -> Seq(Record)] /\ inherited' \in [Task -> Record \cup {NoRecord}]
    BY <1>0, <1>11, <2>1 DEF Restart, Shapes
  <2>3. AtHome'
    BY <1>0, <1>11, <2>1 DEF Restart, Shapes, AtHome
  <2> QED BY <1>0, <1>11, <2>2, <2>3 DEF Restart, Shapes, AtHome, TypeOK, Stage
<1>12. CASE UNCHANGED vars
  BY <1>0, <1>12 DEF vars, Shapes, AtHome, TypeOK
<1> QED
  BY <1>1, <1>2, <1>3, <1>4, <1>5, <1>6, <1>7, <1>8, <1>9, <1>10, <1>11, <1>12 DEF Next, TaskStep

\* The initial state is well formed.
LEMMA TypeInit == Init => TypeOK
  BY DEF Init, TypeOK, Stage

\* Leases, contexts, flocks and stages keep their shape, and a lease never
\* reaches a task of another process.
THEOREM BarrierTyped == Spec => []TypeOK
  BY TypeInit, TypeStep, PTL DEF Spec

(***************************************************************************)
(* The inductive invariant: a lease in use is visible in the lock file, the *)
(* exclusive flock means there is none, and a stage implies its pauses.     *)
(***************************************************************************)
\* flock: the exclusive lock excludes every shared one.
ExclusiveAlone == exclusive # NoProcess => locked = {}

\* A permit is backed by the process's own exclusive lock.
PermitBacked == \A p \in Process : stage[p] \in {"granted", "permit"} => exclusive = p

\* Admission is closed for what a stage has drained or is draining.
StagePauses ==
    \A p \in Process :
        /\ stage[p] # "none" => "work" \in paused[p]
        /\ stage[p] \in {"agents", "lock", "granted", "permit"} => "agent" \in paused[p]

BarrierInv ==
    TypeOK /\ LeaseIsLocked /\ ExclusiveAlone /\ PermitBacked /\ StagePauses /\ DrainedStaysDrained

\* A record that becomes active was just opened, with admission and a flock, and
\* nothing referred to it.
LEMMA NewLeases ==
  ASSUME TypeOK, [Next]_vars, NEW r \in Record, Active(r)'
  PROVE  \/ Active(r)
         \/ \E t \in Task, kind \in Kind :
                /\ Open(t, kind) /\ r.process = Home[t] /\ r.kind = kind
                /\ locked' = locked \cup {r} /\ Unreferenced(r)
<1>0. stack \in [Task -> Seq(Record)] /\ \A t \in Task : stack[t] \in Seq(Record)
  BY DEF TypeOK
<1>1. PICK u \in Task : \E i \in 1 .. Len(stack'[u]) : stack'[u][i] = r
  BY DEF Active, Holds
<1>a. ASSUME \E i \in 1 .. Len(stack[u]) : stack[u][i] = r PROVE Active(r)
  BY <1>a, NoRecordAssumption DEF Active, Holds
<1>b. ASSUME stack'[u] = stack[u] PROVE Active(r)
  BY <1>1, <1>a, <1>b
<1>2. ASSUME NEW t \in Task, NEW kind \in Kind, Join(t, kind) PROVE Active(r)
  <2>1. Context(t) \in Record /\ Active(Context(t))
    BY <1>2, ContextTyped DEF Join, Joins, Active
  <2>2. CASE t = u
    <3>1. stack'[u] = Append(stack[u], Context(u))
      BY <1>0, <1>2, <2>2 DEF Join
    <3>2. r = Context(u) \/ \E i \in 1 .. Len(stack[u]) : stack[u][i] = r
      BY <1>0, <1>1, <2>1, <2>2, <3>1, StackOperations
    <3> QED BY <1>a, <2>1, <2>2, <3>2
  <2>3. CASE t # u
    BY <1>0, <1>2, <1>b, <2>3 DEF Join
  <2> QED BY <2>2, <2>3
<1>3. ASSUME NEW t \in Task, NEW kind \in Kind, Open(t, kind)
      PROVE  \/ Active(r)
             \/ /\ r.process = Home[t] /\ r.kind = kind
                /\ locked' = locked \cup {r} /\ Unreferenced(r)
  <2>1. PICK q \in Record : /\ q.process = Home[t] /\ q.kind = kind /\ Unreferenced(q)
                            /\ stack' = [stack EXCEPT ![t] = Append(@, q)]
                            /\ locked' = locked \cup {q}
    BY <1>3 DEF Open
  <2>2. CASE t = u
    <3>1. stack'[u] = Append(stack[u], q)
      BY <1>0, <2>1, <2>2
    <3>2. r = q \/ \E i \in 1 .. Len(stack[u]) : stack[u][i] = r
      BY <1>0, <1>1, <3>1, StackOperations
    <3> QED BY <1>a, <2>1, <3>2
  <2>3. CASE t # u
    BY <1>0, <1>b, <2>1, <2>3
  <2> QED BY <2>2, <2>3
<1>4. ASSUME NEW t \in Task, Leave(t) PROVE Active(r)
  <2>1. CASE t = u
    <3>1. stack'[u] = SubSeq(stack[u], 1, Len(stack[u]) - 1) /\ stack[u] # <<>>
      BY <1>0, <1>4, <2>1 DEF Leave
    <3>2. \E i \in 1 .. Len(stack[u]) - 1 : stack[u][i] = r
      BY <1>0, <1>1, <3>1, StackOperations
    <3>3. Len(stack[u]) \in Nat
      BY <1>0
    <3>4. \E i \in 1 .. Len(stack[u]) : stack[u][i] = r
      BY <3>2, <3>3
    <3> QED BY <1>a, <3>4
  <2>2. CASE t # u
    BY <1>0, <1>4, <1>b, <2>2 DEF Leave
  <2> QED BY <2>1, <2>2
<1>5. ASSUME UNCHANGED stack PROVE Active(r)
  BY <1>5, <1>b
<1>6. ASSUME NEW p \in Process, Restart(p) PROVE Active(r)
  <2>1. stack'[u] = IF Home[u] = p THEN <<>> ELSE stack[u]
    BY <1>6 DEF Restart
  <2>2. Home[u] # p
    BY <1>1, <2>1
  <2> QED BY <1>b, <2>1, <2>2
<1>7. ASSUME NEW t \in Task, StartChild(t) \/ BeginSnapshot(t) \/ \E v \in Task : Spawn(t, v)
      PROVE  Active(r)
  BY <1>5, <1>7 DEF StartChild, BeginSnapshot, Spawn
<1>8. ASSUME NEW q \in Record, ChildExits(q) PROVE Active(r)
  BY <1>5, <1>8 DEF ChildExits
<1>9. ASSUME NEW p \in Process, SnapshotStep(p) \/ EndSnapshot(p) \/ Close(p) PROVE Active(r)
  BY <1>5, <1>9 DEF SnapshotStep, DrainWork, DrainAgents, AcquireExclusive, IssuePermit,
                    EndSnapshot, Close
<1>10. CASE UNCHANGED vars
  BY <1>5, <1>10 DEF vars
<1> QED
  BY <1>2, <1>3, <1>4, <1>6, <1>7, <1>8, <1>9, <1>10 DEF Next, TaskStep

\* Every step keeps the flock of a lease that is still in use.
LEMMA LockedStep ==
  ASSUME BarrierInv, [Next]_vars
  PROVE  LeaseIsLocked'
<1>0. TypeOK /\ LeaseIsLocked /\ TypeOK'
  BY TypeStep DEF BarrierInv
<1>1. SUFFICES ASSUME NEW r \in Record, Active(r)' \/ r \in children'
               PROVE  r \in locked'
  BY DEF LeaseIsLocked
<1>2. CASE Active(r)' /\ ~Active(r)
  BY <1>0, <1>2, NewLeases
<1>s. \A t \in Task : stack[t] \in Seq(Record)
  BY <1>0 DEF TypeOK
<1>3. CASE ~(Active(r)' /\ ~Active(r))
  <2>1. ASSUME NEW t \in Task, NEW kind \in Kind, Join(t, kind) \/ Open(t, kind) PROVE r \in locked'
    BY <1>0, <1>1, <1>3, <2>1 DEF Join, Open, LeaseIsLocked
  <2>2. ASSUME NEW t \in Task, Leave(t) PROVE r \in locked'
    <3> DEFINE q == stack[t][Len(stack[t])]
    <3>1. /\ locked' = IF HeldByOthers(t, q) THEN locked ELSE Unlock(q)
          /\ children' = children /\ stack[t] # <<>>
      BY <2>2 DEF Leave
    <3>2. r \in locked
      BY <1>0, <1>1, <1>3, <3>1 DEF LeaseIsLocked
    <3>3. CASE r # q \/ HeldByOthers(t, q) \/ r \in children
      BY <3>1, <3>2, <3>3 DEF Unlock
    <3>4. CASE r = q /\ ~HeldByOthers(t, q) /\ r \notin children
      <4>1. PICK u \in Task : \E i \in 1 .. Len(stack'[u]) : stack'[u][i] = r
        BY <1>1, <3>1, <3>4 DEF Active, Holds
      <4>2. CASE u = t
        <5>1. stack'[t] = SubSeq(stack[t], 1, Len(stack[t]) - 1)
          BY <1>0, <2>2 DEF Leave, TypeOK
        <5>2. \E i \in 1 .. Len(stack[t]) - 1 : stack[t][i] = r
          BY <1>s, <3>1, <4>1, <4>2, <5>1, StackOperations
        <5> QED BY <3>4, <5>2 DEF HeldByOthers
      <4>3. CASE u # t
        <5>1. stack'[u] = stack[u]
          BY <1>0, <2>2, <4>3 DEF Leave, TypeOK
        <5> QED BY <3>4, <4>1, <4>3, <5>1 DEF HeldByOthers, Holds
      <4> QED BY <4>2, <4>3
    <3> QED BY <3>3, <3>4
  <2>3. ASSUME NEW t \in Task, StartChild(t) PROVE r \in locked'
    <3> DEFINE q == stack[t][Len(stack[t])]
    <3>1. Len(stack[t]) \in 1 .. Len(stack[t]) /\ q \in Record
      BY <1>s, <2>3 DEF StartChild
    <3>2. Active(q)
      BY <3>1, NoRecordAssumption DEF Active, Holds
    <3>3. q \in locked
      BY <1>0, <3>1, <3>2 DEF LeaseIsLocked
    <3> QED BY <1>0, <1>1, <1>3, <2>3, <3>3 DEF StartChild, LeaseIsLocked
  <2>4. ASSUME NEW q \in Record, ChildExits(q) PROVE r \in locked'
    <3>1. Active(r)' <=> Active(r)
      BY <2>4 DEF ChildExits, Active, Holds
    <3> QED BY <1>0, <1>1, <2>4, <3>1 DEF ChildExits, LeaseIsLocked
  <2>5. ASSUME UNCHANGED <<locked, children>> PROVE r \in locked'
    BY <1>0, <1>1, <1>3, <2>5 DEF LeaseIsLocked
  <2>6. ASSUME NEW t \in Task, BeginSnapshot(t) \/ \E u \in Task : Spawn(t, u) PROVE r \in locked'
    BY <2>5, <2>6 DEF BeginSnapshot, Spawn
  <2>7. ASSUME NEW p \in Process, SnapshotStep(p) \/ EndSnapshot(p) \/ Close(p) PROVE r \in locked'
    BY <2>5, <2>7 DEF SnapshotStep, DrainWork, DrainAgents, AcquireExclusive, IssuePermit,
                      EndSnapshot, Close
  <2>8. ASSUME NEW p \in Process, Restart(p) PROVE r \in locked'
    <3>1. children' = children /\ locked' = {q \in locked : q.process # p \/ q \in children}
      BY <2>8 DEF Restart
    <3>2. r \in locked
      BY <1>0, <1>1, <1>3, <3>1 DEF LeaseIsLocked
    <3>3. CASE r \in children
      BY <3>1, <3>2, <3>3
    <3>4. CASE r \notin children
      <4>1. PICK u \in Task : \E i \in 1 .. Len(stack'[u]) : stack'[u][i] = r
        BY <1>1, <3>1, <3>4 DEF Active, Holds
      <4>2. stack'[u] = IF Home[u] = p THEN <<>> ELSE stack[u]
        BY <2>8 DEF Restart
      <4>3. Home[u] # p
        BY <4>1, <4>2
      <4>4. r.process = Home[u]
        BY <1>0, <4>1 DEF TypeOK
      <4> QED BY <3>1, <3>2, <4>3, <4>4
    <3> QED BY <3>3, <3>4
  <2>9. CASE UNCHANGED vars
    BY <2>5, <2>9 DEF vars
  <2> QED BY <2>1, <2>2, <2>3, <2>4, <2>6, <2>7, <2>8, <2>9 DEF Next, TaskStep
<1> QED BY <1>2, <1>3

\* A step takes a shared flock, takes or gives back the exclusive one, or only
\* drops shared ones; and it changes stages in one of few ways.
LEMMA LockSteps ==
  ASSUME TypeOK, [Next]_vars
  PROVE  \/ /\ \E t \in Task, kind \in Kind : Open(t, kind)
            /\ UNCHANGED <<stage, paused, exclusive>>
         \/ locked' \subseteq locked /\ UNCHANGED <<stage, paused, exclusive>>
         \/ locked' \subseteq locked /\ \E t \in Task : BeginSnapshot(t)
         \/ locked' \subseteq locked /\ \E p \in Process : SnapshotStep(p)
         \/ locked' \subseteq locked /\ \E p \in Process : EndSnapshot(p) \/ Restart(p)
<1>1. CASE \E t \in Task : TaskStep(t)
  BY <1>1 DEF TaskStep, Join, Open, Leave, Unlock, StartChild, BeginSnapshot, Spawn
<1>2. CASE \E r \in Record : ChildExits(r)
  BY <1>2 DEF ChildExits
<1>3. CASE \E p \in Process : SnapshotStep(p)
  BY <1>3 DEF SnapshotStep, DrainWork, DrainAgents, AcquireExclusive, IssuePermit
<1>4. CASE \E p \in Process : EndSnapshot(p) \/ Close(p) \/ Restart(p)
  BY <1>4 DEF EndSnapshot, Close, Restart
<1>5. CASE UNCHANGED vars
  BY <1>5 DEF vars
<1> QED BY <1>1, <1>2, <1>3, <1>4, <1>5 DEF Next

\* Every step respects the flock and the pauses of the stages.
LEMMA ExclusiveStep ==
  ASSUME BarrierInv, [Next]_vars
  PROVE  ExclusiveAlone' /\ PermitBacked' /\ StagePauses'
<1> USE BarrierAssumption DEF ExclusiveAlone, PermitBacked, StagePauses
<1>0. /\ TypeOK /\ ExclusiveAlone /\ PermitBacked /\ StagePauses
      /\ stage \in [Process -> Stage] /\ paused \in [Process -> SUBSET Kind]
      /\ exclusive \in Process \cup {NoProcess}
  BY DEF BarrierInv, TypeOK
<1>1. CASE (\E t \in Task, kind \in Kind : Open(t, kind)) /\ UNCHANGED <<stage, paused, exclusive>>
  BY <1>0, <1>1 DEF Open
<1>2. CASE locked' \subseteq locked /\ UNCHANGED <<stage, paused, exclusive>>
  BY <1>0, <1>2
<1>3. ASSUME locked' \subseteq locked, NEW t \in Task, BeginSnapshot(t)
      PROVE  ExclusiveAlone' /\ PermitBacked' /\ StagePauses'
  <2> DEFINE p == Home[t]
  <2>1. /\ p \in Process
        /\ stage'[p] = "work" /\ \A o \in Process \ {p} : stage'[o] = stage[o]
        /\ paused'[p] = {"work"} /\ \A o \in Process \ {p} : paused'[o] = paused[o]
        /\ exclusive' = exclusive
    BY <1>0, <1>3 DEF BeginSnapshot
  <2> HIDE DEF p
  <2> QED BY <1>0, <1>3, <2>1
<1>4. ASSUME locked' \subseteq locked, NEW p \in Process, SnapshotStep(p)
      PROVE  ExclusiveAlone' /\ PermitBacked' /\ StagePauses'
  <2>1. CASE DrainWork(p)
    <3>1. /\ stage'[p] = "agents" /\ \A o \in Process \ {p} : stage'[o] = stage[o]
          /\ paused'[p] = Kind /\ \A o \in Process \ {p} : paused'[o] = paused[o]
          /\ exclusive' = exclusive
      BY <1>0, <2>1 DEF DrainWork
    <3> QED BY <1>0, <1>4, <3>1 DEF Kind
  <2>2. CASE DrainAgents(p)
    BY <1>0, <1>4, <2>2 DEF DrainAgents
  <2>3. CASE AcquireExclusive(p)
    BY <1>0, <1>4, <2>3 DEF AcquireExclusive
  <2>4. CASE IssuePermit(p)
    BY <1>0, <1>4, <2>4 DEF IssuePermit
  <2> QED BY <1>4, <2>1, <2>2, <2>3, <2>4 DEF SnapshotStep
<1>5. ASSUME locked' \subseteq locked, NEW p \in Process, EndSnapshot(p) \/ Restart(p)
      PROVE  ExclusiveAlone' /\ PermitBacked' /\ StagePauses'
  <2>1. /\ stage'[p] = "none" /\ \A o \in Process \ {p} : stage'[o] = stage[o]
        /\ \A o \in Process \ {p} : paused'[o] = paused[o]
        /\ exclusive' = IF exclusive = p THEN NoProcess ELSE exclusive
    BY <1>0, <1>5 DEF EndSnapshot, Restart
  <2> QED BY <1>0, <1>5, <2>1
<1> QED BY <1>0, <1>1, <1>2, <1>3, <1>4, <1>5, LockSteps

\* What is drained stays drained: live records can be joined, but there are none
\* of a drained kind, and new ones are not admitted.
LEMMA DrainedStep ==
  ASSUME BarrierInv, [Next]_vars
  PROVE  DrainedStaysDrained'
<1> USE BarrierAssumption
<1>0. /\ TypeOK /\ StagePauses /\ DrainedStaysDrained
      /\ stage \in [Process -> Stage]
  BY DEF BarrierInv, TypeOK
<1>1. SUFFICES ASSUME NEW p \in Process, NEW r \in Record, r.process = p, Active(r)'
               PROVE  /\ r.kind = "work" => stage'[p] \notin {"agents", "lock", "granted", "permit"}
                      /\ r.kind = "agent" => stage'[p] \notin {"lock", "granted", "permit"}
  BY DEF DrainedStaysDrained, ActiveOf
<1>2. CASE ~Active(r)
  <2>1. PICK t \in Task, kind \in Kind : Open(t, kind) /\ r.process = Home[t] /\ r.kind = kind
    BY <1>0, <1>1, <1>2, NewLeases
  <2>2. r.kind \notin paused[p] /\ stage' = stage
    BY <1>1, <2>1 DEF Open, Admitted
  <2> QED BY <1>0, <1>1, <2>2 DEF StagePauses
<1>3. CASE Active(r)
  <2>1. /\ r.kind = "work" => stage[p] \notin {"agents", "lock", "granted", "permit"}
        /\ r.kind = "agent" => stage[p] \notin {"lock", "granted", "permit"}
    BY <1>0, <1>1, <1>3 DEF DrainedStaysDrained, ActiveOf
  <2>2. CASE UNCHANGED stage
    BY <2>1, <2>2
  <2>3. ASSUME NEW t \in Task, BeginSnapshot(t)
        PROVE  stage'[p] = stage[p] \/ stage'[p] = "work"
    BY <1>0, <2>3 DEF BeginSnapshot
  <2>4. ASSUME NEW o \in Process, EndSnapshot(o) \/ Restart(o)
        PROVE  stage'[p] = stage[p] \/ stage'[p] = "none"
    BY <1>0, <2>4 DEF EndSnapshot, Restart
  <2>5. ASSUME NEW o \in Process, SnapshotStep(o)
        PROVE  /\ r.kind = "work" => stage'[p] \notin {"agents", "lock", "granted", "permit"}
               /\ r.kind = "agent" => stage'[p] \notin {"lock", "granted", "permit"}
    <3>1. CASE o # p
      BY <1>0, <2>1, <2>5, <3>1
         DEF SnapshotStep, DrainWork, DrainAgents, AcquireExclusive, IssuePermit
    <3>2. CASE o = p
      <4>1. CASE DrainWork(p)
        <5>1. r.kind # "work" /\ stage'[p] = "agents"
          BY <1>0, <1>1, <1>3, <4>1 DEF DrainWork, Drained, ActiveOf
        <5> QED BY <5>1
      <4>2. CASE DrainAgents(p)
        <5>1. r.kind # "agent" /\ stage[p] = "agents"
          BY <1>0, <1>1, <1>3, <4>2 DEF DrainAgents, Drained, ActiveOf
        <5> QED BY <2>1, <5>1
      <4>3. CASE AcquireExclusive(p)
        BY <1>0, <2>1, <4>3 DEF AcquireExclusive
      <4>4. CASE IssuePermit(p)
        BY <1>0, <2>1, <4>4 DEF IssuePermit
      <4> QED BY <2>5, <3>2, <4>1, <4>2, <4>3, <4>4 DEF SnapshotStep
    <3> QED BY <3>1, <3>2
  <2> QED BY <1>0, <2>1, <2>2, <2>3, <2>4, <2>5, LockSteps
<1> QED BY <1>2, <1>3

\* The initial state satisfies the invariant.
LEMMA BarrierInit == Init => BarrierInv
<1> SUFFICES ASSUME Init PROVE BarrierInv
  OBVIOUS
<1>1. \A r \in Record : ~Active(r) /\ r \notin children
  BY DEF Init, Active, Holds
<1>2. DrainedStaysDrained /\ LeaseIsLocked
  BY <1>1 DEF Init, DrainedStaysDrained, LeaseIsLocked, ActiveOf
<1>3. ExclusiveAlone /\ PermitBacked /\ StagePauses
  BY DEF Init, ExclusiveAlone, PermitBacked, StagePauses
<1> QED BY <1>2, <1>3, TypeInit DEF BarrierInv

\* The invariant is inductive.
LEMMA BarrierStep == BarrierInv /\ [Next]_vars => BarrierInv'
  BY TypeStep, LockedStep, ExclusiveStep, DrainedStep DEF BarrierInv

\* A snapshot permit excludes every writer: any task of any process, and any
\* subprocess that outlived the operation or even the process that started it.
THEOREM PermitIsExclusive == Spec => []PermitExcludesWriters
<1>1. BarrierInv => PermitExcludesWriters
  <2> SUFFICES ASSUME BarrierInv, NEW p \in Process, stage[p] = "permit"
               PROVE  children = {} /\ \A r \in Record : ~Active(r)
    BY DEF PermitExcludesWriters
  <2>1. locked = {}
    BY BarrierAssumption DEF BarrierInv, PermitBacked, ExclusiveAlone
  <2>2. children \subseteq Record
    BY DEF BarrierInv, TypeOK
  <2> QED BY <2>1, <2>2 DEF BarrierInv, LeaseIsLocked
<1> QED BY <1>1, BarrierInit, BarrierStep, PTL DEF Spec

\* Once a snapshot has drained a kind of operation, none of that kind comes back
\* in its process before the snapshot ends.
THEOREM DrainIsStable == Spec => []DrainedStaysDrained
<1>1. BarrierInv => DrainedStaysDrained
  BY DEF BarrierInv
<1> QED BY <1>1, BarrierInit, BarrierStep, PTL DEF Spec

\* The shared flock outlives everybody who relies on it.
THEOREM LeasesStayLocked == Spec => []LeaseIsLocked
<1>1. BarrierInv => LeaseIsLocked
  BY DEF BarrierInv
<1> QED BY <1>1, BarrierInit, BarrierStep, PTL DEF Spec
(***************************************************************************)
(* The task inside snapshot().  It rests there with no lease of its own and *)
(* with a context that has expired, if it has one: nobody opens the record  *)
(* of that context again, because the context still refers to it.           *)
(***************************************************************************)
SnapperRests ==
    \A p \in Process : stage[p] # "none" =>
        /\ snapper[p] \in Task /\ Home[snapper[p]] = p
        /\ stack[snapper[p]] = <<>> /\ ~Active(inherited[snapper[p]])

SnapshotInv == TypeOK /\ SnapperRests /\ PausedOnlyForSnapshot

\* A task with leases has a context that is alive.
LEMMA HolderIsActive ==
  ASSUME TypeOK, NEW t \in Task, ~Active(Context(t))
  PROVE  stack[t] = <<>> /\ ~Active(inherited[t])
<1>1. CASE stack[t] # <<>>
  <2>1. Len(stack[t]) \in 1 .. Len(stack[t]) /\ stack[t][Len(stack[t])] \in Record
    BY <1>1 DEF TypeOK
  <2>2. Active(Context(t))
    BY <1>1, <2>1, NoRecordAssumption DEF Context, Active, Holds
  <2> QED BY <2>2
<1>2. CASE stack[t] = <<>>
  BY <1>2 DEF Context
<1> QED BY <1>1, <1>2

\* While the snapshot goes on, no step moves the task inside it.
LEMMA SnapperStays ==
  ASSUME TypeOK, SnapperRests, [Next]_vars,
         NEW p \in Process, stage[p] # "none", stage'[p] # "none"
  PROVE  /\ snapper'[p] = snapper[p]
         /\ stack'[snapper[p]] = stack[snapper[p]]
         /\ inherited'[snapper[p]] = inherited[snapper[p]]
<1> DEFINE s == snapper[p]
           Stays == snapper'[p] = s /\ stack'[s] = stack[s] /\ inherited'[s] = inherited[s]
<1>0. /\ s \in Task /\ Home[s] = p /\ ~MayStep(s)
      /\ stack \in [Task -> Seq(Record)] /\ inherited \in [Task -> Record \cup {NoRecord}]
      /\ stage \in [Process -> Stage] /\ snapper \in [Process -> Task \cup {NoTask}]
  BY DEF SnapperRests, TypeOK, MayStep, Snapping
<1> HIDE DEF s
<1>1. ASSUME NEW t \in Task, NEW kind \in Kind, Join(t, kind) \/ Open(t, kind) PROVE Stays
  <2>1. t # s /\ UNCHANGED <<snapper, inherited>>
    BY <1>0, <1>1 DEF Join, Open
  <2>2. stack'[s] = stack[s]
    BY <1>0, <1>1, <2>1 DEF Join, Open
  <2> QED BY <2>1, <2>2 DEF s
<1>2. ASSUME NEW t \in Task, Leave(t) PROVE Stays
  BY <1>0, <1>2 DEF Leave, s
<1>3. ASSUME NEW t \in Task, NEW u \in Task, Spawn(t, u) PROVE Stays
  BY <1>0, <1>3 DEF Spawn, s
<1>4. ASSUME NEW t \in Task, BeginSnapshot(t) PROVE Stays
  <2>1. Home[t] # p
    BY <1>4 DEF BeginSnapshot, MaySnapshot
  <2> QED BY <1>0, <1>4, <2>1 DEF BeginSnapshot, s
<1>5. ASSUME NEW o \in Process, EndSnapshot(o) PROVE Stays
  BY <1>0, <1>5 DEF EndSnapshot, s
<1>6. ASSUME NEW o \in Process, Restart(o) PROVE Stays
  <2>1. o # p
    BY <1>0, <1>6 DEF Restart
  <2> QED BY <1>0, <1>6, <2>1 DEF Restart, s
<1>7. ASSUME NEW t \in Task, StartChild(t) PROVE Stays
  BY <1>7 DEF StartChild, s
<1>8. ASSUME NEW r \in Record, ChildExits(r) PROVE Stays
  BY <1>8 DEF ChildExits, s
<1>9. ASSUME NEW o \in Process, SnapshotStep(o) \/ Close(o) PROVE Stays
  BY <1>9 DEF SnapshotStep, DrainWork, DrainAgents, AcquireExclusive, IssuePermit, Close, s
<1>10. CASE UNCHANGED vars
  BY <1>10 DEF vars, s
<1>11. Stays
  BY <1>1, <1>2, <1>3, <1>4, <1>5, <1>6, <1>7, <1>8, <1>9, <1>10 DEF Next, TaskStep, s
<1> QED BY <1>11 DEF s

\* A snapshot starts where snapshot() is called.
LEMMA SnapshotBegins ==
  ASSUME TypeOK, [Next]_vars, NEW p \in Process, stage[p] = "none", stage'[p] # "none"
  PROVE  \E t \in Task : BeginSnapshot(t) /\ Home[t] = p
<1>0. stage \in [Process -> Stage]
  BY DEF TypeOK
<1>1. ASSUME NEW o \in Process, SnapshotStep(o) \/ EndSnapshot(o) \/ Close(o) \/ Restart(o)
      PROVE  FALSE
  BY <1>0, <1>1 DEF SnapshotStep, DrainWork, DrainAgents, AcquireExclusive, IssuePermit,
                    EndSnapshot, Close, Restart
<1>2. ASSUME NEW t \in Task, BeginSnapshot(t) PROVE Home[t] = p
  BY <1>0, <1>2 DEF BeginSnapshot
<1>3. ASSUME NEW t \in Task,
             \/ \E kind \in Kind : Join(t, kind) \/ Open(t, kind)
             \/ Leave(t) \/ StartChild(t) \/ \E u \in Task : Spawn(t, u)
      PROVE  FALSE
  BY <1>3 DEF Join, Open, Leave, StartChild, Spawn
<1>4. ASSUME NEW r \in Record, ChildExits(r) PROVE FALSE
  BY <1>4 DEF ChildExits
<1>5. CASE UNCHANGED vars
  BY <1>5 DEF vars
<1> QED BY <1>1, <1>2, <1>3, <1>4, <1>5 DEF Next, TaskStep

\* The task inside a snapshot keeps resting, and its context stays expired.
LEMMA SnapperStep ==
  ASSUME TypeOK, SnapperRests, [Next]_vars
  PROVE  SnapperRests'
<1> SUFFICES ASSUME NEW p \in Process, stage'[p] # "none"
             PROVE  /\ snapper'[p] \in Task /\ Home[snapper'[p]] = p
                    /\ stack'[snapper'[p]] = <<>> /\ ~Active(inherited[snapper[p]])'
  BY DEF SnapperRests
<1>t. \A t \in Task : inherited[t] \in Record \cup {NoRecord}
  BY DEF TypeOK
<1>d. ASSUME NEW t \in Task, ~Active(inherited[t]), inherited'[t] = inherited[t]
      PROVE  ~Active(inherited[t])'
  <2> SUFFICES ASSUME Active(inherited[t])' PROVE FALSE
    OBVIOUS
  <2>1. inherited[t] \in Record
    BY <1>t, <1>d DEF Active
  <2>2. Active(inherited[t]) \/ Unreferenced(inherited[t])
    <3>1. PICK r \in Record : r = inherited[t]
      BY <2>1
    <3>2. Active(r)'
      BY <1>d, <3>1 DEF Active, Holds
    <3>3. Active(r) \/ Unreferenced(r)
      BY <3>2, NewLeases
    <3> QED BY <3>1, <3>3
  <2> QED BY <1>d, <2>2 DEF Unreferenced
<1>1. CASE stage[p] = "none"
  <2>1. PICK t \in Task : BeginSnapshot(t) /\ Home[t] = p
    BY <1>1, SnapshotBegins
  <2>2. /\ snapper'[p] = t /\ UNCHANGED <<stack, inherited>>
    BY <2>1 DEF BeginSnapshot, TypeOK
  <2>3. stack[t] = <<>> /\ ~Active(inherited[t])
    BY <2>1, HolderIsActive DEF BeginSnapshot, MaySnapshot
  <2>4. ~Active(inherited[t])'
    BY <1>d, <2>2, <2>3
  <2>5. inherited'[snapper'[p]] = inherited[t] /\ inherited'[t] = inherited[t]
    BY <2>2
  <2> QED BY <2>1, <2>2, <2>3, <2>4, <2>5 DEF Active, Holds
<1>2. CASE stage[p] # "none"
  <2> DEFINE s == snapper[p]
  <2>1. s \in Task /\ Home[s] = p /\ stack[s] = <<>> /\ ~Active(inherited[s])
    BY <1>2 DEF SnapperRests
  <2>2. snapper'[p] = s /\ stack'[s] = stack[s] /\ inherited'[s] = inherited[s]
    BY <1>2, SnapperStays
  <2>3. ~Active(inherited[s])'
    BY <1>d, <2>1, <2>2
  <2> QED BY <2>1, <2>2, <2>3 DEF Active, Holds
<1> QED BY <1>1, <1>2

\* Only a process with a snapshot has admission closed.
LEMMA PausesStep ==
  ASSUME TypeOK, PausedOnlyForSnapshot, [Next]_vars
  PROVE  PausedOnlyForSnapshot'
<1> USE BarrierAssumption DEF PausedOnlyForSnapshot
<1>0. stage \in [Process -> Stage] /\ paused \in [Process -> SUBSET Kind]
  BY DEF TypeOK
<1>1. ASSUME NEW t \in Task, BeginSnapshot(t) PROVE PausedOnlyForSnapshot'
  BY <1>0, <1>1 DEF BeginSnapshot
<1>2. ASSUME NEW p \in Process, SnapshotStep(p) PROVE PausedOnlyForSnapshot'
  BY <1>0, <1>2 DEF SnapshotStep, DrainWork, DrainAgents, AcquireExclusive, IssuePermit
<1>3. ASSUME NEW p \in Process, EndSnapshot(p) \/ Restart(p) PROVE PausedOnlyForSnapshot'
  BY <1>0, <1>3 DEF EndSnapshot, Resumed, Restart
<1>4. CASE UNCHANGED <<stage, paused>>
  BY <1>4
<1>5. ASSUME NEW t \in Task,
             \/ \E kind \in Kind : Join(t, kind) \/ Open(t, kind)
             \/ Leave(t) \/ StartChild(t) \/ \E u \in Task : Spawn(t, u)
      PROVE  UNCHANGED <<stage, paused>>
  BY <1>5 DEF Join, Open, Leave, StartChild, Spawn
<1>6. ASSUME NEW r \in Record, ChildExits(r) PROVE UNCHANGED <<stage, paused>>
  BY <1>6 DEF ChildExits
<1>7. ASSUME NEW p \in Process, Close(p) PROVE UNCHANGED <<stage, paused>>
  BY <1>7 DEF Close
<1>8. CASE UNCHANGED vars
  BY <1>4, <1>8 DEF vars
<1> QED BY <1>1, <1>2, <1>3, <1>4, <1>5, <1>6, <1>7, <1>8 DEF Next, TaskStep

\* However it goes on and ends, a snapshot does not wait for a lease of its own
\* context, and admission is closed only while it lasts.
THEOREM SnapshotsBlockOthersOnly == Spec => []SnapshotBlocksOthersOnly
<1>1. Init => SnapshotInv
  BY TypeInit DEF Init, SnapshotInv, SnapperRests, PausedOnlyForSnapshot
<1>2. SnapshotInv /\ [Next]_vars => SnapshotInv'
  BY TypeStep, SnapperStep, PausesStep DEF SnapshotInv
<1>3. SnapshotInv => SnapshotBlocksOthersOnly
  BY DEF SnapshotInv, SnapperRests, SnapshotBlocksOthersOnly, SnapshotNotSelfBlocked, Context
<1> QED BY <1>1, <1>2, <1>3, PTL DEF Spec
=============================================================================
