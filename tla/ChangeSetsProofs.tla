-------------------------- MODULE ChangeSetsProofs --------------------------
(***************************************************************************)
(* Proofs about ChangeSets for every value of its constants: any number of  *)
(* servers, change sets, steps and ordinary commands.                       *)
(***************************************************************************)
EXTENDS ChangeSets, WellFoundedInduction, TLAPS

Rows == [Command -> Row]

(***************************************************************************)
(* Command identifiers.                                                    *)
(***************************************************************************)
\* The commands of a change set are commands, and so are a chain's.
LEMMA CommandSets ==
    /\ \A c \in Change : Forwards(c) \subseteq Command /\ Rollbacks(c) \subseteq Command
    /\ \A c \in Change : Owned(c) \subseteq OwnedCommand
    /\ \A q \in Chain : Commands(q) \subseteq OrdinaryCommand
    /\ OwnedCommand \subseteq Command /\ OrdinaryCommand \subseteq Command
BY DEF Command, OwnedCommand, OrdinaryCommand, Owned

\* A coordinated command is one of the change set its second component names.
LEMMA OwnerOf ==
    ASSUME NEW k \in OwnedCommand
    PROVE  k[2] \in Change /\ k \in Owned(k[2])
BY DEF OwnedCommand, Owned, Forwards, Rollbacks, Forward, Rollback

\* Forward, compensating and ordinary commands are different commands, and no
\* command belongs to two change sets.
LEMMA Disjoint ==
    /\ \A c, d \in Change : Forwards(c) \cap Rollbacks(d) = {}
    /\ \A c, d \in Change : c # d => Owned(c) \cap Owned(d) = {}
    /\ \A c \in Change : Owned(c) \cap OrdinaryCommand = {}
BY DEF OrdinaryCommand, Owned, Forwards, Rollbacks, Commands, Forward, Rollback, Ordinary

(***************************************************************************)
(* Rows.                                                                   *)
(***************************************************************************)
LEMMA RowTypes ==
    /\ Absent \in Row
    /\ \A s \in CommandStatus : NewRow(s) \in Row
    /\ \A r \in Row, st \in CommandStatus, lease \in {"none", "live", "expired"},
          result \in {"none", "agent", "panel"} : Update(r, st, lease, result) \in Row
    /\ \A r \in Row : Skip(r) \in Row /\ Ready(r) \in Row
BY DEF Row, Absent, NewRow, Update, Skip, Ready, CommandStatus

\* _advance_command_dependents() returns command rows.
LEMMA DependentsTyped ==
    ASSUME NEW m \in Rows, NEW k \in Command
    PROVE  AdvanceDependents(m, k) \in Rows
BY RowTypes DEF Rows, AdvanceDependents

\* Recording a result returns command rows.
LEMMA FinishTyped ==
    ASSUME TypeOK, NEW k \in Command, NEW row \in Row
    PROVE  Finish(k, row) \in Rows
BY DependentsTyped DEF Rows, Finish, TypeOK

\* stop_unsent() returns command rows.
LEMMA StopUnsentTyped ==
    ASSUME NEW m \in Rows, NEW c \in Change
    PROVE  StopUnsent(m, c) \in Rows
BY RowTypes DEF Rows, StopUnsent

\* Creating the compensators returns command rows.
LEMMA CompensateTyped ==
    ASSUME NEW m \in Rows, NEW c \in Change
    PROVE  Compensate(m, c) \in Rows
BY RowTypes DEF Rows, Compensate, CommandStatus

\* Creating an ordinary sequence returns command rows.
LEMMA NewChainTyped ==
    ASSUME NEW m \in Rows, NEW q \in Chain
    PROVE  NewChain(m, q) \in Rows
BY RowTypes DEF Rows, NewChain, CommandStatus

\* A sequence the store queues by itself leaves command rows.
LEMMA QueueOnceTyped ==
    ASSUME NEW m \in Rows, NEW pool \in SUBSET Chain
    PROVE  QueueOnce(m, pool) \subseteq Rows
BY NewChainTyped DEF QueueOnce

\* Retiring commands for a node removal returns command rows.
LEMMA RetireTyped ==
    ASSUME TypeOK, NEW ks
    PROVE  Retire(ks) \in Rows
BY RowTypes DEF Rows, Retire, TypeOK

\* The outcomes advance() computes are change-set statuses.
LEMMA OutcomeTyped ==
    ASSUME NEW m, NEW c, NEW st \in ChangeStatus
    PROVE  RollbackOutcome(m, c) \in ChangeStatus /\ ForwardOutcome(m, st, c) \in ChangeStatus
BY DEF RollbackOutcome, ForwardOutcome, ChangeStatus

\* advance() returns command rows and a change-set status.
LEMMA AdvanceTyped ==
    ASSUME NEW m \in Rows, NEW c \in Change, NEW st \in ChangeStatus
    PROVE  Advance(m, st, c).cmd \in Rows /\ Advance(m, st, c).status \in ChangeStatus
BY StopUnsentTyped, CompensateTyped, OutcomeTyped DEF Advance

(***************************************************************************)
(* Type correctness.                                                       *)
(***************************************************************************)
\* Release and Reserve only move reservations between change sets.
LEMMA LocksTyped ==
    ASSUME TypeOK, NEW c \in Change
    PROVE  /\ Release(c) \in [Server -> Change \cup {NoChange}]
           /\ Reserve(c) \in [Server -> Change \cup {NoChange}]
BY DEF TypeOK, Release, Reserve

\* Committing what advance() returns keeps the types.
LEMMA AdvanceToTyped ==
    ASSUME TypeOK, NEW m \in Rows, NEW c \in Change, NEW st \in ChangeStatus,
           NEW locks \in [Server -> Change \cup {NoChange}],
           AdvanceTo(m, st, c, locks)
    PROVE  /\ cmd' \in Rows
           /\ status' \in [Change -> ChangeStatus]
           /\ lock' \in [Server -> Change \cup {NoChange}]
BY AdvanceTyped, LocksTyped DEF AdvanceTo, TypeOK

\* advance_after_result() keeps the types.
LEMMA AfterResultTyped ==
    ASSUME TypeOK, NEW m \in Rows, NEW k \in Command, AfterResult(m, k)
    PROVE  /\ cmd' \in Rows
           /\ status' \in [Change -> ChangeStatus]
           /\ lock' \in [Server -> Change \cup {NoChange}]
<1>1. CASE k \in OwnedCommand /\ version[k[2]] = 1
  <2>1. k[2] \in Change
    BY <1>1, OwnerOf
  <2>2. status[k[2]] \in ChangeStatus /\ lock \in [Server -> Change \cup {NoChange}]
    BY <2>1 DEF TypeOK
  <2> QED
    BY <1>1, <2>1, <2>2, AdvanceToTyped DEF AfterResult
<1>2. CASE ~(k \in OwnedCommand /\ version[k[2]] = 1)
  BY <1>2 DEF AfterResult, TypeOK
<1> QED
  BY <1>1, <1>2

\* A terminal row of command k: only an agent succeeds, what was sent is not
\* skipped, and what was not sent is answered for an ordinary command alone, on a
\* server nobody has reserved.
Wrote(k, row) ==
    /\ row.status \in Terminal /\ row.sent = cmd[k].sent
    /\ row.status = "succeeded" => row.result = "agent"
    /\ row.status = "skipped" => ~row.sent
    /\ row.status # "skipped" /\ ~row.sent => k \notin OwnedCommand /\ lock[Target(k)] = NoChange

\* The row written when the panel ends a command by itself.
LEMMA TerminalizeCases ==
    ASSUME TypeOK, NEW k \in Command, TerminalizeUnleaseable(k)
    PROVE  \E row \in Row : Wrote(k, row) /\ AfterResult(Finish(k, row), k)
<1> DEFINE st == IF cmd[k].sent THEN "failed" ELSE "skipped"
           row == Update(cmd[k], st, "none", "panel")
<1>1. cmd[k] \in Row /\ st \in CommandStatus /\ st \in Terminal
  BY DEF TypeOK, CommandStatus, Terminal
<1>2. row \in Row
  BY <1>1, RowTypes
<1>3. Wrote(k, row)
  <2>1. row.status = st /\ row.sent = cmd[k].sent
    BY DEF Update
  <2>2. CASE cmd[k].sent
    BY <2>1, <2>2 DEF Wrote, Terminal
  <2>3. CASE ~cmd[k].sent
    BY <2>1, <2>3 DEF Wrote, Terminal
  <2> QED
    BY <2>2, <2>3
<1>4. AfterResult(Finish(k, row), k)
  BY DEF TerminalizeUnleaseable
<1> QED
  BY <1>2, <1>3, <1>4

\* A lease request either ends the command or leases it.
LEMMA LeaseCases ==
    ASSUME TypeOK, NEW k \in Command, ClaimCommandLease(k)
    PROVE  \/ \E row \in Row : Wrote(k, row) /\ AfterResult(Finish(k, row), k)
           \/ /\ LeasedRow(k) \in Row
              /\ cmd' = [cmd EXCEPT ![k] = LeasedRow(k)]
              /\ UNCHANGED <<status, lock>>
<1>1. CASE Retired(k) /\ AfterResult(Finish(k, Skip(cmd[k])), k)
  <2>1. Skip(cmd[k]) \in Row
    BY RowTypes DEF TypeOK
  <2>2. Wrote(k, Skip(cmd[k]))
    <3>1. /\ Skip(cmd[k]).status = "skipped" /\ Skip(cmd[k]).sent = cmd[k].sent
          /\ ~cmd[k].sent
      BY <1>1 DEF Skip, Update, Retired
    <3> QED
      BY <3>1 DEF Wrote, Terminal
  <2> QED
    BY <1>1, <2>1, <2>2
<1>2. CASE TerminalizeUnleaseable(k)
  BY <1>2, TerminalizeCases
<1>3. CASE cmd' = [cmd EXCEPT ![k] = LeasedRow(k)] /\ UNCHANGED <<status, lock>>
  <2>1. LeasedRow(k) \in Row
    BY DEF LeasedRow, Row, CommandStatus
  <2> QED
    BY <1>3, <2>1
<1> QED
  BY <1>1, <1>2, <1>3 DEF ClaimCommandLease

\* Every command has a target server.
LEMMA TargetTyped ==
    ASSUME NEW k \in Command
    PROVE  Target(k) \in Server
<1>1. CASE k \in OrdinaryCommand
  BY <1>1, ConstantsAssumption DEF OrdinaryCommand, Commands, Ordinary, Target
<1>2. CASE k \in OwnedCommand
  <2>0. PICK c \in Change : \E i \in Steps(c) : k = Forward(c, i) \/ k = Rollback(c, i)
    BY <1>2 DEF OwnedCommand, Owned, Forwards, Rollbacks
  <2>1. PICK i \in Steps(c) : k = Forward(c, i) \/ k = Rollback(c, i)
    BY <2>0
  <2>2. Target(k) = StepServer[c][i]
    BY <2>1 DEF Target, Forward, Rollback
  <2>3. StepServer[c] \in Seq(Server) /\ i \in 1 .. Len(StepServer[c])
    BY ConstantsAssumption DEF Steps
  <2> QED
    BY <2>2, <2>3
<1> QED
  BY <1>1, <1>2 DEF Command

\* A result ends the command, may queue a refresh, and advances the change set.
LEMMA ResultCases ==
    ASSUME TypeOK, NEW k \in Command, NEW ok \in BOOLEAN, ApplyCommandResult(k, ok)
    PROVE  \E row \in Row : \E pool \in SUBSET Chain :
               /\ Wrote(k, row)
               /\ \E m \in {Finish(k, row)} \cup QueueOnce(Finish(k, row), pool) : AfterResult(m, k)
<1> DEFINE st == IF ok THEN "succeeded" ELSE "failed"
           lease == IF cmd[k].lease = "none" THEN "none" ELSE "expired"
           row == Update(cmd[k], st, lease, "agent")
           pool == RefreshChain[Target(k)]
<1>1. cmd[k] \in Row /\ st \in CommandStatus /\ st \in Terminal
  BY DEF TypeOK, CommandStatus, Terminal
<1>2. row \in Row
  BY <1>1, RowTypes
<1>3. Wrote(k, row)
  <2>1. /\ row.status = st /\ row.sent = cmd[k].sent /\ row.result = "agent"
        /\ st \in {"succeeded", "failed"} /\ ResultAllowed(k)
    BY DEF Update, ApplyCommandResult
  <2> HIDE DEF row
  <2> QED
    BY <1>1, <2>1 DEF Wrote, ResultAllowed
<1>4. pool \in SUBSET Chain
  BY TargetTyped, ConstantsAssumption
<1>5. \E m \in {Finish(k, row)} \cup QueueOnce(Finish(k, row), pool) : AfterResult(m, k)
  BY DEF ApplyCommandResult
<1> HIDE DEF row, pool
<1> QED
  BY <1>2, <1>3, <1>4, <1>5

\* What a command ended by a lease request, a capability loss or a result leaves.
Ended(k, row, pool) == {Finish(k, row)} \cup QueueOnce(Finish(k, row), pool)

EndStep(k) ==
    /\ cmd[k].status \in {"pending", "leased"}
    /\ \E row \in Row : \E pool \in SUBSET Chain :
          Wrote(k, row) /\ \E m \in Ended(k, row, pool) : AfterResult(m, k)

StillOpen(old, row) ==
    /\ old.status \in {"pending", "leased"} /\ row.status \in {"pending", "leased"}
    /\ row.status = "leased" => row.sent = TRUE \/ (old.status = "leased" /\ row.sent = old.sent)

\* Only a lease sends a command.
Held(k, row) == row.sent = cmd[k].sent \/ (row.sent = TRUE /\ CanLease(k))

LeaseStep(k) ==
    /\ UNCHANGED <<status, lock>>
    /\ \E row \in Row : StillOpen(cmd[k], row) /\ Held(k, row) /\ cmd' = [cmd EXCEPT ![k] = row]

\* Every step of one command is a lease, a hand-back or expiry of its lease, or
\* its end; nothing else about it changes.
LEMMA CommandCases ==
    ASSUME TypeOK, NEW k \in Command, CommandStep(k)
    PROVE  /\ UNCHANGED <<version, capability, removal, migrated>>
           /\ EndStep(k) \/ LeaseStep(k)
<1>0. cmd[k] \in Row
  BY DEF TypeOK
<1>1. CASE ClaimCommandLease(k)
  <2>1. CASE \E row \in Row : Wrote(k, row) /\ AfterResult(Finish(k, row), k)
    BY <1>1, <2>1 DEF ClaimCommandLease, LeaseCandidate, EndStep, Ended
  <2>2. CASE /\ LeasedRow(k) \in Row
             /\ cmd' = [cmd EXCEPT ![k] = LeasedRow(k)]
             /\ UNCHANGED <<status, lock>>
    BY <1>1, <2>2 DEF ClaimCommandLease, LeaseStep, StillOpen, Held, LeasedRow, LeaseCandidate
  <2> QED
    BY <1>1, <2>1, <2>2, LeaseCases
<1>2. CASE ReconcileCapabilityLoss(k)
  <2>1. \E row \in Row : Wrote(k, row) /\ AfterResult(Finish(k, row), k)
    BY <1>2, TerminalizeCases DEF ReconcileCapabilityLoss
  <2> QED
    BY <1>2, <2>1 DEF ReconcileCapabilityLoss, LeaseCandidate, EndStep, Ended
<1>3. CASE ReleaseCommandLease(k)
  <2> DEFINE row == Update(cmd[k], "pending", "none", cmd[k].result)
  <2>1. row \in Row /\ row.status = "pending" /\ row.sent = cmd[k].sent
    BY <1>0, RowTypes DEF Update, Row, CommandStatus
  <2> QED
    BY <1>3, <2>1 DEF ReleaseCommandLease, LeaseStep, StillOpen, Held
<1>4. CASE LeaseExpires(k)
  <2> DEFINE row == Update(cmd[k], "leased", "expired", cmd[k].result)
  <2>1. row \in Row /\ row.status = "leased" /\ row.sent = cmd[k].sent
    BY <1>0, RowTypes DEF Update, Row, CommandStatus
  <2> QED
    BY <1>4, <2>1 DEF LeaseExpires, LeaseStep, StillOpen, Held
<1>5. CASE \E ok \in BOOLEAN : ApplyCommandResult(k, ok)
  BY <1>5, ResultCases DEF ApplyCommandResult, EndStep, Ended
<1> QED
  BY <1>1, <1>2, <1>3, <1>4, <1>5 DEF CommandStep

\* A result with its follow-up work keeps the types.
LEMMA EndedTyped ==
    ASSUME TypeOK, NEW k \in Command, NEW row \in Row, NEW pool \in SUBSET Chain,
           NEW m \in Ended(k, row, pool)
    PROVE  m \in Rows
BY FinishTyped, QueueOnceTyped DEF Ended

\* The rows an earlier release can have left.
LEMMA LegacyRowTyped ==
    ASSUME NEW r \in LegacyRow
    PROVE  /\ r \in Row /\ r.status # "absent"
           /\ r.status = "leased" => r.sent = TRUE
           /\ r.status \in {"waiting", "skipped"} => ~r.sent
           /\ r.status = "succeeded" => r.result = "agent"
<1>1. \/ r \in [status : {"waiting", "pending"}, sent : {FALSE}, lease : {"none"}, result : {"none"}, after : {{}}]
      \/ r \in [status : {"pending"}, sent : {TRUE}, lease : {"none"}, result : {"none"}, after : {{}}]
      \/ r \in [status : {"leased"}, sent : {TRUE}, lease : {"live", "expired"}, result : {"none"}, after : {{}}]
      \/ r \in [status : {"succeeded", "failed"}, sent : {TRUE}, lease : {"none", "expired"}, result : {"agent"}, after : {{}}]
      \/ r \in [status : {"succeeded", "failed"}, sent : {FALSE}, lease : {"none"}, result : {"agent"}, after : {{}}]
      \/ r \in [status : {"failed"}, sent : {TRUE}, lease : {"none"}, result : {"panel"}, after : {{}}]
      \/ r \in [status : {"skipped"}, sent : {FALSE}, lease : {"none"}, result : {"panel"}, after : {{}}]
  BY DEF LegacyRow
<1> DEFINE Shape ==
        /\ r = [status |-> r.status, sent |-> r.sent, lease |-> r.lease, result |-> r.result, after |-> r.after]
        /\ r.status \in {"waiting", "pending", "leased", "succeeded", "failed", "skipped"}
        /\ r.sent \in {TRUE, FALSE} /\ r.lease \in {"none", "live", "expired"}
        /\ r.result \in {"none", "agent", "panel"} /\ r.after = {}
        /\ r.status = "leased" => r.sent = TRUE
        /\ r.status \in {"waiting", "skipped"} => r.sent = FALSE
        /\ r.status = "succeeded" => r.result = "agent"
<1>2. ASSUME r \in [status : {"waiting", "pending"}, sent : {FALSE}, lease : {"none"}, result : {"none"}, after : {{}}]
      PROVE  Shape
  BY <1>2
<1>3. ASSUME r \in [status : {"pending"}, sent : {TRUE}, lease : {"none"}, result : {"none"}, after : {{}}]
      PROVE  Shape
  BY <1>3
<1>4. ASSUME r \in [status : {"leased"}, sent : {TRUE}, lease : {"live", "expired"}, result : {"none"}, after : {{}}]
      PROVE  Shape
  BY <1>4
<1>5. ASSUME r \in [status : {"succeeded", "failed"}, sent : {TRUE}, lease : {"none", "expired"}, result : {"agent"}, after : {{}}]
      PROVE  Shape
  BY <1>5
<1>6. ASSUME r \in [status : {"succeeded", "failed"}, sent : {FALSE}, lease : {"none"}, result : {"agent"}, after : {{}}]
      PROVE  Shape
  BY <1>6
<1>7. ASSUME r \in [status : {"failed"}, sent : {TRUE}, lease : {"none"}, result : {"panel"}, after : {{}}]
      PROVE  Shape
  BY <1>7
<1>8. ASSUME r \in [status : {"skipped"}, sent : {FALSE}, lease : {"none"}, result : {"panel"}, after : {{}}]
      PROVE  Shape
  BY <1>8
<1>9. Shape
  BY <1>1, <1>2, <1>3, <1>4, <1>5, <1>6, <1>7, <1>8
<1> HIDE DEF Shape
<1>10. r \in Row
  BY <1>9 DEF Shape, Row, CommandStatus
<1> QED
  BY <1>9, <1>10 DEF Shape

\* At the upgrade a plan has no rows, a sequence has all of them or none, and every
\* row is one an earlier release can have left.
LEMMA InitRows ==
    ASSUME Init
    PROVE  /\ cmd \in Rows
           /\ \A x \in Command : cmd[x] = Absent \/ cmd[x] \in LegacyRow
           /\ \A c \in Change : status[c] = "planned" => \A x \in Owned(c) : cmd[x] = Absent
           /\ \A q \in Chain : \/ \A x \in Commands(q) : cmd[x] = Absent
                               \/ \A x \in Commands(q) : cmd[x] \in LegacyRow
<1>1. PICK qs \in SUBSET Underway : \E ks \in LegacyCommands(qs) : \E rows \in [ks -> LegacyRow] :
          cmd = [x \in Command |-> IF x \in ks THEN rows[x] ELSE Absent]
  BY DEF Init
<1>2. PICK ks \in LegacyCommands(qs) : \E rows \in [ks -> LegacyRow] :
          cmd = [x \in Command |-> IF x \in ks THEN rows[x] ELSE Absent]
  BY <1>1
<1>3. PICK rows \in [ks -> LegacyRow] : cmd = [x \in Command |-> IF x \in ks THEN rows[x] ELSE Absent]
  BY <1>2
<1>4. /\ \A x \in Command : x \in ks => cmd[x] \in LegacyRow
      /\ \A x \in Command : x \notin ks => cmd[x] = Absent
  BY <1>3
<1>5. cmd \in Rows
  BY <1>3, <1>4, LegacyRowTyped, RowTypes DEF Rows
<1> DEFINE started == {c \in Legacy : status[c] # "planned"}
           undone == {c \in Legacy : status[c] = "rollback_queued"}
           compensators == {k \in UNION {Rollbacks(c) : c \in undone} : <<k[2], k[3]>> \in Compensated}
           begun == UNION {Forwards(c) : c \in started}
           sequences == UNION {Commands(q) : q \in qs}
<1>6. PICK rs \in SUBSET compensators : ks = begun \cup rs \cup sequences
  BY DEF LegacyCommands
<1> HIDE DEF begun, sequences
<1>6a. \A x : x \in ks <=> x \in begun \/ x \in rs \/ x \in sequences
  BY <1>6
<1>7. qs \subseteq Chain /\ Legacy \subseteq Change
  BY ConstantsAssumption
<1>8. ASSUME NEW c \in Change, status[c] = "planned", NEW x \in Owned(c) PROVE cmd[x] = Absent
  <2>1. x \in Command /\ x \notin OrdinaryCommand
    BY CommandSets, Disjoint
  <2>2. x \notin sequences
    BY <1>7, <2>1, CommandSets DEF sequences
  <2>3. \A d \in Legacy : status[d] # "planned" => x \notin Owned(d)
    BY <1>7, <1>8, Disjoint
  <2>4. x \notin begun
    BY <2>3 DEF Owned, begun
  <2>5. x \notin rs
    BY <2>3 DEF Owned
  <2>6. x \notin ks
    BY <1>6a, <2>2, <2>4, <2>5
  <2> QED
    BY <1>4, <2>1, <2>6
<1>9. ASSUME NEW q \in Chain
      PROVE  \/ \A x \in Commands(q) : cmd[x] = Absent
             \/ \A x \in Commands(q) : cmd[x] \in LegacyRow
  <2>1. \A x \in Commands(q) : x \in Command /\ x \notin OwnedCommand /\ x[2] = q
    BY CommandSets, Disjoint, OwnerOf DEF Commands, Ordinary
  <2>2. CASE q \in qs
    <3>1. Commands(q) \subseteq sequences
      BY <2>2 DEF sequences
    <3>2. \A x \in Commands(q) : x \in ks
      BY <1>6a, <3>1
    <3> QED
      BY <1>4, <2>1, <3>2
  <2>3. CASE q \notin qs
    <3>1. ASSUME NEW x \in Commands(q) PROVE x \notin ks
      <4>1. \A p \in qs : x \notin Commands(p)
        BY <2>1, <2>3 DEF Commands, Ordinary
      <4>2. \A d \in Change : x \notin Owned(d)
        BY <2>1, CommandSets
      <4>3. x \notin sequences
        BY <4>1 DEF sequences
      <4>4. x \notin begun
        BY <1>7, <4>2 DEF Owned, begun
      <4>5. x \notin rs
        BY <1>7, <4>2 DEF Owned
      <4> QED
        BY <1>6a, <4>3, <4>4, <4>5
    <3> QED
      BY <1>4, <2>1, <3>1
  <2> QED
    BY <2>2, <2>3
<1> QED
  BY <1>4, <1>5, <1>8, <1>9

\* Initially every row, reservation and status has its type.
LEMMA InitTyped == Init => TypeOK
<1> SUFFICES ASSUME Init PROVE TypeOK
  OBVIOUS
<1>1. cmd \in [Command -> Row]
  BY InitRows DEF Rows
<1>2. status \in [Change -> ChangeStatus]
  BY DEF Init, ChangeStatus
<1> QED
  BY <1>1, <1>2 DEF Init, TypeOK

\* Every transaction keeps the types.
LEMMA NextTyped == TypeOK /\ [Next]_vars => TypeOK'
<1> SUFFICES ASSUME TypeOK, [Next]_vars PROVE TypeOK'
  OBVIOUS
<1>1. CASE MigrateLegacy
  <2>1. \A x \in Command : MigratedRow(x) \in Row
    BY RowTypes DEF TypeOK, MigratedRow
  <2> QED
    BY <1>1, <2>1 DEF MigrateLegacy, TypeOK, ChangeStatus
<1>2. ASSUME NEW q \in Chain, CreateSequence(q) PROVE TypeOK'
  BY <1>2, NewChainTyped DEF CreateSequence, TypeOK, Rows
<1>3. ASSUME NEW k \in Command, CommandStep(k) PROVE TypeOK'
  <2>1. CASE EndStep(k)
    <3>1. /\ cmd' \in Rows
          /\ status' \in [Change -> ChangeStatus]
          /\ lock' \in [Server -> Change \cup {NoChange}]
      BY <2>1, EndedTyped, AfterResultTyped DEF EndStep
    <3>2. UNCHANGED <<version, capability, removal, migrated>>
      BY <1>3, CommandCases
    <3> QED
      BY <3>1, <3>2 DEF TypeOK, Rows
  <2>2. CASE LeaseStep(k)
    <3>1. UNCHANGED <<version, capability, removal, migrated>>
      BY <1>3, CommandCases
    <3>2. PICK row \in Row : cmd' = [cmd EXCEPT ![k] = row]
      BY <2>2 DEF LeaseStep
    <3>3. cmd' \in [Command -> Row]
      BY <3>2 DEF TypeOK
    <3>4. UNCHANGED <<status, lock>>
      BY <2>2 DEF LeaseStep
    <3> QED
      BY <3>1, <3>3, <3>4 DEF TypeOK
  <2> QED
    BY <1>3, <2>1, <2>2, CommandCases
<1>4. ASSUME NEW c \in Change, ChangeStep(c) PROVE TypeOK'
  <2>1. CASE Dispatch(c)
    BY <2>1, RowTypes, LocksTyped DEF Dispatch, TypeOK, CommandStatus, ChangeStatus
  <2>2. CASE CancelPlan(c)
    BY <2>2 DEF CancelPlan, TypeOK, ChangeStatus
  <2>3. CASE RequestRollback(c)
    <3>1. RetryRows(c) \in Rows /\ "rollback_queued" \in ChangeStatus
      BY RowTypes DEF RetryRows, Rows, TypeOK, ChangeStatus
    <3>2. AdvanceTo(RetryRows(c), "rollback_queued", c, Reserve(c))
      BY <2>3 DEF RequestRollback
    <3>3. /\ cmd' \in Rows
          /\ status' \in [Change -> ChangeStatus]
          /\ lock' \in [Server -> Change \cup {NoChange}]
      BY <3>1, <3>2, LocksTyped, AdvanceToTyped
    <3>4. UNCHANGED <<version, capability, removal, migrated>>
      BY <2>3 DEF RequestRollback
    <3> QED
      BY <3>3, <3>4 DEF TypeOK, Rows
  <2>4. CASE Accept(c)
    BY <2>4, LocksTyped DEF Accept, TypeOK, ChangeStatus
  <2> QED
    BY <1>4, <2>1, <2>2, <2>3, <2>4 DEF ChangeStep
<1>5. ASSUME NEW s \in Server, ServerStep(s) PROVE TypeOK'
  <2>1. ASSUME NEW capable \in BOOLEAN, RegisterAgent(s, capable) PROVE TypeOK'
    <3>1. cmd' \in Rows
      <4>1. SyncChain[s] \in SUBSET Chain /\ cmd \in Rows
        BY ConstantsAssumption DEF TypeOK, Rows
      <4> QED
        BY <2>1, <4>1, QueueOnceTyped DEF RegisterAgent
    <3> QED
      BY <2>1, <3>1 DEF RegisterAgent, TypeOK, Rows
  <2>2. ASSUME NEW next \in {"pending", "stalled", "done"}, RemovalPass(s, next) PROVE TypeOK'
    <3>1. cmd' \in Rows
      BY <2>2, RetireTyped DEF RemovalPass
    <3> QED
      BY <2>2, <3>1 DEF RemovalPass, TypeOK, Rows
  <2>3. CASE BeginNodeRemoval(s)
    BY <2>2, <2>3 DEF BeginNodeRemoval
  <2>4. CASE AdvanceNodeRemoval(s)
    <3>1. CASE \E next \in {"pending", "stalled", "done"} : RemovalPass(s, next)
      BY <2>2, <3>1
    <3>2. CASE removal' = [removal EXCEPT ![s] = "pending"] /\ UNCHANGED <<cmd, status, version, lock, capability, migrated>>
      BY <3>2 DEF TypeOK
    <3> QED
      BY <2>4, <3>1, <3>2 DEF AdvanceNodeRemoval
  <2> QED
    BY <1>5, <2>1, <2>3, <2>4 DEF ServerStep
<1>6. CASE UNCHANGED vars
  BY <1>6 DEF vars, TypeOK
<1> QED
  BY <1>1, <1>2, <1>3, <1>4, <1>5, <1>6 DEF Next

\* Type correctness of the store, for any set of servers, change sets and chains.
THEOREM TypeCorrect == Spec => []TypeOK
BY InitTyped, NextTyped, PTL DEF Spec

(***************************************************************************)
(* Reservations.  The inductive invariant joins the three exclusion         *)
(* properties with the facts they lean on: nothing is reserved before the   *)
(* legacy migration, after it every plan is coordinated, and only legacy    *)
(* change sets await review.                                                *)
(***************************************************************************)
UnreservedBeforeStart == ~migrated => \A s \in Server : lock[s] = NoChange
PlannedIsCoordinated == migrated => \A c \in Change : status[c] = "planned" => version[c] = 1
ReviewIsLegacy == \A c \in Change : status[c] = "needs_review" => version[c] = 0

ReservationInv ==
    /\ TypeOK
    /\ ReservationsMatchStatus
    /\ RemovalExcludesChange
    /\ ReviewExcludesReservation
    /\ UnreservedBeforeStart
    /\ PlannedIsCoordinated
    /\ ReviewIsLegacy

\* A change set targets servers.
LEMMA TargetsTyped == \A c \in Change : Targets(c) \subseteq Server
<1> SUFFICES ASSUME NEW c \in Change, NEW i \in Steps(c) PROVE StepServer[c][i] \in Server
  BY DEF Targets
<1>1. StepServer[c] \in Seq(Server) /\ i \in 1 .. Len(StepServer[c])
  BY ConstantsAssumption DEF Steps
<1> QED
  BY <1>1

\* The statuses advance() can produce.
LEMMA AdvanceStatus ==
    ASSUME NEW m, NEW c, NEW st
    PROVE  /\ st \notin {"dispatched", "rollback_queued"} => Advance(m, st, c).status = st
           /\ st = "rollback_queued" => Advance(m, st, c).status \in
                {"rollback_queued", "rollback_failed", "rollback_incomplete", "rolled_back"}
           /\ st = "dispatched" => Advance(m, st, c).status \in
                {"dispatched", "failed", "succeeded",
                 "rollback_queued", "rollback_failed", "rollback_incomplete", "rolled_back"}
BY DEF Advance, ForwardOutcome, RollbackOutcome

\* advance() on a coordinated change set keeps its own reservations while it
\* holds and gives all of them back when it settles.
LEMMA AdvanceKeepsReservations ==
    ASSUME ReservationInv, NEW m \in Rows, NEW c \in Change, version[c] = 1,
           AdvanceTo(m, status[c], c, lock),
           UNCHANGED <<version, capability, removal, migrated>>
    PROVE  /\ ReservationsMatchStatus' /\ RemovalExcludesChange'
           /\ ReviewExcludesReservation' /\ UnreservedBeforeStart'
           /\ PlannedIsCoordinated' /\ ReviewIsLegacy'
<1> DEFINE st == Advance(m, status[c], c).status
<1>1. /\ status' = [status EXCEPT ![c] = st]
      /\ lock' = IF st \in {"succeeded", "rolled_back"} THEN Release(c) ELSE lock
  BY DEF AdvanceTo
<1>2. /\ status[c] \notin {"dispatched", "rollback_queued"} => st = status[c]
      /\ status[c] \in {"dispatched", "rollback_queued"} => st \in Holding \cup {"succeeded", "rolled_back"}
  BY AdvanceStatus DEF Holding
<1>3. status[c] # "needs_review" /\ st # "needs_review"
  BY <1>2 DEF ReservationInv, ReviewIsLegacy, Holding
<1> HIDE DEF st
<1>4. ReservationsMatchStatus'
  <2>1. CASE st \in {"succeeded", "rolled_back"}
    <3>1. status' = [status EXCEPT ![c] = st] /\ lock' = Release(c) /\ st \notin Holding
      BY <1>1, <2>1 DEF Holding
    <3>2. NoChange \notin Change
      BY ConstantsAssumption
    <3> QED
      BY <3>1, <3>2, TargetsTyped DEF ReservationInv, ReservationsMatchStatus, TypeOK, Release
  <2>2. CASE st \notin {"succeeded", "rolled_back"}
    <3>1. status' = [status EXCEPT ![c] = st] /\ lock' = lock
      BY <1>1, <2>2
    <3>2. st \in Holding <=> status[c] \in Holding
      BY <1>2, <2>2 DEF Holding
    <3> QED
      BY <3>1, <3>2 DEF ReservationInv, ReservationsMatchStatus, TypeOK
  <2> QED
    BY <2>1, <2>2
<1>5. \A s \in Server : lock[s] = NoChange => lock'[s] = NoChange
  BY <1>1 DEF Release, ReservationInv, TypeOK
<1>6. \A s \in Server : AwaitingReview(s)' = AwaitingReview(s)
  BY <1>1, <1>3 DEF AwaitingReview, ReservationInv, TypeOK
<1> QED
  BY <1>1, <1>3, <1>4, <1>5, <1>6
  DEF ReservationInv, RemovalExcludesChange, RemovalPending, ReviewExcludesReservation, UnreservedBeforeStart,
      PlannedIsCoordinated, ReviewIsLegacy, TypeOK

\* A rollback request re-reserves the targets (a succeeded change set gave them
\* back) without taking one from anybody else.
LEMMA RollbackKeepsReservations ==
    ASSUME ReservationInv, migrated, NEW c \in Change, RequestRollback(c)
    PROVE  /\ ReservationsMatchStatus' /\ RemovalExcludesChange'
           /\ ReviewExcludesReservation' /\ UnreservedBeforeStart'
           /\ PlannedIsCoordinated' /\ ReviewIsLegacy'
<1> DEFINE st == Advance(RetryRows(c), "rollback_queued", c).status
<1>1. /\ status' = [status EXCEPT ![c] = st]
      /\ lock' = IF st \in {"succeeded", "rolled_back"} THEN Release(c) ELSE Reserve(c)
      /\ version[c] = 1 /\ CanReserve(c)
      /\ UNCHANGED <<version, capability, removal, migrated>>
  BY DEF RequestRollback, AdvanceTo
<1>2. st \in {"rollback_queued", "rollback_failed", "rollback_incomplete", "rolled_back"}
  BY AdvanceStatus
<1>3. status[c] # "needs_review" /\ st # "needs_review"
  BY <1>1, <1>2 DEF ReservationInv, ReviewIsLegacy
<1>4. NoChange \notin Change
  BY ConstantsAssumption
<1>5. \A s \in Server : AwaitingReview(s)' = AwaitingReview(s)
  BY <1>1, <1>3 DEF AwaitingReview, ReservationInv, TypeOK
<1>6. ReviewIsLegacy' /\ UnreservedBeforeStart' /\ PlannedIsCoordinated'
  BY <1>1, <1>3 DEF ReviewIsLegacy, UnreservedBeforeStart, PlannedIsCoordinated, ReservationInv, TypeOK
<1> HIDE DEF st
<1>7. CASE st = "rolled_back"
  <2>1. lock' = Release(c) /\ st \notin Holding
    BY <1>1, <1>7 DEF Holding
  <2>2. ReservationsMatchStatus'
    BY <1>1, <1>4, <2>1, TargetsTyped DEF ReservationInv, ReservationsMatchStatus, TypeOK, Release
  <2>3. RemovalExcludesChange' /\ ReviewExcludesReservation'
    BY <1>1, <1>5, <2>1
    DEF RemovalExcludesChange, RemovalPending, ReviewExcludesReservation, ReservationInv, Release, TypeOK
  <2> QED
    BY <1>6, <2>2, <2>3
<1>8. CASE st # "rolled_back"
  <2>1. lock' = Reserve(c) /\ st \in Holding
    BY <1>1, <1>2, <1>8 DEF Holding
  <2>2. \A s \in Targets(c) : lock[s] \in {NoChange, c} /\ ~RemovalPending(s) /\ AwaitingReview(s) = {}
    BY <1>1, <1>3 DEF CanReserve, AwaitingReview
  <2>3. ReservationsMatchStatus'
    BY <1>1, <1>4, <2>1, <2>2, TargetsTyped DEF ReservationInv, ReservationsMatchStatus, TypeOK, Reserve
  <2>4. RemovalExcludesChange' /\ ReviewExcludesReservation'
    BY <1>1, <1>5, <2>1, <2>2
    DEF RemovalExcludesChange, RemovalPending, ReviewExcludesReservation, ReservationInv, Reserve, TypeOK
  <2> QED
    BY <1>6, <2>3, <2>4
<1> QED
  BY <1>7, <1>8

\* Dispatch reserves every target of a planned change set or fails.
LEMMA DispatchKeepsReservations ==
    ASSUME ReservationInv, migrated, NEW c \in Change, Dispatch(c)
    PROVE  /\ ReservationsMatchStatus' /\ RemovalExcludesChange'
           /\ ReviewExcludesReservation' /\ UnreservedBeforeStart'
           /\ PlannedIsCoordinated' /\ ReviewIsLegacy'
<1>1. /\ status' = [status EXCEPT ![c] = "dispatched"] /\ status[c] = "planned"
      /\ lock' = Reserve(c) /\ CanReserve(c)
      /\ UNCHANGED <<version, capability, removal, migrated>>
      /\ version[c] = 1
  BY DEF Dispatch, ReservationInv, PlannedIsCoordinated
<1>2. \A s \in Targets(c) : lock[s] \in {NoChange, c} /\ ~RemovalPending(s) /\ AwaitingReview(s) = {}
  BY <1>1 DEF CanReserve, AwaitingReview
<1>3. \A s \in Server : AwaitingReview(s)' = AwaitingReview(s)
  BY <1>1 DEF AwaitingReview, ReservationInv, TypeOK
<1>4. NoChange \notin Change /\ "dispatched" \in Holding
  BY ConstantsAssumption DEF Holding
<1>5. ReservationsMatchStatus'
  BY <1>1, <1>2, <1>4, TargetsTyped DEF ReservationInv, ReservationsMatchStatus, TypeOK, Reserve
<1>6. RemovalExcludesChange' /\ ReviewExcludesReservation'
  BY <1>1, <1>2, <1>3
  DEF RemovalExcludesChange, RemovalPending, ReviewExcludesReservation, ReservationInv, Reserve, TypeOK
<1>7. ReviewIsLegacy' /\ UnreservedBeforeStart' /\ PlannedIsCoordinated'
  BY <1>1 DEF ReviewIsLegacy, UnreservedBeforeStart, PlannedIsCoordinated, ReservationInv, TypeOK
<1> QED
  BY <1>5, <1>6, <1>7

\* The reservation invariant holds in a fresh store.
LEMMA ReservationInit == Init => ReservationInv
<1> SUFFICES ASSUME Init PROVE ReservationInv
  OBVIOUS
<1>1. TypeOK
  BY InitTyped
<1>2. /\ lock = [s \in Server |-> NoChange] /\ migrated = FALSE
      /\ \A c \in Change : status[c] \in {"planned", "dispatched", "rollback_queued"}
      /\ \A c \in Change : version[c] = 1 => c \notin Legacy
      /\ \A c \in Change : c \notin Legacy => status[c] = "planned"
  BY DEF Init
<1>3. ReservationsMatchStatus
  BY <1>2 DEF ReservationsMatchStatus, Holding
<1> QED
  BY <1>1, <1>2, <1>3
  DEF ReservationInv, RemovalExcludesChange, RemovalPending, ReviewExcludesReservation, UnreservedBeforeStart,
      PlannedIsCoordinated, ReviewIsLegacy

\* Every transaction keeps the reservation invariant.
LEMMA ReservationStep == ReservationInv /\ [Next]_vars => ReservationInv'
<1> SUFFICES ASSUME ReservationInv, [Next]_vars PROVE ReservationInv'
  OBVIOUS
<1> DEFINE Kept == /\ ReservationsMatchStatus' /\ RemovalExcludesChange'
                   /\ ReviewExcludesReservation' /\ UnreservedBeforeStart'
                   /\ PlannedIsCoordinated' /\ ReviewIsLegacy'
<1>0. TypeOK /\ TypeOK'
  BY NextTyped DEF ReservationInv
<1> SUFFICES Kept
  BY <1>0 DEF ReservationInv
\* A step that touches neither statuses, reservations nor removals keeps all.
<1>1. ASSUME UNCHANGED <<status, version, lock, removal, migrated>> PROVE Kept
  BY <1>1 DEF ReservationInv, ReservationsMatchStatus, RemovalExcludesChange, RemovalPending,
     ReviewExcludesReservation, AwaitingReview, UnreservedBeforeStart, PlannedIsCoordinated, ReviewIsLegacy
<1>2. CASE MigrateLegacy
  <2>1. \A s \in Server : lock[s] = NoChange /\ lock'[s] = NoChange
    BY <1>2 DEF MigrateLegacy, ReservationInv, UnreservedBeforeStart
  <2>2. ReservationsMatchStatus'
    <3>1. ASSUME NEW c \in Change, version'[c] = 1, status'[c] \in Holding
          PROVE  \A s \in Targets(c) : lock'[s] = c
      <4>1. version[c] = 1 /\ status[c] \in Holding /\ status[c] # "planned"
        BY <1>0, <1>2, <3>1 DEF MigrateLegacy, TypeOK, Holding
      <4> QED
        BY <1>2, <4>1 DEF MigrateLegacy, ReservationInv, ReservationsMatchStatus
    <3> QED
      BY <2>1, <3>1 DEF ReservationsMatchStatus
  <2>3. RemovalExcludesChange' /\ ReviewExcludesReservation' /\ UnreservedBeforeStart'
    BY <2>1 DEF RemovalExcludesChange, RemovalPending, ReviewExcludesReservation, UnreservedBeforeStart
  <2>4. PlannedIsCoordinated' /\ ReviewIsLegacy'
    BY <1>0, <1>2 DEF MigrateLegacy, ReservationInv, PlannedIsCoordinated, ReviewIsLegacy, TypeOK
  <2> QED
    BY <2>2, <2>3, <2>4
<1>3. ASSUME NEW q \in Chain, CreateSequence(q) PROVE Kept
  BY <1>1, <1>3 DEF CreateSequence
<1>4. ASSUME NEW k \in Command, CommandStep(k) PROVE Kept
  <2>1. UNCHANGED <<version, capability, removal, migrated>>
    BY <1>0, <1>4, CommandCases
  <2>2. CASE LeaseStep(k)
    BY <1>1, <2>1, <2>2 DEF LeaseStep
  <2>3. CASE EndStep(k)
    <3>1. PICK m \in Rows : AfterResult(m, k)
      BY <1>0, <2>3, EndedTyped DEF EndStep
    <3>2. CASE k \in OwnedCommand /\ version[k[2]] = 1
      <4>1. k[2] \in Change
        BY <3>2, OwnerOf
      <4>2. AdvanceTo(m, status[k[2]], k[2], lock)
        BY <3>1, <3>2 DEF AfterResult
      <4> QED
        BY <2>1, <3>2, <4>1, <4>2, AdvanceKeepsReservations
    <3>3. CASE ~(k \in OwnedCommand /\ version[k[2]] = 1)
      <4>1. UNCHANGED <<status, lock>>
        BY <3>1, <3>3 DEF AfterResult
      <4> QED
        BY <1>1, <2>1, <4>1
    <3> QED
      BY <3>2, <3>3
  <2> QED
    BY <1>0, <1>4, <2>2, <2>3, CommandCases
<1>5. ASSUME migrated, NEW c \in Change, ChangeStep(c) PROVE Kept
  <2>1. CASE Dispatch(c)
    BY <1>5, <2>1, DispatchKeepsReservations
  <2>2. CASE RequestRollback(c)
    BY <1>5, <2>2, RollbackKeepsReservations
  <2>3. CASE CancelPlan(c)
    <3>1. /\ status' = [status EXCEPT ![c] = "cancelled"] /\ status[c] = "planned"
          /\ UNCHANGED <<version, lock, removal, migrated>>
      BY <2>3 DEF CancelPlan
    <3>2. "planned" \notin Holding /\ "cancelled" \notin Holding
      BY DEF Holding
    <3>3. ReservationsMatchStatus'
      BY <1>0, <3>1, <3>2 DEF ReservationInv, ReservationsMatchStatus, TypeOK
    <3> QED
      BY <1>0, <3>1, <3>3 DEF ReservationInv, RemovalExcludesChange, RemovalPending, ReviewExcludesReservation,
         AwaitingReview, UnreservedBeforeStart, PlannedIsCoordinated, ReviewIsLegacy, TypeOK
  <2>4. CASE Accept(c)
    <3>1. /\ status' = [status EXCEPT ![c] = "accepted"] /\ lock' = Release(c)
          /\ UNCHANGED <<version, removal, migrated>>
      BY <2>4 DEF Accept
    <3>2. "accepted" \notin Holding /\ NoChange \notin Change
      BY ConstantsAssumption DEF Holding
    <3>3. ReservationsMatchStatus'
      BY <1>0, <3>1, <3>2, TargetsTyped DEF ReservationInv, ReservationsMatchStatus, TypeOK, Release
    <3>4. \A s \in Server : lock[s] = NoChange => lock'[s] = NoChange
      BY <1>0, <3>1 DEF Release, TypeOK
    <3>5. \A s \in Server : AwaitingReview(s)' \subseteq AwaitingReview(s)
      BY <1>0, <3>1 DEF AwaitingReview, TypeOK
    <3> QED
      BY <1>0, <3>1, <3>3, <3>4, <3>5 DEF ReservationInv, RemovalExcludesChange, RemovalPending,
         ReviewExcludesReservation, UnreservedBeforeStart, PlannedIsCoordinated, ReviewIsLegacy, TypeOK
  <2> QED
    BY <1>5, <2>1, <2>2, <2>3, <2>4 DEF ChangeStep
<1>6. ASSUME NEW s \in Server, ServerStep(s) PROVE Kept
  <2>1. ASSUME NEW capable \in BOOLEAN, RegisterAgent(s, capable) PROVE Kept
    BY <1>1, <2>1 DEF RegisterAgent
\* A removal step leaves statuses and reservations alone, and where a removal is
\* pending after it, it was before, or nothing was reserved.
  <2>2. CASE BeginNodeRemoval(s) \/ AdvanceNodeRemoval(s)
    <3>1. UNCHANGED <<status, version, lock, migrated>>
      BY <2>2 DEF BeginNodeRemoval, AdvanceNodeRemoval, RemovalPass
    <3>2. /\ \A x \in Server : x # s => removal'[x] = removal[x]
          /\ RemovalPending(s) \/ lock[s] = NoChange
      BY <1>0, <2>2 DEF BeginNodeRemoval, AdvanceNodeRemoval, RemovalPass, TypeOK
    <3>3. RemovalExcludesChange'
      BY <3>1, <3>2 DEF ReservationInv, RemovalExcludesChange, RemovalPending
    <3> QED
      BY <3>1, <3>3 DEF ReservationInv, ReservationsMatchStatus, ReviewExcludesReservation,
         AwaitingReview, UnreservedBeforeStart, PlannedIsCoordinated, ReviewIsLegacy
  <2> QED
    BY <1>6, <2>1, <2>2 DEF ServerStep
<1>7. CASE UNCHANGED vars
  BY <1>1, <1>7 DEF vars
<1> QED
  BY <1>2, <1>3, <1>4, <1>5, <1>6, <1>7 DEF Next

\* Reservations are all-or-nothing, never leak and never overlap, whatever the
\* order of dispatches, results, rollbacks, retries and acceptances.
THEOREM ReservationsSafe == Spec => []ReservationsMatchStatus
<1>1. ReservationInv => ReservationsMatchStatus
  BY DEF ReservationInv
<1> QED
  BY <1>1, ReservationInit, ReservationStep, PTL DEF Spec

\* A node removal and a change set never own the same server, and no coordinated
\* change set starts on a server whose legacy change set awaits review.
THEOREM ExclusionSafe == Spec => [](RemovalExcludesChange /\ ReviewExcludesReservation)
<1>1. ReservationInv => RemovalExcludesChange /\ ReviewExcludesReservation
  BY DEF ReservationInv
<1> QED
  BY <1>1, ReservationInit, ReservationStep, PTL DEF Spec

(***************************************************************************)
(* Compensation starts only after every forward command has ended.  Sound   *)
(* states, for rows m and a status st of change set c, what the invariant    *)
(* says of c, so that it can follow advance() inside a transaction.          *)
(***************************************************************************)
Sound(m, st, c) ==
    /\ st \in {"planned", "cancelled"} => \A k \in Owned(c) : m[k].status = "absent"
    /\ st \notin {"planned", "cancelled"} => \A k \in Forwards(c) : m[k].status # "absent"
    /\ st = "dispatched" => \A k \in Rollbacks(c) : m[k].status = "absent"
    /\ \A k \in Rollbacks(c), f \in Forwards(c) :
            m[k].status # "absent" => m[f].status \in Terminal

\* A leased command has been attempted.
LeasedIsSent(m) == \A k \in Command : m[k].status = "leased" => m[k].sent = TRUE

\* A change set an earlier release had started.
Inherited(c) == version[c] = 0 /\ status[c] # "planned"

CompensationInv ==
    /\ TypeOK
    /\ LeasedIsSent(cmd)
    /\ \A c \in Change : Inherited(c) \/ Sound(cmd, status[c], c)

\* Rows n that keep every absent row absent, every other one present and every
\* terminal one terminal keep a change set sound.
Follows(m, n, ks) ==
    \A k \in ks : /\ n[k].status = "absent" <=> m[k].status = "absent"
                  /\ m[k].status \in Terminal => n[k].status \in Terminal

\* A change set stays sound when its rows follow sound ones.
LEMMA FollowsSound ==
    ASSUME NEW m, NEW n, NEW c \in Change, NEW st, Sound(m, st, c), Follows(m, n, Owned(c))
    PROVE  Sound(n, st, c)
BY DEF Sound, Follows, Owned

\* What skipping, releasing and creating a row does to its status.
LEMMA RowStatuses ==
    /\ \A r \in Row : /\ Skip(r).status = "skipped" /\ Skip(r).sent = r.sent
                      /\ Ready(r).status = "pending" /\ Ready(r).sent = r.sent
                      /\ r.status \in CommandStatus /\ r.sent \in BOOLEAN
    /\ Absent.status = "absent"
    /\ \A st \in CommandStatus : NewRow(st).status = st
BY DEF Skip, Ready, Update, Row, Absent, NewRow

\* A result ends its command and readies or skips waiting ones, nothing else.
LEMMA FinishFollows ==
    ASSUME TypeOK, LeasedIsSent(cmd), NEW k \in Command, NEW row \in Row,
           row.status \in Terminal, cmd[k].status \in {"pending", "leased"}
    PROVE  Follows(cmd, Finish(k, row), Command) /\ LeasedIsSent(Finish(k, row))
<1> DEFINE n == Finish(k, row)
           base == [cmd EXCEPT ![k] = row]
<1>1. base \in Rows /\ base[k] = row /\ \A x \in Command : x # k => base[x] = cmd[x]
  BY DEF TypeOK, Rows
<1>2. ASSUME NEW x \in Command
      PROVE  n[x] = base[x] \/ (base[x].status = "waiting" /\ n[x] \in {Skip(base[x]), Ready(base[x])})
  BY DEF Finish, AdvanceDependents
<1>3. ASSUME NEW x \in Command
      PROVE  \/ n[x] = base[x]
             \/ /\ base[x].status = "waiting" /\ n[x].status \in {"skipped", "pending"}
                /\ n[x].sent = base[x].sent
  <2>1. base[x] \in Row
    BY <1>1 DEF Rows
  <2> QED
    BY <1>2, <2>1, RowStatuses
<1> HIDE DEF n, base
<1>4. ASSUME NEW x \in Command
      PROVE  /\ n[x].status = "absent" <=> cmd[x].status = "absent"
             /\ cmd[x].status \in Terminal => n[x].status \in Terminal
             /\ n[x].status = "leased" => n[x].sent = TRUE
  <2>1. CASE x = k
    BY <1>1, <1>3, <2>1 DEF Terminal
  <2>2. CASE x # k
    BY <1>1, <1>3, <2>2 DEF Terminal, LeasedIsSent
  <2> QED
    BY <2>1, <2>2
<1> QED
  BY <1>4 DEF Follows, LeasedIsSent, n

\* Queueing ordinary chains touches no coordinated row.
LEMMA NewChainFollows ==
    ASSUME NEW m \in Rows, LeasedIsSent(m), NEW q \in Chain
    PROVE  LeasedIsSent(NewChain(m, q)) /\ \A x \in OwnedCommand : NewChain(m, q)[x] = m[x]
<1>1. \A x \in OwnedCommand : x \in Command /\ x \notin Commands(q)
  BY CommandSets, Disjoint, OwnerOf
<1>2. "pending" \in CommandStatus /\ "waiting" \in CommandStatus
  BY DEF CommandStatus
<1> QED
  BY <1>1, <1>2, RowStatuses DEF NewChain, LeasedIsSent

\* Sequences the store queues by itself touch no change set.
LEMMA QueueOnceFollows ==
    ASSUME NEW m \in Rows, LeasedIsSent(m), NEW pool \in SUBSET Chain, NEW n \in QueueOnce(m, pool)
    PROVE  LeasedIsSent(n) /\ \A x \in OwnedCommand : n[x] = m[x]
BY NewChainFollows DEF QueueOnce

\* stop_unsent() ends what was never sent and nothing else.
LEMMA StopUnsentFollows ==
    ASSUME NEW m \in Rows, LeasedIsSent(m), NEW c \in Change
    PROVE  /\ Follows(m, StopUnsent(m, c), Command)
           /\ LeasedIsSent(StopUnsent(m, c))
           /\ \A x \in Command \ Owned(c) : StopUnsent(m, c)[x] = m[x]
           /\ \A f \in Forwards(c) : ~Unsent(StopUnsent(m, c)[f])
<1> DEFINE n == StopUnsent(m, c)
<1>1. ASSUME NEW x \in Command
      PROVE  \/ n[x] = m[x] /\ ~(x \in Forwards(c) /\ Unsent(m[x]))
             \/ /\ x \in Forwards(c) /\ Unsent(m[x])
                /\ n[x].status = "skipped" /\ n[x].sent = m[x].sent
  BY RowStatuses DEF StopUnsent, Rows
<1> HIDE DEF n
<1>2. ASSUME NEW x \in Command
      PROVE  /\ n[x].status = "absent" <=> m[x].status = "absent"
             /\ m[x].status \in Terminal => n[x].status \in Terminal
             /\ n[x].status = "leased" => n[x].sent = TRUE
             /\ x \in Forwards(c) => ~Unsent(n[x])
  BY <1>1 DEF Unsent, Terminal, LeasedIsSent
<1>3. \A x \in Command \ Owned(c) : n[x] = m[x]
  BY <1>1 DEF Owned
<1> QED
  BY <1>2, <1>3, CommandSets DEF n, Follows, LeasedIsSent

\* The rows advance() creates belong to compensators; all else stays.
LEMMA CompensateKeeps ==
    ASSUME NEW m \in Rows, LeasedIsSent(m), NEW c \in Change
    PROVE  /\ \A x \in Command \ Rollbacks(c) : Compensate(m, c)[x] = m[x]
           /\ LeasedIsSent(Compensate(m, c))
<1> DEFINE n == Compensate(m, c)
           new == RollbackCreations(m, c, FALSE)
<1>1. new \subseteq Rollbacks(c)
  BY DEF RollbackCreations, Rollbacks, Compensable
<1>2. \A x \in Command \ Rollbacks(c) : n[x] = m[x]
  BY <1>1 DEF Compensate
<1>3. ASSUME NEW x \in Command
      PROVE  n[x] = m[x] \/ n[x].status \in {"skipped", "pending", "waiting"}
  <2>1. m[x] \in Row /\ Absent \in Row
    BY RowTypes DEF Rows
  <2>2. "pending" \in CommandStatus /\ "waiting" \in CommandStatus
    BY DEF CommandStatus
  <2>3. /\ Skip(m[x]).status = "skipped" /\ Skip(Absent).status = "skipped"
        /\ NewRow("pending").status = "pending" /\ NewRow("waiting").status = "waiting"
    BY <2>1, <2>2, RowStatuses
  <2> QED
    BY <2>3 DEF Compensate
<1> HIDE DEF n
<1>4. LeasedIsSent(n)
  BY <1>3 DEF LeasedIsSent
<1> QED
  BY <1>2, <1>4 DEF n

\* advance() keeps its own change set sound and leaves all other rows alone.
LEMMA AdvanceSound ==
    ASSUME NEW m \in Rows, LeasedIsSent(m), NEW c \in Change, NEW st \in ChangeStatus,
           Sound(m, st, c)
    PROVE  /\ LeasedIsSent(Advance(m, st, c).cmd)
           /\ \A x \in Command \ Owned(c) : Advance(m, st, c).cmd[x] = m[x]
           /\ Sound(Advance(m, st, c).cmd, Advance(m, st, c).status, c)
<1> DEFINE n == Advance(m, st, c)
           st1 == ForwardOutcome(m, st, c)
           m1 == IF st1 = "rollback_queued" \/ (st = "dispatched" /\ st1 = "failed")
                 THEN StopUnsent(m, c) ELSE m
\* The forward half of advance().
<1>1. /\ m1 \in Rows /\ LeasedIsSent(m1) /\ Follows(m, m1, Command)
      /\ \A x \in Command \ Owned(c) : m1[x] = m[x]
  <2>1. Follows(m, m, Command)
    BY DEF Follows
  <2> QED
    BY <2>1, StopUnsentFollows, StopUnsentTyped
<1>2. /\ st1 \in {"planned", "cancelled"} => st = st1
      /\ st \in {"planned", "cancelled"} => st = st1
      /\ st1 = "dispatched" => st = "dispatched"
  BY DEF ForwardOutcome
<1>3. Sound(m1, st1, c)
  <2>1. Follows(m, m1, Owned(c))
    BY <1>1, CommandSets DEF Follows, Owned
  <2>2. Sound(m1, st, c)
    BY <2>1, FollowsSound
  <2> HIDE DEF m1, st1
  <2> QED
    BY <1>2, <2>2 DEF Sound
<1>4. n = IF st1 # "rollback_queued" \/ \E k \in Forwards(c) : InFlight(m1[k])
          THEN [cmd |-> m1, status |-> st1]
          ELSE [cmd |-> Compensate(m1, c), status |-> RollbackOutcome(Compensate(m1, c), c)]
  BY DEF Advance
<1>5. CASE st1 # "rollback_queued" \/ \E k \in Forwards(c) : InFlight(m1[k])
  <2>1. n.cmd = m1 /\ n.status = st1
    BY <1>4, <1>5
  <2> HIDE DEF n, m1, st1
  <2>2. LeasedIsSent(n.cmd) /\ Sound(n.cmd, n.status, c)
        /\ \A x \in Command \ Owned(c) : n.cmd[x] = m[x]
    BY <1>1, <1>3, <2>1
  <2> QED
    BY <2>2 DEF n
<1>6. CASE ~(st1 # "rollback_queued" \/ \E k \in Forwards(c) : InFlight(m1[k]))
  <2>1. n.cmd = Compensate(m1, c) /\ n.status = RollbackOutcome(Compensate(m1, c), c)
    BY <1>4, <1>6
  <2>2. st1 = "rollback_queued" /\ \A f \in Forwards(c) : ~InFlight(m1[f])
    BY <1>6
  <2>3. \A f \in Forwards(c) : ~Unsent(m1[f])
    <3>1. m1 = StopUnsent(m, c)
      BY <2>2
    <3> QED
      BY <3>1, StopUnsentFollows
  <2> HIDE DEF n, m1, st1
  <2>4. ASSUME NEW f \in Forwards(c) PROVE m1[f].status \in Terminal
    <3>1. f \in Command /\ m1[f] \in Row /\ m1[f].status \in CommandStatus
      BY <1>1, CommandSets, RowStatuses DEF Rows
    <3>2. m1[f].status # "absent"
      BY <1>3, <2>2 DEF Sound
    <3>3. m1[f].status # "leased"
      BY <1>1, <2>2, <3>1 DEF LeasedIsSent, InFlight
    <3>4. m1[f].status \notin {"waiting", "pending"}
      BY <2>2, <2>3 DEF InFlight, Unsent
    <3> QED
      BY <3>1, <3>2, <3>3, <3>4 DEF CommandStatus, Terminal
  <2>5. \A f \in Forwards(c) : n.cmd[f] = m1[f] /\ n.cmd[f].status \in Terminal
    BY <1>1, <2>1, <2>4, CompensateKeeps, CommandSets, Disjoint
  <2>6. n.status \notin {"planned", "cancelled", "dispatched"}
    BY <2>1 DEF RollbackOutcome
  <2>7. Sound(n.cmd, n.status, c)
    BY <2>5, <2>6 DEF Sound, Terminal
  <2>8. LeasedIsSent(n.cmd) /\ \A x \in Command \ Owned(c) : n.cmd[x] = m[x]
    BY <1>1, <2>1, CompensateKeeps DEF Owned
  <2> QED
    BY <2>7, <2>8 DEF n
<1> QED
  BY <1>5, <1>6

\* Rows that agree on the commands of a change set agree on its soundness.
LEMMA SameSound ==
    ASSUME NEW m, NEW n, NEW c \in Change, NEW st, Sound(m, st, c),
           \A x \in Owned(c) : n[x] = m[x]
    PROVE  Sound(n, st, c)
BY FollowsSound DEF Follows

\* Initially a plan has no rows, and what has rows an earlier release had started.
LEMMA CompensationInit == Init => CompensationInv
<1> SUFFICES ASSUME Init PROVE CompensationInv
  OBVIOUS
<1>1. LeasedIsSent(cmd)
  BY InitRows, LegacyRowTyped, RowStatuses DEF LeasedIsSent
<1>2. ASSUME NEW c \in Change, ~Inherited(c) PROVE Sound(cmd, status[c], c)
  <2>1. status[c] = "planned"
    BY <1>2 DEF Inherited, Init
  <2>2. \A x \in Owned(c) : cmd[x].status = "absent"
    BY <2>1, InitRows, RowStatuses
  <2> QED
    BY <2>1, <2>2 DEF Sound, Owned
<1> QED
  BY <1>1, <1>2, InitTyped DEF CompensationInv

\* An inherited change set stays one: nothing coordinates it and nothing plans it again.
LEMMA InheritedStays ==
    ASSUME TypeOK, [Next]_vars, NEW c \in Change, Inherited(c)
    PROVE  Inherited(c)'
<1> SUFFICES version'[c] = 0 /\ status'[c] # "planned"
  BY DEF Inherited
<1>0. version[c] = 0 /\ status[c] # "planned"
  BY DEF Inherited
<1>1. CASE MigrateLegacy
  BY <1>0, <1>1 DEF MigrateLegacy, TypeOK
<1>2. ASSUME NEW k \in Command, CommandStep(k) PROVE version' = version /\ status'[c] = status[c]
  <2>1. version' = version /\ (EndStep(k) \/ LeaseStep(k))
    BY <1>2, CommandCases
  <2> QED
    BY <1>0, <2>1, OwnerOf DEF EndStep, AfterResult, AdvanceTo, LeaseStep, TypeOK
<1>3. ASSUME NEW d \in Change, ChangeStep(d)
      PROVE  version' = version /\ status'[c] \in {status[c], "accepted"}
  <2>1. CASE Dispatch(d)
    BY <1>0, <2>1 DEF Dispatch, TypeOK
  <2>2. CASE CancelPlan(d)
    BY <1>0, <2>2 DEF CancelPlan, TypeOK
  <2>3. CASE RequestRollback(d)
    BY <1>0, <2>3 DEF RequestRollback, AdvanceTo, TypeOK
  <2>4. CASE Accept(d)
    BY <1>0, <2>4 DEF Accept, TypeOK
  <2> QED
    BY <1>3, <2>1, <2>2, <2>3, <2>4 DEF ChangeStep
<1>4. ASSUME NEW s \in Server, ServerStep(s) PROVE UNCHANGED <<version, status>>
  BY <1>4 DEF ServerStep, RegisterAgent, BeginNodeRemoval, AdvanceNodeRemoval, RemovalPass
<1>5. ASSUME NEW q \in Chain, CreateSequence(q) PROVE UNCHANGED <<version, status>>
  BY <1>5 DEF CreateSequence
<1>6. CASE UNCHANGED vars
  BY <1>0, <1>6 DEF vars
<1> QED
  BY <1>0, <1>1, <1>2, <1>3, <1>4, <1>5, <1>6 DEF Next

\* The end of a command: its own change set stays sound through advance(), and
\* no other change set is touched.
LEMMA EndSound ==
    ASSUME CompensationInv, NEW k \in Command, EndStep(k)
    PROVE  LeasedIsSent(cmd') /\ \A c \in Change : Inherited(c) \/ Sound(cmd', status'[c], c)
<1>1. PICK row \in Row, pool \in SUBSET Chain :
          /\ Wrote(k, row) /\ row.status \in Terminal
          /\ \E m \in Ended(k, row, pool) : AfterResult(m, k)
  BY DEF EndStep, Wrote
<1>2. PICK m \in Ended(k, row, pool) : AfterResult(m, k)
  BY <1>1
<1>3. TypeOK /\ LeasedIsSent(cmd) /\ \A c \in Change : Inherited(c) \/ Sound(cmd, status[c], c)
  BY DEF CompensationInv
<1>4. m \in Rows /\ Finish(k, row) \in Rows
  BY <1>3, EndedTyped, FinishTyped
<1>5. Follows(cmd, Finish(k, row), Command) /\ LeasedIsSent(Finish(k, row))
  BY <1>1, <1>3, FinishFollows DEF EndStep
<1>6. LeasedIsSent(m) /\ \A x \in OwnedCommand : m[x] = Finish(k, row)[x]
  BY <1>4, <1>5, QueueOnceFollows DEF Ended
<1>7. ASSUME NEW c \in Change, ~Inherited(c) PROVE Sound(m, status[c], c)
  <2>1. Sound(Finish(k, row), status[c], c)
    BY <1>3, <1>5, <1>7, FollowsSound, CommandSets DEF Follows
  <2> QED
    BY <1>6, <2>1, SameSound, CommandSets
<1>8. CASE k \in OwnedCommand /\ version[k[2]] = 1
  <2> DEFINE c == k[2]
             n == Advance(m, status[c], c)
  <2>1. c \in Change /\ status[c] \in ChangeStatus /\ ~Inherited(c)
    BY <1>3, <1>8, OwnerOf DEF TypeOK, Inherited
  <2>2. cmd' = n.cmd /\ status' = [status EXCEPT ![c] = n.status]
    BY <1>2, <1>8 DEF AfterResult, AdvanceTo
  <2>3. /\ LeasedIsSent(n.cmd)
        /\ \A x \in Command \ Owned(c) : n.cmd[x] = m[x]
        /\ Sound(n.cmd, n.status, c)
    BY <1>4, <1>6, <1>7, <2>1, AdvanceSound
  <2> HIDE DEF n, c
  <2>4. ASSUME NEW d \in Change, d # c, ~Inherited(d) PROVE Sound(cmd', status'[d], d)
    <3>1. \A x \in Owned(d) : n.cmd[x] = m[x]
      BY <2>1, <2>3, <2>4, Disjoint, CommandSets
    <3>2. status'[d] = status[d]
      BY <1>3, <2>1, <2>2, <2>4 DEF TypeOK
    <3> QED
      BY <1>7, <2>2, <2>4, <3>1, <3>2, SameSound
  <2>5. status'[c] = n.status
    BY <1>3, <2>1, <2>2 DEF TypeOK
  <2> QED
    BY <2>2, <2>3, <2>4, <2>5
<1>9. CASE ~(k \in OwnedCommand /\ version[k[2]] = 1)
  <2>1. cmd' = m /\ status' = status
    BY <1>2, <1>9 DEF AfterResult
  <2> QED
    BY <1>6, <1>7, <2>1
<1> QED
  BY <1>8, <1>9

\* A rollback request removes at most compensators and then advances.
LEMMA RollbackSound ==
    ASSUME CompensationInv, NEW c \in Change, RequestRollback(c)
    PROVE  LeasedIsSent(cmd') /\ \A d \in Change : Inherited(d) \/ Sound(cmd', status'[d], d)
<1> DEFINE r == RetryRows(c)
           n == Advance(r, "rollback_queued", c)
<1>0. /\ TypeOK /\ LeasedIsSent(cmd) /\ \A d \in Change : Inherited(d) \/ Sound(cmd, status[d], d)
      /\ "rollback_queued" \in ChangeStatus
  BY DEF CompensationInv, ChangeStatus
<1>1. r \in Rows
  BY <1>0, RowTypes DEF RetryRows, Rows, TypeOK
<1>2. \A x \in Command : \/ r[x] = cmd[x]
                         \/ x \in Rollbacks(c) /\ r[x] = Absent
  BY DEF RetryRows
<1>3. LeasedIsSent(r)
  BY <1>0, <1>2, RowStatuses DEF LeasedIsSent
<1>4. \A x \in Command \ Owned(c) : r[x] = cmd[x]
  BY <1>2 DEF Owned
<1>5. Sound(r, "rollback_queued", c)
  <2>1. status[c] \notin {"planned", "cancelled"} /\ ~Inherited(c)
    BY DEF RequestRollback, Inherited
  <2>2. \A f \in Forwards(c) : r[f] = cmd[f]
    BY <1>2, CommandSets, Disjoint
  <2>3. \A k \in Rollbacks(c) : r[k].status # "absent" => cmd[k].status # "absent"
    BY <1>2, CommandSets, RowStatuses
  <2> QED
    BY <1>0, <2>1, <2>2, <2>3 DEF Sound
<1>6. cmd' = n.cmd /\ status' = [status EXCEPT ![c] = n.status]
  BY DEF RequestRollback, AdvanceTo
<1> HIDE DEF r
<1>7. /\ LeasedIsSent(n.cmd)
      /\ \A x \in Command \ Owned(c) : n.cmd[x] = r[x]
      /\ Sound(n.cmd, n.status, c)
  BY <1>0, <1>1, <1>3, <1>5, AdvanceSound
<1> HIDE DEF n
<1>8. ASSUME NEW d \in Change, d # c, ~Inherited(d) PROVE Sound(cmd', status'[d], d)
  <2>1. \A x \in Owned(d) : n.cmd[x] = cmd[x]
    BY <1>4, <1>7, <1>8, Disjoint, CommandSets
  <2>2. status'[d] = status[d]
    BY <1>0, <1>6, <1>8 DEF TypeOK
  <2> QED
    BY <1>0, <1>6, <1>8, <2>1, <2>2, SameSound
<1>9. status'[c] = n.status
  BY <1>0, <1>6 DEF TypeOK
<1> QED
  BY <1>6, <1>7, <1>8, <1>9

\* Every step keeps every change set sound.
LEMMA CompensationStep == CompensationInv /\ [Next]_vars => CompensationInv'
<1> SUFFICES ASSUME CompensationInv, [Next]_vars PROVE CompensationInv'
  OBVIOUS
<1> DEFINE Kept == LeasedIsSent(cmd') /\ \A c \in Change : Inherited(c) \/ Sound(cmd', status'[c], c)
<1>0. /\ TypeOK /\ TypeOK' /\ LeasedIsSent(cmd)
      /\ \A c \in Change : Inherited(c) \/ Sound(cmd, status[c], c)
      /\ cmd \in Rows
  BY NextTyped DEF CompensationInv, TypeOK, Rows
<1> SUFFICES Kept
  BY <1>0, InheritedStays DEF CompensationInv, LeasedIsSent, Sound, Inherited
\* A step that changes no coordinated row and no status.
<1>1. ASSUME LeasedIsSent(cmd'), \A x \in OwnedCommand : cmd'[x] = cmd[x], status' = status
      PROVE  Kept
  BY <1>0, <1>1, SameSound, CommandSets
<1>2. CASE MigrateLegacy
  <2>1. ASSUME NEW x \in Command
        PROVE  /\ cmd'[x].status = "absent" <=> cmd[x].status = "absent"
               /\ cmd[x].status \in Terminal => cmd'[x].status \in Terminal
               /\ cmd'[x].status = "leased" => cmd'[x].sent = TRUE
    <3>1. cmd'[x] = MigratedRow(x) /\ cmd[x] \in Row
      BY <1>0, <1>2 DEF MigrateLegacy, Rows
    <3>2. cmd'[x] = cmd[x] \/ (Unsent(cmd[x]) /\ cmd'[x].status = "skipped")
      BY <3>1, RowStatuses DEF MigratedRow
    <3> QED
      BY <1>0, <3>2 DEF Unsent, Terminal, LeasedIsSent
  <2>2. ASSUME NEW c \in Change, ~Inherited(c) PROVE Sound(cmd', status'[c], c)
    <3>1. Sound(cmd', status[c], c)
      BY <1>0, <2>1, <2>2, FollowsSound, CommandSets DEF Follows, Owned
    <3>2. \/ status'[c] = status[c]
          \/ status'[c] = "needs_review" /\ status[c] \notin {"planned", "cancelled"}
      BY <1>2 DEF MigrateLegacy
    <3> QED
      BY <3>1, <3>2 DEF Sound
  <2> QED
    BY <2>1, <2>2 DEF LeasedIsSent
<1>3. ASSUME NEW q \in Chain, CreateSequence(q) PROVE Kept
  BY <1>0, <1>1, <1>3, NewChainFollows DEF CreateSequence
<1>4. ASSUME NEW k \in Command, CommandStep(k) PROVE Kept
  <2>1. CASE EndStep(k)
    BY <2>1, EndSound
  <2>2. CASE LeaseStep(k)
    <3>1. PICK row \in Row : StillOpen(cmd[k], row) /\ cmd' = [cmd EXCEPT ![k] = row]
      BY <2>2 DEF LeaseStep
    <3>2. \A x \in Command : cmd'[x] = IF x = k THEN row ELSE cmd[x]
      BY <1>0, <3>1 DEF Rows
    <3>3. Follows(cmd, cmd', Command)
      BY <3>1, <3>2 DEF Follows, StillOpen, Terminal
    <3>4. LeasedIsSent(cmd')
      BY <1>0, <3>1, <3>2 DEF LeasedIsSent, StillOpen
    <3>5. status' = status
      BY <2>2 DEF LeaseStep
    <3>6. ASSUME NEW c \in Change PROVE Follows(cmd, cmd', Owned(c))
      BY <3>3, CommandSets DEF Follows
    <3> QED
      BY <1>0, <3>4, <3>5, <3>6, FollowsSound
  <2> QED
    BY <1>0, <1>4, <2>1, <2>2, CommandCases
<1>5. ASSUME NEW c \in Change, ChangeStep(c) PROVE Kept
  <2>1. CASE Dispatch(c)
    <3>1. /\ "pending" \in CommandStatus /\ "waiting" \in CommandStatus
          /\ NewRow("pending").status = "pending" /\ NewRow("waiting").status = "waiting"
      BY RowStatuses DEF CommandStatus
    <3>2. \A x \in Command : IF x \in Forwards(c)
                             THEN cmd'[x].status \in {"pending", "waiting"} ELSE cmd'[x] = cmd[x]
      BY <2>1, <3>1 DEF Dispatch
    <3>3. LeasedIsSent(cmd')
      BY <1>0, <3>2 DEF LeasedIsSent
    <3>4. ASSUME NEW d \in Change, d # c, ~Inherited(d) PROVE Sound(cmd', status'[d], d)
      <4>1. status'[d] = status[d]
        BY <1>0, <2>1, <3>4 DEF Dispatch, TypeOK
      <4>2. \A x \in Owned(d) : cmd'[x] = cmd[x]
        BY <3>2, <3>4, Disjoint, CommandSets DEF Owned
      <4> QED
        BY <1>0, <3>4, <4>1, <4>2, SameSound
    <3>5. Sound(cmd', status'[c], c)
      <4>1. status'[c] = "dispatched" /\ status[c] = "planned" /\ ~Inherited(c)
        BY <1>0, <2>1 DEF Dispatch, TypeOK, Inherited
      <4>2. \A x \in Rollbacks(c) : cmd'[x].status = "absent"
        BY <1>0, <3>2, <4>1, Disjoint, CommandSets DEF Sound, Owned
      <4> QED
        BY <3>2, <4>1, <4>2, CommandSets DEF Sound
    <3> QED
      BY <3>3, <3>4, <3>5
  <2>2. CASE CancelPlan(c)
    <3>1. /\ cmd' = cmd /\ status[c] = "planned" /\ status'[c] = "cancelled"
          /\ \A d \in Change : d # c => status'[d] = status[d]
      BY <1>0, <2>2 DEF CancelPlan, TypeOK
    <3>2. Sound(cmd, "cancelled", c)
      BY <1>0, <3>1 DEF Sound, Inherited
    <3> QED
      BY <1>0, <3>1, <3>2
  <2>3. CASE RequestRollback(c)
    BY <2>3, RollbackSound
  <2>4. CASE Accept(c)
    <3>1. /\ cmd' = cmd /\ status[c] \in ReviewStates /\ status'[c] = "accepted"
          /\ \A d \in Change : d # c => status'[d] = status[d]
      BY <1>0, <2>4 DEF Accept, TypeOK
    <3>2. Inherited(c) \/ Sound(cmd, "accepted", c)
      BY <1>0, <3>1 DEF Sound, ReviewStates
    <3> QED
      BY <1>0, <3>1, <3>2
  <2> QED
    BY <1>5, <2>1, <2>2, <2>3, <2>4 DEF ChangeStep
<1>6. ASSUME NEW s \in Server, ServerStep(s) PROVE Kept
  <2>1. ASSUME NEW capable \in BOOLEAN, RegisterAgent(s, capable) PROVE Kept
    <3>1. SyncChain[s] \in SUBSET Chain
      BY ConstantsAssumption
    <3> QED
      BY <1>0, <1>1, <2>1, <3>1, QueueOnceFollows DEF RegisterAgent
  <2>2. ASSUME NEW next, RemovalPass(s, next) PROVE Kept
    <3>1. PICK ks : cmd' = Retire(ks) /\ ks \subseteq Retirable(s)
      BY <2>2 DEF RemovalPass
    <3>2. ASSUME NEW x \in Command
          PROVE  \/ cmd'[x] = cmd[x]
                 \/ cmd[x].status \in {"waiting", "pending"} /\ cmd'[x].status = "skipped"
      <4>1. cmd[x] \in Row
        BY <1>0 DEF Rows
      <4> QED
        BY <3>1, <4>1, RowStatuses DEF Retire, Retirable, Unsent
    <3>3. Follows(cmd, cmd', Command)
      BY <3>2 DEF Follows, Terminal
    <3>4. LeasedIsSent(cmd')
      BY <1>0, <3>2 DEF LeasedIsSent
    <3>5. status' = status
      BY <2>2 DEF RemovalPass
    <3>6. ASSUME NEW c \in Change PROVE Follows(cmd, cmd', Owned(c))
      BY <3>3, CommandSets DEF Follows
    <3> QED
      BY <1>0, <3>4, <3>5, <3>6, FollowsSound
  <2>3. CASE BeginNodeRemoval(s) \/ AdvanceNodeRemoval(s)
    <3>1. (\E next : RemovalPass(s, next)) \/ UNCHANGED <<cmd, status>>
      BY <2>3 DEF BeginNodeRemoval, AdvanceNodeRemoval
    <3> QED
      BY <1>0, <2>2, <3>1
  <2> QED
    BY <1>6, <2>1, <2>3 DEF ServerStep
<1>7. CASE UNCHANGED vars
  BY <1>0, <1>7 DEF vars
<1> QED
  BY <1>2, <1>3, <1>4, <1>5, <1>6, <1>7 DEF Next

\* Compensation never overlaps a forward command of its change set: whatever the
\* interleaving of results, expiries and operator requests, a compensator exists
\* only once every forward command is terminal.
THEOREM CompensationSafe == Spec => []CompensationAfterForwards
<1>1. CompensationInv => CompensationAfterForwards
  BY DEF CompensationInv, Inherited, Coordinated, Sound, CompensationAfterForwards, Present, Forwards, Rollbacks
<1> QED
  BY <1>1, CompensationInit, CompensationStep, PTL DEF Spec

(***************************************************************************)
(* Naturals.                                                               *)
(***************************************************************************)
\* A nonempty set of naturals has a least element: what stands in for induction
\* in the arguments below.
LEMMA LeastElement ==
    ASSUME NEW S, S \subseteq Nat, S # {}
    PROVE  \E x \in S : \A y \in S : x <= y
<1> DEFINE R == {p \in Nat \X Nat : p[1] < p[2]}
<1>1. R = OpToRel(<, Nat)
  BY Zenon DEF OpToRel
<1>2. IsWellFoundedOn(R, Nat)
  BY <1>1, NatLessThanWellFounded, Zenon
<1> HIDE DEF R
<1>3. PICK x \in S : \A y \in S : <<y, x>> \notin R
  BY <1>2, WFMin, Zenon
<1>4. ASSUME NEW y \in S PROVE x <= y
  <2>1. ~(y < x)
    BY <1>3 DEF R
  <2> QED
    BY <2>1
<1> QED
  BY <1>4

(***************************************************************************)
(* The dependency chains.                                                  *)
(***************************************************************************)
\* Steps are positive naturals.
LEMMA StepsNat ==
    ASSUME NEW c \in Change
    PROVE  Steps(c) \subseteq Nat /\ \A i \in Steps(c) : i >= 1
<1>1. Len(StepServer[c]) \in Nat
  BY ConstantsAssumption
<1> QED
  BY <1>1 DEF Steps

\* The commands of a change set by kind and step.
LEMMA Named ==
    ASSUME NEW c \in Change
    PROVE  /\ \A k \in Forwards(c) : k = Forward(c, k[3]) /\ k[3] \in Steps(c)
           /\ \A k \in Rollbacks(c) : k = Rollback(c, k[3]) /\ k[3] \in Steps(c)
           /\ \A i \in Steps(c) : /\ Forward(c, i) \in Forwards(c) /\ Rollback(c, i) \in Rollbacks(c)
                                  /\ Forward(c, i)[3] = i /\ Rollback(c, i)[3] = i
BY DEF Forwards, Rollbacks, Forward, Rollback

\* Behind step j of a change set are its later steps.
LEMMA BelowForward ==
    ASSUME NEW c \in Change, NEW j \in Steps(c), NEW x \in Command
    PROVE  IsBelow(x, Forward(c, j)) <=> \E i \in Steps(c) : x = Forward(c, i) /\ i > j
<1>1. Forward(c, j)[1] = "forward" /\ Forward(c, j)[2] = c /\ Forward(c, j)[3] = j
  BY DEF Forward
<1>2. ASSUME NEW i \in Steps(c), x = Forward(c, i), i > j PROVE IsBelow(x, Forward(c, j))
  BY <1>2 DEF IsBelow, Forward
<1>3. ASSUME IsBelow(x, Forward(c, j)) PROVE \E i \in Steps(c) : x = Forward(c, i) /\ i > j
  <2>1. x[1] = "forward" /\ x[2] = c /\ x[3] > j
    BY <1>1, <1>3 DEF IsBelow
  <2>2. x \notin OrdinaryCommand
    BY <2>1 DEF OrdinaryCommand, Commands, Ordinary
  <2>3. x \in Owned(c)
    BY <2>1, <2>2, OwnerOf DEF Command
  <2>4. x \notin Rollbacks(c)
    BY <2>1 DEF Rollbacks, Rollback
  <2> QED
    BY <2>1, <2>3, <2>4, Named DEF Owned
<1> QED
  BY <1>2, <1>3

\* Behind the compensator of step j are those of the earlier steps.
LEMMA BelowRollback ==
    ASSUME NEW c \in Change, NEW j \in Steps(c), NEW x \in Command
    PROVE  IsBelow(x, Rollback(c, j)) <=> \E i \in Steps(c) : x = Rollback(c, i) /\ i < j
<1>1. Rollback(c, j)[1] = "rollback" /\ Rollback(c, j)[2] = c /\ Rollback(c, j)[3] = j
  BY DEF Rollback
<1>2. ASSUME NEW i \in Steps(c), x = Rollback(c, i), i < j PROVE IsBelow(x, Rollback(c, j))
  BY <1>2 DEF IsBelow, Rollback
<1>3. ASSUME IsBelow(x, Rollback(c, j)) PROVE \E i \in Steps(c) : x = Rollback(c, i) /\ i < j
  <2>1. x[1] = "rollback" /\ x[2] = c /\ x[3] < j
    BY <1>1, <1>3 DEF IsBelow
  <2>2. x \notin OrdinaryCommand
    BY <2>1 DEF OrdinaryCommand, Commands, Ordinary
  <2>3. x \in Owned(c)
    BY <2>1, <2>2, OwnerOf DEF Command
  <2>4. x \notin Forwards(c)
    BY <2>1 DEF Forwards, Forward
  <2> QED
    BY <2>1, <2>3, <2>4, Named DEF Owned
<1> QED
  BY <1>2, <1>3

\* Behind a command are commands of its own chain or change set, on the same
\* side, and never itself.
LEMMA BelowStays ==
    ASSUME NEW k \in Command, NEW x \in Command, IsBelow(x, k)
    PROVE  /\ x # k
           /\ \A q \in Chain : k \in Commands(q) <=> x \in Commands(q)
           /\ \A c \in Change : /\ k \in Forwards(c) <=> x \in Forwards(c)
                                /\ k \in Rollbacks(c) <=> x \in Rollbacks(c)
<1>1. x[1] = k[1] /\ x[2] = k[2]
  BY DEF IsBelow
<1>2. ASSUME NEW y \in Command
      PROVE  \/ y[1] = "ordinary" /\ y[2] \in Chain /\ y \in Commands(y[2])
             \/ y[1] = "forward" /\ y[2] \in Change /\ y \in Forwards(y[2])
             \/ y[1] = "rollback" /\ y[2] \in Change /\ y \in Rollbacks(y[2])
  BY DEF Command, OrdinaryCommand, OwnedCommand, Owned, Commands, Forwards, Rollbacks,
         Ordinary, Forward, Rollback
<1>3. /\ \A q \in Chain : \A y \in Commands(q) : y[1] = "ordinary" /\ y[2] = q /\ y[3] \in Int
      /\ \A c \in Change : \A y \in Forwards(c) : y[1] = "forward" /\ y[2] = c /\ y[3] \in Int
      /\ \A c \in Change : \A y \in Rollbacks(c) : y[1] = "rollback" /\ y[2] = c /\ y[3] \in Int
  BY DEF Commands, Forwards, Rollbacks, Ordinary, Forward, Rollback, Steps
<1>4. k[3] \in Int
  BY <1>2, <1>3
<1>5. x # k
  BY <1>4 DEF IsBelow
<1> QED
  BY <1>1, <1>2, <1>3, <1>5

(***************************************************************************)
(* What happens to a command that was never sent: it is created, readied or *)
(* skipped.  Mild(m, n): nothing else happens from rows m to rows n.        *)
(***************************************************************************)
MildRow(old, new) ==
    \/ new = old
    \/ Unsent(old) /\ new.status \in {"pending", "skipped"} /\ ~new.sent
    \/ old.status = "absent" /\ new.status \in {"waiting", "pending", "skipped"} /\ ~new.sent

Mild(m, n) == \A x \in Command : MildRow(m[x], n[x])

\* What was never reached was never sent, and success is an agent's word.
RowsHonest(m) ==
    \A k \in Command : /\ m[k].status \in {"absent", "waiting", "skipped"} => ~m[k].sent
                       /\ m[k].status = "succeeded" => m[k].result = "agent"

\* Mild changes compose.
LEMMA MildTrans ==
    ASSUME NEW m, NEW n, NEW o, Mild(m, n), Mild(n, o)
    PROVE  Mild(m, o)
<1> SUFFICES ASSUME NEW x \in Command PROVE MildRow(m[x], o[x])
  BY DEF Mild
<1>1. MildRow(m[x], n[x]) /\ MildRow(n[x], o[x])
  BY DEF Mild
<1> QED
  BY <1>1 DEF MildRow, Unsent

\* Mild changes keep rows honest, send nothing, attempt nothing and change no
\* terminal row.
LEMMA MildKeeps ==
    ASSUME NEW m \in Rows, RowsHonest(m), NEW n, Mild(m, n)
    PROVE  /\ RowsHonest(n)
           /\ \A x \in Command : /\ InFlight(n[x]) => InFlight(m[x])
                                 /\ Attempted(n[x]) <=> Attempted(m[x])
                                 /\ m[x].status \in Terminal => n[x] = m[x]
                                 /\ n[x].status \in {"succeeded", "failed", "leased"} => n[x] = m[x]
                                 /\ n[x].status = "absent" => m[x].status = "absent"
<1>1. ASSUME NEW x \in Command
      PROVE  /\ InFlight(n[x]) => InFlight(m[x])
             /\ Attempted(n[x]) <=> Attempted(m[x])
             /\ m[x].status \in Terminal => n[x] = m[x]
             /\ n[x].status \in {"succeeded", "failed", "leased"} => n[x] = m[x]
             /\ n[x].status = "absent" => m[x].status = "absent"
             /\ n[x].status \in {"absent", "waiting", "skipped"} => ~n[x].sent
             /\ n[x].status = "succeeded" => n[x].result = "agent"
  <2>1. MildRow(m[x], n[x])
    BY DEF Mild
  <2>2. /\ m[x].status \in {"absent", "waiting", "skipped"} => ~m[x].sent
        /\ m[x].status = "succeeded" => m[x].result = "agent"
    BY DEF RowsHonest
  <2> QED
    BY <2>1, <2>2 DEF MildRow, InFlight, Attempted, Unsent, Terminal
<1> QED
  BY <1>1 DEF RowsHonest

\* _advance_command_dependents() readies or skips waiting commands.
LEMMA DependentsMild ==
    ASSUME NEW m \in Rows, RowsHonest(m), NEW k \in Command
    PROVE  Mild(m, AdvanceDependents(m, k))
<1> SUFFICES ASSUME NEW x \in Command PROVE MildRow(m[x], AdvanceDependents(m, k)[x])
  BY DEF Mild
<1>1. m[x] \in Row
  BY DEF Rows
<1>2. /\ Skip(m[x]).status = "skipped" /\ Skip(m[x]).sent = m[x].sent
      /\ Ready(m[x]).status = "pending" /\ Ready(m[x]).sent = m[x].sent
  BY <1>1, RowStatuses
<1>3. \/ AdvanceDependents(m, k)[x] = m[x]
      \/ m[x].status = "waiting" /\ AdvanceDependents(m, k)[x] \in {Skip(m[x]), Ready(m[x])}
  BY DEF AdvanceDependents
<1>4. m[x].status = "waiting" => ~m[x].sent
  BY DEF RowsHonest
<1> QED
  BY <1>2, <1>3, <1>4 DEF MildRow, Unsent

\* A new row has not been sent.
LEMMA NewRowUnsent ==
    /\ \A st \in CommandStatus : NewRow(st).status = st /\ NewRow(st).sent = FALSE
    /\ Skip(Absent).status = "skipped" /\ Skip(Absent).sent = FALSE
    /\ Absent.status = "absent" /\ Absent.sent = FALSE
    /\ "pending" \in CommandStatus /\ "waiting" \in CommandStatus
BY DEF NewRow, Absent, Skip, Update, CommandStatus

\* A sequence is created where there was none.
LEMMA NewChainMild ==
    ASSUME NEW m \in Rows, NEW q \in Chain, Unused(m, q)
    PROVE  Mild(m, NewChain(m, q))
<1> SUFFICES ASSUME NEW x \in Command PROVE MildRow(m[x], NewChain(m, q)[x])
  BY DEF Mild
<1>1. CASE x \in Commands(q)
  <2>1. NewChain(m, q)[x] \in {NewRow("pending"), NewRow("waiting")} /\ m[x].status = "absent"
    BY <1>1 DEF NewChain, Unused
  <2> QED
    BY <2>1, NewRowUnsent DEF MildRow
<1>2. CASE x \notin Commands(q)
  BY <1>2 DEF NewChain, MildRow
<1> QED
  BY <1>1, <1>2

\* So is one the store queues by itself.
LEMMA QueueOnceMild ==
    ASSUME NEW m \in Rows, NEW pool \in SUBSET Chain, NEW n \in QueueOnce(m, pool)
    PROVE  Mild(m, n)
<1>1. n = m \/ \E q \in pool : Unused(m, q) /\ n = NewChain(m, q)
  BY DEF QueueOnce
<1>2. Mild(m, m)
  BY DEF Mild, MildRow
<1> QED
  BY <1>1, <1>2, NewChainMild

\* stop_unsent() skips what was never sent.
LEMMA StopUnsentMild ==
    ASSUME NEW m \in Rows, NEW c \in Change
    PROVE  Mild(m, StopUnsent(m, c))
<1> SUFFICES ASSUME NEW x \in Command PROVE MildRow(m[x], StopUnsent(m, c)[x])
  BY DEF Mild
<1>1. m[x] \in Row
  BY DEF Rows
<1>2. Skip(m[x]).status = "skipped" /\ Skip(m[x]).sent = m[x].sent
  BY <1>1, RowStatuses
<1>3. StopUnsent(m, c)[x] = m[x] \/ (Unsent(m[x]) /\ StopUnsent(m, c)[x] = Skip(m[x]))
  BY DEF StopUnsent
<1> QED
  BY <1>2, <1>3 DEF MildRow, Unsent

\* Compensators are created where there are none; unsent ones may be skipped.
LEMMA CompensateMild ==
    ASSUME NEW m \in Rows, NEW c \in Change
    PROVE  Mild(m, Compensate(m, c))
<1> DEFINE n == Compensate(m, c)
           new == RollbackCreations(m, c, FALSE)
<1> SUFFICES ASSUME NEW x \in Command PROVE MildRow(m[x], n[x])
  BY DEF Mild
<1>1. m[x] \in Row
  BY DEF Rows
<1>2. Skip(m[x]).status = "skipped" /\ Skip(m[x]).sent = m[x].sent
  BY <1>1, RowStatuses
<1>3. CASE x \in new
  <2>1. m[x].status = "absent"
    BY <1>3 DEF RollbackCreations
  <2>2. n[x] \in {Skip(Absent), NewRow("pending"), NewRow("waiting")}
    BY <1>3 DEF Compensate
  <2> QED
    BY <2>1, <2>2, NewRowUnsent DEF MildRow
<1>4. CASE x \notin new
  <2>1. n[x] = m[x] \/ (Unsent(m[x]) /\ n[x] = Skip(m[x]))
    BY <1>4 DEF Compensate
  <2> QED
    BY <1>2, <2>1 DEF MildRow, Unsent
<1> QED
  BY <1>3, <1>4

\* advance() makes mild changes only.
LEMMA AdvanceMild ==
    ASSUME NEW m \in Rows, NEW c \in Change, NEW st
    PROVE  Mild(m, Advance(m, st, c).cmd)
<1>1. Mild(m, m)
  BY DEF Mild, MildRow
<1>2. ASSUME NEW o \in {m, StopUnsent(m, c)} PROVE Mild(m, o) /\ Mild(m, Compensate(o, c))
  BY <1>1, StopUnsentTyped, StopUnsentMild, CompensateMild, MildTrans
<1>3. \E o \in {m, StopUnsent(m, c)} : Advance(m, st, c).cmd \in {o, Compensate(o, c)}
  BY DEF Advance
<1> QED
  BY <1>2, <1>3

(***************************************************************************)
(* The order of execution.  The predicates below speak of rows m and a      *)
(* status st of one change set c, so that they can be followed through      *)
(* advance() inside a transaction.                                          *)
(***************************************************************************)
\* It has been the command's turn.
Reached(r) == r.status \in {"pending", "leased", "succeeded", "failed"} \/ r.sent

\* Steps are reached in order,
InOrder(m, c) ==
    \A i, j \in Steps(c) : j < i /\ Reached(m[Forward(c, i)]) => m[Forward(c, j)].status = "succeeded"

\* compensators against it.
InReverse(m, c) ==
    \A i, j \in Steps(c) :
        i < j /\ Reached(m[Rollback(c, i)]) /\ j \in Compensable(m, c)
        => m[Rollback(c, j)].status = "succeeded"

\* Only attempted steps are compensated, and all of them or none.
Belongs(m, c) ==
    \A i \in Steps(c) : m[Rollback(c, i)].status # "absent" => i \in Compensable(m, c)
Complete(m, c) ==
    \A i, j \in Steps(c) :
        m[Rollback(c, i)].status # "absent" /\ j \in Compensable(m, c)
        => m[Rollback(c, j)].status # "absent"

\* Behind a compensator that failed nothing waits.
Broken(m, c) ==
    \A i, j \in Steps(c) :
        m[Rollback(c, i)].status \in {"failed", "skipped"} => ~Unsent(m[Rollback(c, j)])

\* A change set that does not execute has no command that was never sent,
Stopped(m, st, c) ==
    st \notin {"planned", "dispatched", "rollback_queued"} => \A k \in Owned(c) : ~Unsent(m[k])

\* and one that has settled has no command that could still run.
Settled(m, st, c) ==
    /\ st \in {"succeeded", "rolled_back", "cancelled", "accepted"} =>
          \A k \in Owned(c) : m[k].status \in Terminal \cup {"absent"}
    /\ st = "succeeded" => \A k \in Forwards(c) : m[k].status = "succeeded"
    /\ st = "rolled_back" =>
          \A i \in Steps(c) : Attempted(m[Forward(c, i)]) => m[Rollback(c, i)].status = "succeeded"

Order(m, c) == InOrder(m, c) /\ InReverse(m, c) /\ Belongs(m, c) /\ Complete(m, c) /\ Broken(m, c)
Rest(m, st, c) == Stopped(m, st, c) /\ Settled(m, st, c)

\* Order and rest of a change set depend on its own rows only.
LEMMA SameOrder ==
    ASSUME NEW m, NEW n, NEW c \in Change, \A x \in Owned(c) : n[x] = m[x]
    PROVE  /\ Order(m, c) => Order(n, c)
           /\ \A st : Rest(m, st, c) => Rest(n, st, c)
<1>1. \A i \in Steps(c) : n[Forward(c, i)] = m[Forward(c, i)] /\ n[Rollback(c, i)] = m[Rollback(c, i)]
  BY Named DEF Owned
<1>2. Compensable(n, c) = Compensable(m, c)
  BY <1>1 DEF Compensable
<1>3. Order(m, c) => Order(n, c)
  BY <1>1, <1>2 DEF Order, InOrder, InReverse, Belongs, Complete, Broken
<1>4. ASSUME NEW st, Rest(m, st, c) PROVE Rest(n, st, c)
  <2>1. Stopped(n, st, c)
    BY <1>4 DEF Rest, Stopped
  <2>2. Settled(n, st, c)
    BY <1>1, <1>4 DEF Rest, Settled, Owned
  <2> QED
    BY <2>1, <2>2 DEF Rest
<1> QED
  BY <1>3, <1>4

\* What recording row for command k does to every command.
LEMMA FinishRows ==
    ASSUME TypeOK, NEW k \in Command, NEW row \in Row
    PROVE  /\ Finish(k, row)[k] = row
           /\ \A x \in Command : x # k /\ (cmd[x].status # "waiting" \/ ~IsBelow(x, k))
                    => Finish(k, row)[x] = cmd[x]
           /\ \A x \in Command : cmd[x].status = "waiting" /\ IsBelow(x, k)
                    => IF row.status # "succeeded" THEN Finish(k, row)[x] = Skip(cmd[x])
                       ELSE \/ Finish(k, row)[x] = cmd[x]
                            \/ /\ Finish(k, row)[x] = Ready(cmd[x])
                               /\ \A y \in Command : IsBelow(y, k) /\ IsBelow(x, y)
                                                        => cmd[y].status = "absent"
<1> DEFINE base == [cmd EXCEPT ![k] = row]
<1>1. base[k] = row /\ \A x \in Command : x # k => base[x] = cmd[x]
  BY DEF TypeOK
<1>2. ~IsBelow(k, k)
  BY BelowStays
<1>3. \A x \in Command : IsBelow(x, k) => x # k
  BY BelowStays
<1>4. \A x \in Command : Finish(k, row)[x] =
        IF base[x].status # "waiting" \/ ~IsBelow(x, k) THEN base[x]
        ELSE IF base[k].status # "succeeded" THEN Skip(base[x])
        ELSE IF IsChild(base, x, k) THEN Ready(base[x])
        ELSE base[x]
  BY DEF Finish, AdvanceDependents
<1> HIDE DEF base
<1>5. ASSUME NEW x \in Command, IsBelow(x, k), IsChild(base, x, k)
      PROVE  \A y \in Command : IsBelow(y, k) /\ IsBelow(x, y) => cmd[y].status = "absent"
  BY <1>1, <1>3, <1>5 DEF IsChild
<1> QED
  BY <1>1, <1>2, <1>3, <1>4, <1>5

\* The end of a command touches its own chain or change set only.
LEMMA FinishLocal ==
    ASSUME TypeOK, NEW k \in Command, NEW row \in Row
    PROVE  \A c \in Change : k \notin Owned(c) =>
                \A x \in Owned(c) : Finish(k, row)[x] = cmd[x]
<1> SUFFICES ASSUME NEW c \in Change, k \notin Owned(c), NEW x \in Owned(c)
             PROVE  Finish(k, row)[x] = cmd[x]
  OBVIOUS
<1>1. x \in Command /\ x # k
  BY CommandSets
<1>2. ~IsBelow(x, k)
  BY <1>1, BelowStays DEF Owned
<1> QED
  BY <1>1, <1>2, FinishRows

\* Recording the end of a command is a mild change after the row itself.
LEMMA FinishHonest ==
    ASSUME TypeOK, RowsHonest(cmd), NEW k \in Command, NEW row \in Row, Wrote(k, row)
    PROVE  /\ RowsHonest([cmd EXCEPT ![k] = row])
           /\ [cmd EXCEPT ![k] = row] \in Rows
           /\ Mild([cmd EXCEPT ![k] = row], Finish(k, row))
           /\ RowsHonest(Finish(k, row))
<1> DEFINE base == [cmd EXCEPT ![k] = row]
<1>1. base \in Rows /\ base[k] = row /\ \A x \in Command : x # k => base[x] = cmd[x]
  BY DEF TypeOK, Rows
<1>2. RowsHonest(base)
  BY <1>1 DEF RowsHonest, Wrote, Terminal
<1>3. Mild(base, Finish(k, row))
  BY <1>1, <1>2, DependentsMild DEF Finish
<1> HIDE DEF base
<1>4. RowsHonest(Finish(k, row))
  BY <1>1, <1>2, <1>3, MildKeeps
<1> QED
  BY <1>1, <1>2, <1>3, <1>4 DEF base

\* The end of a forward command keeps the order: the steps before it succeeded,
\* none behind it was reached, and its success readies the very next step.
LEMMA FinishForward ==
    ASSUME TypeOK, RowsHonest(cmd), NEW c \in Change, NEW j \in Steps(c), NEW row \in Row,
           cmd[Forward(c, j)].status \in {"pending", "leased"}, Wrote(Forward(c, j), row),
           Sound(cmd, status[c], c), Order(cmd, c)
    PROVE  Order(Finish(Forward(c, j), row), c)
<1> DEFINE k == Forward(c, j)
           n == Finish(k, row)
           F(m, i) == m[Forward(c, i)]
<1>1. /\ k \in Command /\ k \in Forwards(c)
      /\ \A i \in Steps(c) : Forward(c, i) \in Command /\ Rollback(c, i) \in Command
      /\ \A i \in Steps(c) : Forward(c, i) \in Forwards(c) /\ Rollback(c, i) \in Rollbacks(c)
      /\ Steps(c) \subseteq Nat
      /\ \A h, i \in Steps(c) : Forward(c, h) = Forward(c, i) => h = i
  BY Named, CommandSets, StepsNat
<1>2. \A i \in Steps(c) : n[Rollback(c, i)] = cmd[Rollback(c, i)]
  <2>1. \A x \in Rollbacks(c) : x \in Command /\ x # k /\ ~IsBelow(x, k)
    BY <1>1, Disjoint, CommandSets, BelowStays
  <2> QED
    BY <1>1, <2>1, FinishRows
<1>3. \A i \in Steps(c) : cmd[Rollback(c, i)].status = "absent" /\ ~cmd[Rollback(c, i)].sent
  <2>1. k \in Forwards(c) /\ cmd[k].status \notin Terminal
    BY <1>1 DEF Terminal
  <2>2. \A x \in Rollbacks(c) : cmd[x].status = "absent"
    BY <2>1 DEF Sound
  <2> QED
    BY <1>1, <2>2 DEF RowsHonest
<1>4. /\ \A i \in Steps(c) : i < j => F(cmd, i).status = "succeeded"
      /\ \A i \in Steps(c) : i > j => ~Reached(F(cmd, i))
  BY DEF Order, InOrder, Reached
<1>5. \A f \in Forwards(c) : cmd[f].status # "absent"
  <2>1. cmd[k].status # "absent" /\ k \in Owned(c)
    BY <1>1 DEF Owned
  <2> QED
    BY <2>1 DEF Sound
<1>6. F(n, j) = row /\ \A i \in Steps(c) : i < j => F(n, i) = F(cmd, i)
  <2>1. \A i \in Steps(c) : i < j => Forward(c, i) # k /\ ~IsBelow(Forward(c, i), k)
    BY <1>1, BelowForward
  <2> QED
    BY <1>1, <2>1, FinishRows
<1>7. ASSUME NEW i \in Steps(c), i > j, Reached(F(n, i))
      PROVE  row.status = "succeeded" /\ \A h \in Steps(c) : h < i => h <= j
  <2> DEFINE x == Forward(c, i)
  <2>1. x \in Command /\ x # k /\ IsBelow(x, k) /\ cmd[x] \in Row
    BY <1>1, <1>7, BelowForward DEF TypeOK
  <2>2. ~Reached(cmd[x])
    BY <1>4, <1>7
  <2>3. cmd[x].status = "waiting" /\ n[x] # cmd[x]
    <3>1. n[x] # cmd[x]
      BY <1>7, <2>2
    <3> QED
      BY <1>1, <2>1, <3>1, FinishRows
  <2>4. Skip(cmd[x]).status = "skipped" /\ Skip(cmd[x]).sent = cmd[x].sent /\ ~cmd[x].sent
    BY <2>1, <2>3, RowStatuses DEF RowsHonest
  <2>5. n[x] # Skip(cmd[x])
    BY <1>7, <2>4 DEF Reached
  <2>6. /\ row.status = "succeeded"
        /\ \A y \in Command : IsBelow(y, k) /\ IsBelow(x, y) => cmd[y].status = "absent"
    BY <1>1, <2>1, <2>3, <2>5, FinishRows
  <2>7. ASSUME NEW h \in Steps(c), h < i, h > j PROVE FALSE
    <3>1. IsBelow(Forward(c, h), k) /\ IsBelow(x, Forward(c, h))
      BY <1>1, <2>7, BelowForward
    <3> QED
      BY <1>1, <1>5, <2>6, <3>1
  <2> QED
    BY <1>1, <2>6, <2>7
<1> HIDE DEF n, F
<1>8. InOrder(n, c)
  <2> SUFFICES ASSUME NEW i \in Steps(c), NEW h \in Steps(c), h < i, Reached(n[Forward(c, i)])
               PROVE  n[Forward(c, h)].status = "succeeded"
    BY DEF InOrder
  <2>1. CASE i > j
    BY <1>1, <1>4, <1>6, <1>7, <2>1 DEF F
  <2>2. CASE i <= j
    BY <1>1, <1>4, <1>6, <2>2 DEF F
  <2> QED
    BY <1>1, <2>1, <2>2
<1>9. InReverse(n, c) /\ Belongs(n, c) /\ Complete(n, c) /\ Broken(n, c)
  BY <1>2, <1>3 DEF InReverse, Belongs, Complete, Broken, Reached
<1> QED
  BY <1>8, <1>9 DEF Order, n

\* The end of a compensator keeps the order: those of later steps succeeded, none
\* of an earlier one was reached; success readies the nearest earlier one and
\* failure leaves nothing waiting.
LEMMA FinishRollback ==
    ASSUME TypeOK, RowsHonest(cmd), NEW c \in Change, NEW j \in Steps(c), NEW row \in Row,
           cmd[Rollback(c, j)].status \in {"pending", "leased"}, Wrote(Rollback(c, j), row),
           Order(cmd, c)
    PROVE  Order(Finish(Rollback(c, j), row), c)
<1> DEFINE k == Rollback(c, j)
           n == Finish(k, row)
           R(m, i) == m[Rollback(c, i)]
<1>1. /\ k \in Command /\ k \in Rollbacks(c)
      /\ \A i \in Steps(c) : Forward(c, i) \in Command /\ Rollback(c, i) \in Command
      /\ \A i \in Steps(c) : Forward(c, i) \in Forwards(c) /\ Rollback(c, i) \in Rollbacks(c)
      /\ Steps(c) \subseteq Nat
      /\ \A h, i \in Steps(c) : Rollback(c, h) = Rollback(c, i) => h = i
      /\ \A i \in Steps(c) : R(cmd, i) \in Row
  BY Named, CommandSets, StepsNat DEF TypeOK
<1>2. \A i \in Steps(c) : n[Forward(c, i)] = cmd[Forward(c, i)]
  <2>1. \A x \in Forwards(c) : x \in Command /\ x # k /\ ~IsBelow(x, k)
    BY <1>1, Disjoint, CommandSets, BelowStays
  <2> QED
    BY <1>1, <2>1, FinishRows
<1>3. Compensable(n, c) = Compensable(cmd, c) /\ j \in Compensable(cmd, c)
  BY <1>2 DEF Compensable, Order, Belongs
<1>4. /\ \A i \in Steps(c) : i > j /\ i \in Compensable(cmd, c) => R(cmd, i).status = "succeeded"
      /\ \A i \in Steps(c) : i < j => ~Reached(R(cmd, i))
  BY <1>3 DEF Order, InReverse, Reached
<1>5. R(n, j) = row /\ \A i \in Steps(c) : i > j => R(n, i) = R(cmd, i)
  <2>1. \A i \in Steps(c) : i > j => Rollback(c, i) # k /\ ~IsBelow(Rollback(c, i), k)
    BY <1>1, BelowRollback
  <2> QED
    BY <1>1, <2>1, FinishRows
<1>6. ASSUME NEW i \in Steps(c), i < j
      PROVE  \/ R(n, i) = R(cmd, i) /\ (R(cmd, i).status = "waiting" => row.status = "succeeded")
             \/ /\ R(cmd, i).status = "waiting" /\ R(n, i).status = "skipped" /\ ~R(n, i).sent
                /\ row.status # "succeeded"
             \/ /\ R(cmd, i).status = "waiting" /\ R(n, i).status = "pending" /\ ~R(n, i).sent
                /\ row.status = "succeeded"
                /\ \A h \in Steps(c) : i < h /\ h < j => R(cmd, h).status = "absent"
  <2> DEFINE x == Rollback(c, i)
  <2>1. x \in Command /\ x # k /\ IsBelow(x, k) /\ cmd[x] \in Row
    BY <1>1, <1>6, BelowRollback DEF TypeOK
  <2>2. CASE cmd[x].status # "waiting"
    BY <1>1, <2>1, <2>2, FinishRows
  <2>3. CASE cmd[x].status = "waiting"
    <3>1. /\ Skip(cmd[x]).status = "skipped" /\ Skip(cmd[x]).sent = cmd[x].sent
          /\ Ready(cmd[x]).status = "pending" /\ Ready(cmd[x]).sent = cmd[x].sent
          /\ ~cmd[x].sent
      BY <2>1, <2>3, RowStatuses DEF RowsHonest
    <3>2. CASE row.status # "succeeded"
      <4>1. n[x] = Skip(cmd[x])
        BY <1>1, <2>1, <2>3, <3>2, FinishRows
      <4> QED
        BY <2>3, <3>1, <3>2, <4>1
    <3>3. CASE row.status = "succeeded"
      <4>1. \/ n[x] = cmd[x]
            \/ /\ n[x] = Ready(cmd[x])
               /\ \A y \in Command : IsBelow(y, k) /\ IsBelow(x, y) => cmd[y].status = "absent"
        BY <1>1, <2>1, <2>3, <3>3, FinishRows
      <4>2. \A h \in Steps(c) : i < h /\ h < j => IsBelow(Rollback(c, h), k) /\ IsBelow(x, Rollback(c, h))
        BY <1>1, <2>1, BelowRollback
      <4> QED
        BY <1>1, <2>3, <3>1, <3>3, <4>1, <4>2
    <3> QED
      BY <3>2, <3>3
  <2> QED
    BY <2>2, <2>3
<1> HIDE DEF n
<1>7. InReverse(n, c)
  <2> SUFFICES ASSUME NEW i \in Steps(c), NEW h \in Steps(c), i < h, Reached(R(n, i)),
                      h \in Compensable(cmd, c)
               PROVE  R(n, h).status = "succeeded"
    BY <1>3 DEF InReverse
  <2>1. CASE i < j
    <3>1. ~Reached(R(cmd, i))
      BY <1>4, <2>1
    <3>2. /\ R(cmd, i).status = "waiting" /\ row.status = "succeeded"
          /\ \A l \in Steps(c) : i < l /\ l < j => R(cmd, l).status = "absent"
      BY <1>6, <2>1, <3>1 DEF Reached
    <3>3. R(cmd, h).status # "absent"
      BY <3>2 DEF Order, Complete
    <3>4. h >= j
      BY <1>1, <3>2, <3>3
    <3> QED
      BY <1>1, <1>4, <1>5, <3>2, <3>4
  <2>2. CASE i >= j
    BY <1>1, <1>4, <1>5, <2>2
  <2> QED
    BY <1>1, <2>1, <2>2
<1>8. \A i \in Steps(c) : R(n, i).status = "absent" <=> R(cmd, i).status = "absent"
  <2>1. ASSUME NEW i \in Steps(c), i < j PROVE R(n, i).status = "absent" <=> R(cmd, i).status = "absent"
    BY <1>6, <2>1
  <2>2. row.status # "absent"
    BY DEF Wrote, Terminal
  <2> QED
    BY <1>1, <1>5, <2>1, <2>2
<1>9. Belongs(n, c) /\ Complete(n, c)
  BY <1>3, <1>8 DEF Order, Belongs, Complete
<1>10. InOrder(n, c)
  BY <1>2 DEF Order, InOrder
<1>11. Broken(n, c)
  <2> SUFFICES ASSUME NEW i \in Steps(c), NEW h \in Steps(c),
                      R(n, i).status \in {"failed", "skipped"}, Unsent(R(n, h))
               PROVE  FALSE
    BY DEF Broken
  <2>1. h # j
    BY <1>5 DEF Wrote, Terminal, Unsent
  <2>2. CASE row.status = "succeeded"
    <3>1. R(cmd, i).status \in {"failed", "skipped"}
      BY <1>1, <1>5, <1>6, <2>2
    <3>2. Unsent(R(cmd, h))
      <4>1. CASE h > j
        BY <1>5, <4>1
      <4>2. CASE h < j
        <5>1. R(cmd, h).status = "waiting" => ~R(cmd, h).sent
          BY <1>1 DEF RowsHonest
        <5> QED
          BY <1>6, <4>2, <5>1 DEF Unsent
      <4> QED
        BY <1>1, <2>1, <4>1, <4>2
    <3> QED
      BY <3>1, <3>2 DEF Order, Broken
  <2>3. CASE row.status # "succeeded"
    <3>1. CASE h > j
      <4>1. R(n, h) = R(cmd, h)
        BY <1>5, <3>1
      <4>2. h \in Compensable(cmd, c)
        BY <4>1 DEF Unsent, Order, Belongs
      <4> QED
        BY <1>4, <3>1, <4>1, <4>2 DEF Unsent
    <3>2. CASE h < j
      <4>1. ~Reached(R(cmd, h))
        BY <1>4, <3>2
      <4>2. R(n, h) = R(cmd, h) /\ R(cmd, h).status # "waiting"
        BY <1>6, <2>3, <3>2 DEF Unsent
      <4> QED
        BY <4>1, <4>2 DEF Unsent, Reached
    <3> QED
      BY <1>1, <2>1, <3>1, <3>2
  <2> QED
    BY <2>2, <2>3
<1> QED
  BY <1>7, <1>9, <1>10, <1>11 DEF Order, n

\* stop_unsent() ends unsent steps, which are not compensable: nobody's turn
\* comes earlier.
LEMMA StopUnsentOrder ==
    ASSUME NEW m \in Rows, RowsHonest(m), NEW c \in Change
    PROVE  LET n == StopUnsent(m, c)
           IN  /\ InOrder(m, c) => InOrder(n, c)
               /\ Compensable(n, c) = Compensable(m, c)
               /\ \A i \in Steps(c) : n[Rollback(c, i)] = m[Rollback(c, i)]
<1> DEFINE n == StopUnsent(m, c)
<1>1. \A i \in Steps(c) : /\ Forward(c, i) \in Command /\ Rollback(c, i) \in Command
                          /\ Forward(c, i) \in Forwards(c) /\ Rollback(c, i) \notin Forwards(c)
                          /\ m[Forward(c, i)] \in Row
  BY Named, CommandSets, Disjoint DEF Rows
<1>2. \A i \in Steps(c) : n[Rollback(c, i)] = m[Rollback(c, i)]
  BY <1>1 DEF StopUnsent
<1>3. \A i \in Steps(c) : \/ n[Forward(c, i)] = m[Forward(c, i)]
                          \/ Unsent(m[Forward(c, i)]) /\ n[Forward(c, i)] = Skip(m[Forward(c, i)])
  BY <1>1 DEF StopUnsent
<1> HIDE DEF n
<1>4. ASSUME NEW i \in Steps(c)
      PROVE  \/ n[Forward(c, i)] = m[Forward(c, i)]
             \/ /\ n[Forward(c, i)].status = "skipped" /\ ~n[Forward(c, i)].sent
                /\ Unsent(m[Forward(c, i)])
  <2>1. /\ Skip(m[Forward(c, i)]).status = "skipped"
        /\ Skip(m[Forward(c, i)]).sent = m[Forward(c, i)].sent
    BY <1>1, RowStatuses
  <2> QED
    BY <1>3, <2>1 DEF Unsent
<1>5. Compensable(n, c) = Compensable(m, c)
  BY <1>4 DEF Compensable, Attempted, Unsent
<1>6. InOrder(m, c) => InOrder(n, c)
  BY <1>4 DEF InOrder, Reached, Unsent
<1> QED
  BY <1>2, <1>5, <1>6 DEF n

\* Rows from which compensation may start: every forward command has ended, and
\* behind a compensator that failed there is nothing to create or to run.
Startable(m, c) ==
    /\ \A f \in Forwards(c) : m[f].status \in Terminal
    /\ InOrder(m, c) /\ InReverse(m, c) /\ Belongs(m, c)
    /\ \A i \in Steps(c) : m[Rollback(c, i)].status \in {"failed", "skipped"} =>
          /\ \A j \in Steps(c) : ~Unsent(m[Rollback(c, j)])
          /\ \A j \in Compensable(m, c) : m[Rollback(c, j)].status # "absent"

\* The compensator created pending is the one whose turn it is: if the nearest
\* later compensator succeeded, all later ones did.
LEMMA PreviousMeansAll ==
    ASSUME NEW m \in Rows, NEW c \in Change, InReverse(m, c), NEW i \in Steps(c),
           PreviousSucceeded(m, c, i), NEW j \in Compensable(m, c), i < j
    PROVE  m[Rollback(c, j)].status = "succeeded"
<1> DEFINE later == {l \in Compensable(m, c) : l > i}
<1>1. later \subseteq Nat /\ later \subseteq Steps(c) /\ j \in later
  BY StepsNat DEF Compensable
<1>2. PICK l \in later : \A h \in later : l <= h
  BY <1>1, LeastElement
<1>3. m[Rollback(c, l)].status = "succeeded"
  BY <1>2 DEF PreviousSucceeded
<1>4. l \in Steps(c) /\ l \in Nat /\ j \in Nat /\ (l < j \/ l = j)
  BY <1>1, <1>2
<1>5. CASE l < j
  BY <1>1, <1>3, <1>4, <1>5 DEF InReverse, Reached
<1> QED
  BY <1>3, <1>4, <1>5

\* Creating the compensators of Startable rows keeps the order, and the status
\* that follows is a true account of them.
LEMMA CompensateOrder ==
    ASSUME NEW m \in Rows, RowsHonest(m), NEW c \in Change, Startable(m, c)
    PROVE  LET n == Compensate(m, c)
           IN  Order(n, c) /\ Rest(n, RollbackOutcome(n, c), c)
<1> DEFINE n == Compensate(m, c)
           new == RollbackCreations(m, c, FALSE)
           error == CapabilityError(new)
           comp == Compensable(m, c)
           R(o, i) == o[Rollback(c, i)]
<1>1. /\ \A i \in Steps(c) : Forward(c, i) \in Command /\ Rollback(c, i) \in Command
      /\ \A i \in Steps(c) : Forward(c, i) \in Forwards(c) /\ Rollback(c, i) \in Rollbacks(c)
      /\ \A i \in Steps(c) : Rollback(c, i)[3] = i /\ R(m, i) \in Row
      /\ comp \subseteq Steps(c)
  BY Named, CommandSets DEF Compensable, Rows
<1>2. \A i \in Steps(c) : Rollback(c, i) \in new <=> i \in comp /\ R(m, i).status = "absent"
  <2>1. new = {Rollback(c, i) : i \in {j \in comp : R(m, j).status = "absent"}}
    BY DEF RollbackCreations
  <2>2. \A h, i \in Steps(c) : Rollback(c, h) = Rollback(c, i) => h = i
    BY DEF Rollback
  <2> HIDE DEF new, comp
  <2> QED
    BY <1>1, <2>1, <2>2
<1>3. \A i \in Steps(c) : n[Forward(c, i)] = m[Forward(c, i)]
  <2>1. new \subseteq Rollbacks(c)
    BY DEF RollbackCreations, Rollbacks, Compensable
  <2>2. \A i \in Steps(c) : Forward(c, i) \notin Rollbacks(c)
    BY <1>1, Disjoint
  <2> QED
    BY <1>1, <2>1, <2>2 DEF Compensate
<1>4. Compensable(n, c) = comp
  BY <1>3 DEF Compensable
\* The row of each compensator.
<1>5. ASSUME NEW i \in Steps(c), i \in comp, R(m, i).status = "absent"
      PROVE  /\ ~R(n, i).sent
             /\ error => R(n, i).status = "skipped"
             /\ ~error => \/ R(n, i).status = "waiting"
                          \/ R(n, i).status = "pending" /\ PreviousSucceeded(m, c, i)
  <2>1. Rollback(c, i) \in new /\ Rollback(c, i) \in Command /\ Rollback(c, i)[3] = i
    BY <1>1, <1>2, <1>5
  <2>2. R(n, i) = IF error THEN Skip(Absent)
                  ELSE NewRow(IF PreviousSucceeded(m, c, i) THEN "pending" ELSE "waiting")
    BY <2>1 DEF Compensate
  <2> HIDE DEF n, error, new
  <2> QED
    BY <2>2, NewRowUnsent
<1>6. ASSUME NEW i \in Steps(c), ~(i \in comp /\ R(m, i).status = "absent")
      PROVE  \/ R(n, i) = R(m, i) /\ ~(error /\ Unsent(R(m, i)))
             \/ error /\ Unsent(R(m, i)) /\ R(n, i).status = "skipped" /\ ~R(n, i).sent
  <2>1. /\ Rollback(c, i) \notin new /\ Rollback(c, i) \in Command
        /\ Rollback(c, i) \in Rollbacks(c) /\ R(m, i) \in Row
    BY <1>1, <1>2, <1>6
  <2>2. R(n, i) = IF error /\ Unsent(R(m, i)) THEN Skip(R(m, i)) ELSE R(m, i)
    BY <2>1 DEF Compensate
  <2>3. Skip(R(m, i)).status = "skipped" /\ Skip(R(m, i)).sent = R(m, i).sent
    BY <2>1, RowStatuses
  <2> HIDE DEF n, error, new, R
  <2> QED
    BY <2>2, <2>3 DEF Unsent
<1>7. error => new # {}
  BY DEF CapabilityError
<1>8. /\ \A i \in Steps(c) : R(m, i).status # "absent" => i \in comp
      /\ \A i, j \in Steps(c) : i < j /\ Reached(R(m, i)) /\ j \in comp => R(m, j).status = "succeeded"
      /\ \A i \in Steps(c) : R(m, i).status = "absent" => ~R(m, i).sent
  BY <1>1 DEF Startable, Belongs, InReverse, RowsHonest
<1> HIDE DEF n, new, error, comp
<1>9. ASSUME NEW i \in Steps(c) PROVE R(n, i).status # "absent" <=> i \in comp
  <2>1. CASE i \in comp /\ R(m, i).status = "absent"
    BY <1>5, <2>1
  <2>2. CASE i \in comp /\ R(m, i).status # "absent"
    BY <1>6, <2>2
  <2>3. CASE i \notin comp
    BY <1>6, <1>8, <2>3 DEF Unsent
  <2> QED
    BY <2>1, <2>2, <2>3
<1>10. Belongs(n, c) /\ Complete(n, c)
  BY <1>4, <1>9 DEF Belongs, Complete
<1>11. InOrder(n, c)
  BY <1>3 DEF Startable, InOrder
<1>12. InReverse(n, c)
  <2> SUFFICES ASSUME NEW i \in Steps(c), NEW j \in Steps(c), i < j, Reached(R(n, i)), j \in comp
               PROVE  R(n, j).status = "succeeded"
    BY <1>4 DEF InReverse
  <2>1. R(m, j).status = "succeeded"
    <3>1. CASE i \in comp /\ R(m, i).status = "absent"
      <4>1. PreviousSucceeded(m, c, i)
        BY <1>5, <3>1 DEF Reached
      <4> QED
        BY <4>1, PreviousMeansAll DEF Startable, comp
    <3>2. CASE ~(i \in comp /\ R(m, i).status = "absent")
      <4>1. Reached(R(m, i))
        BY <1>6, <3>2 DEF Reached
      <4> QED
        BY <1>8, <4>1
    <3> QED
      BY <3>1, <3>2
  <2> QED
    BY <1>6, <2>1 DEF Unsent
<1>13. Broken(n, c)
  <2> SUFFICES ASSUME NEW i \in Steps(c), NEW j \in Steps(c),
                      R(n, i).status \in {"failed", "skipped"}, Unsent(R(n, j))
               PROVE  FALSE
    BY DEF Broken
  <2>1. CASE error
    BY <1>5, <1>6, <2>1 DEF Unsent
  <2>2. CASE ~error
    <3>1. R(m, i).status \in {"failed", "skipped"}
      BY <1>5, <1>6, <2>2
    <3>2. /\ ~Unsent(R(m, j))
          /\ \A h \in comp : R(m, h).status # "absent"
      BY <3>1 DEF Startable, comp
    <3> QED
      BY <1>5, <1>6, <2>2, <3>2
  <2> QED
    BY <2>1, <2>2
<1>14. Order(n, c)
  BY <1>10, <1>11, <1>12, <1>13 DEF Order
<1>15. \A f \in Forwards(c) : n[f].status \in Terminal
  BY <1>3, Named DEF Startable
<1>16. ASSUME \A i \in comp : R(n, i).status = "succeeded"
       PROVE  \A k \in Owned(c) : n[k].status \in Terminal \cup {"absent"}
  <2>1. \A i \in Steps(c) : R(n, i).status \in {"succeeded", "absent"}
    BY <1>9, <1>16
  <2>2. \A k \in Rollbacks(c) : n[k].status \in {"succeeded", "absent"}
    BY <2>1, Named
  <2> QED
    BY <1>15, <2>2 DEF Owned, Terminal
<1>17. \A i \in comp : R(n, i).status # "succeeded" =>
          RollbackOutcome(n, c) \in {"rollback_failed", "rollback_queued"}
  BY <1>4 DEF RollbackOutcome
<1>18. CASE RollbackOutcome(n, c) = "rollback_queued"
  BY <1>14, <1>18 DEF Rest, Stopped, Settled, n
<1>19. CASE RollbackOutcome(n, c) = "rollback_failed"
  <2>1. \E i \in comp : R(n, i).status \in {"failed", "skipped"}
    BY <1>4, <1>19 DEF RollbackOutcome
  <2>2. \A j \in Steps(c) : ~Unsent(R(n, j))
    BY <1>1, <1>13, <2>1 DEF Broken
  <2>3. \A k \in Rollbacks(c) : ~Unsent(n[k])
    BY <2>2, Named
  <2>4. \A k \in Owned(c) : ~Unsent(n[k])
    BY <1>15, <2>3 DEF Owned, Unsent, Terminal
  <2> QED
    BY <1>14, <1>19, <2>4 DEF Rest, Stopped, Settled, n
<1>20. CASE RollbackOutcome(n, c) \in {"rollback_incomplete", "rolled_back"}
  <2>1. \A i \in comp : R(n, i).status = "succeeded"
    BY <1>17, <1>20
  <2>2. \A k \in Owned(c) : n[k].status \in Terminal \cup {"absent"}
    BY <1>16, <2>1
  <2>3. \A k \in Owned(c) : ~Unsent(n[k])
    BY <2>2 DEF Unsent, Terminal
  <2>4. ASSUME RollbackOutcome(n, c) = "rolled_back", NEW i \in Steps(c), Attempted(n[Forward(c, i)])
        PROVE  R(n, i).status = "succeeded"
    <3>1. <<c, i>> \in Compensated
      BY <2>4 DEF RollbackOutcome
    <3> QED
      BY <1>4, <2>1, <2>4, <3>1 DEF Compensable
  <2> QED
    BY <1>14, <1>20, <2>2, <2>3, <2>4 DEF Rest, Stopped, Settled, n
<1> QED
  BY <1>18, <1>19, <1>20 DEF RollbackOutcome, n

\* advance() keeps the order and leaves a status that is a true account, both
\* after a result and after a rollback request that set failed compensators aside.
LEMMA AdvanceOrder ==
    ASSUME NEW m \in Rows, LeasedIsSent(m), RowsHonest(m), NEW c \in Change,
           NEW st \in ChangeStatus, Sound(m, st, c), Rest(m, st, c),
           InOrder(m, c), InReverse(m, c), Belongs(m, c),
           \/ Complete(m, c) /\ Broken(m, c)
           \/ /\ st = "rollback_queued" /\ \A f \in Forwards(c) : m[f].status \in Terminal
              /\ \A i \in Steps(c) : m[Rollback(c, i)].status \notin {"failed", "skipped"}
    PROVE  LET n == Advance(m, st, c)
           IN  Order(n.cmd, c) /\ Rest(n.cmd, n.status, c)
<1> DEFINE n == Advance(m, st, c)
           st1 == ForwardOutcome(m, st, c)
           stop == StopUnsent(m, c)
<1>1. /\ stop \in Rows /\ LeasedIsSent(stop) /\ RowsHonest(stop)
      /\ \A f \in Forwards(c) : ~Unsent(stop[f])
      /\ Follows(m, stop, Owned(c))
  <2>1. Mild(m, stop) /\ stop \in Rows /\ Follows(m, stop, Command)
        /\ LeasedIsSent(stop) /\ \A f \in Forwards(c) : ~Unsent(stop[f])
    BY StopUnsentMild, StopUnsentTyped, StopUnsentFollows
  <2>2. Follows(m, stop, Owned(c))
    BY <2>1, CommandSets DEF Follows, Owned
  <2> QED
    BY <2>1, <2>2, MildKeeps
<1>2. /\ InOrder(stop, c) /\ Compensable(stop, c) = Compensable(m, c)
      /\ \A i \in Steps(c) : stop[Rollback(c, i)] = m[Rollback(c, i)]
  BY StopUnsentOrder
<1>3. InReverse(stop, c) /\ Belongs(stop, c)
  BY <1>2 DEF InReverse, Belongs
<1>4. Complete(m, c) /\ Broken(m, c) => Order(stop, c)
  BY <1>2, <1>3 DEF Order, Complete, Broken
<1>5. \/ st1 = st
      \/ st = "dispatched" /\ st1 \in {"rollback_queued", "failed", "succeeded"}
  BY DEF ForwardOutcome
<1>6. st1 # "rollback_queued" => Complete(m, c) /\ Broken(m, c)
  BY <1>5
<1>7. CASE st1 # "rollback_queued" /\ st1 = st
  <2>1. n = [cmd |-> m, status |-> st]
    BY <1>7 DEF Advance
  <2>2. Order(m, c)
    BY <1>6, <1>7 DEF Order
  <2> QED
    BY <2>1, <2>2
<1>8. CASE st = "dispatched" /\ st1 = "failed"
  <2>1. n = [cmd |-> stop, status |-> "failed"]
    BY <1>8 DEF Advance
  <2>2. Sound(stop, st, c)
    BY <1>1, FollowsSound
  <2>3. \A k \in Rollbacks(c) : stop[k].status = "absent"
    BY <1>8, <2>2 DEF Sound
  <2>4. \A k \in Owned(c) : ~Unsent(stop[k])
    BY <1>1, <2>3 DEF Owned, Unsent
  <2>5. Rest(stop, "failed", c)
    BY <2>4 DEF Rest, Stopped, Settled
  <2> QED
    BY <1>4, <1>6, <1>8, <2>1, <2>5
<1>9. CASE st = "dispatched" /\ st1 = "succeeded"
  <2>1. n = [cmd |-> m, status |-> "succeeded"]
    BY <1>9 DEF Advance
  <2>2. \A f \in Forwards(c) : m[f].status = "succeeded"
    BY <1>9 DEF ForwardOutcome
  <2>3. \A k \in Rollbacks(c) : m[k].status = "absent"
    BY <1>9 DEF Sound
  <2>4. Rest(m, "succeeded", c)
    BY <2>2, <2>3 DEF Rest, Stopped, Settled, Owned, Unsent, Terminal
  <2>5. Order(m, c)
    BY <1>6, <1>9 DEF Order
  <2> QED
    BY <2>1, <2>4, <2>5
<1>10. CASE st1 = "rollback_queued" /\ \E k \in Forwards(c) : InFlight(stop[k])
  <2>1. n = [cmd |-> stop, status |-> "rollback_queued"]
    BY <1>10 DEF Advance
  <2>2. Rest(stop, "rollback_queued", c)
    BY DEF Rest, Stopped, Settled
  <2>3. Complete(m, c) /\ Broken(m, c)
    <3>1. PICK f \in Forwards(c) : InFlight(stop[f])
      BY <1>10
    <3>2. stop[f].status \notin Terminal
      BY <3>1 DEF InFlight, Terminal
    <3>3. m[f].status \notin Terminal
      BY <1>1, <3>1, <3>2 DEF Follows, Owned
    <3> QED
      BY <3>1, <3>3
  <2> QED
    BY <1>4, <2>1, <2>2, <2>3
<1>11. CASE st1 = "rollback_queued" /\ ~\E k \in Forwards(c) : InFlight(stop[k])
  <2>1. n = [cmd |-> Compensate(stop, c), status |-> RollbackOutcome(Compensate(stop, c), c)]
    BY <1>11 DEF Advance
  <2>2. Sound(stop, st, c)
    BY <1>1, FollowsSound
  <2>3. st \notin {"planned", "cancelled"}
    BY <1>5, <1>11
  <2>4. ASSUME NEW f \in Forwards(c) PROVE stop[f].status \in Terminal
    <3>1. f \in Command /\ stop[f] \in Row /\ stop[f].status \in CommandStatus
      BY <1>1, CommandSets, RowStatuses DEF Rows
    <3>2. stop[f].status # "absent"
      BY <2>2, <2>3 DEF Sound
    <3>3. stop[f].status # "leased"
      BY <1>1, <1>11, <3>1 DEF LeasedIsSent, InFlight
    <3>4. stop[f].status \notin {"waiting", "pending"}
      BY <1>1, <1>11 DEF InFlight, Unsent
    <3> QED
      BY <3>1, <3>2, <3>3, <3>4 DEF CommandStatus, Terminal
  <2>5. ASSUME NEW i \in Steps(c), stop[Rollback(c, i)].status \in {"failed", "skipped"}
        PROVE  /\ \A j \in Steps(c) : ~Unsent(stop[Rollback(c, j)])
               /\ \A j \in Compensable(stop, c) : stop[Rollback(c, j)].status # "absent"
    <3>1. Complete(m, c) /\ Broken(m, c)
      BY <1>2, <2>5
    <3>2. Complete(stop, c) /\ Broken(stop, c)
      BY <1>4, <3>1 DEF Order
    <3>3. Compensable(stop, c) \subseteq Steps(c)
      BY DEF Compensable
    <3> QED
      BY <2>5, <3>2, <3>3 DEF Complete, Broken
  <2>6. Startable(stop, c)
    BY <1>2, <1>3, <2>4, <2>5 DEF Startable
  <2> HIDE DEF n, stop
  <2>7. Order(Compensate(stop, c), c) /\ Rest(Compensate(stop, c), RollbackOutcome(Compensate(stop, c), c), c)
    BY <1>1, <2>6, CompensateOrder
  <2> QED
    BY <2>1, <2>7 DEF n
<1> QED
  BY <1>5, <1>7, <1>8, <1>9, <1>10, <1>11

\* A step of change set c that writes its rows n and status st, and leaves the
\* commands and statuses of all others alone, keeps order and rest of all.
LEMMA OthersKept ==
    ASSUME TypeOK, NEW c \in Change, NEW n, NEW st,
           \A d \in Change : (Inherited(d) \/ Order(cmd, d)) /\ Rest(cmd, status[d], d),
           \A x \in OwnedCommand \ Owned(c) : n[x] = cmd[x],
           Inherited(c) \/ Order(n, c), Rest(n, st, c),
           cmd' = n, status' = [status EXCEPT ![c] = st]
    PROVE  \A d \in Change : (Inherited(d) \/ Order(cmd', d)) /\ Rest(cmd', status'[d], d)
<1> SUFFICES ASSUME NEW d \in Change
             PROVE  (Inherited(d) \/ Order(cmd', d)) /\ Rest(cmd', status'[d], d)
  OBVIOUS
<1>1. CASE d = c
  BY <1>1 DEF TypeOK
<1>2. CASE d # c
  <2>1. \A x \in Owned(d) : n[x] = cmd[x]
    BY <1>2, Disjoint, CommandSets
  <2>2. status'[d] = status[d]
    BY <1>2 DEF TypeOK
  <2> QED
    BY <2>1, <2>2, SameOrder
<1> QED
  BY <1>1, <1>2

\* The end of a command is its row and mild changes.
LEMMA EndMild ==
    ASSUME TypeOK, RowsHonest(cmd), NEW k \in Command, EndStep(k)
    PROVE  \E row \in Row : /\ Wrote(k, row) /\ [cmd EXCEPT ![k] = row] \in Rows
                            /\ RowsHonest([cmd EXCEPT ![k] = row])
                            /\ Mild([cmd EXCEPT ![k] = row], cmd')
<1>1. PICK row \in Row, pool \in SUBSET Chain :
          Wrote(k, row) /\ \E m \in Ended(k, row, pool) : AfterResult(m, k)
  BY DEF EndStep
<1>2. PICK m \in Ended(k, row, pool) : AfterResult(m, k)
  BY <1>1
<1> DEFINE base == [cmd EXCEPT ![k] = row]
<1>3. base \in Rows /\ RowsHonest(base) /\ Mild(base, Finish(k, row)) /\ Finish(k, row) \in Rows
  BY <1>1, FinishHonest, FinishTyped
<1> HIDE DEF base
<1>4. Mild(base, m) /\ m \in Rows
  <2>1. Mild(Finish(k, row), m) \/ m = Finish(k, row)
    BY <1>3, QueueOnceMild DEF Ended
  <2> QED
    BY <1>3, <2>1, MildTrans, EndedTyped
<1>5. cmd' = m \/ (k[2] \in Change /\ cmd' = Advance(m, status[k[2]], k[2]).cmd)
  BY <1>2, OwnerOf DEF AfterResult, AdvanceTo
<1>6. Mild(base, cmd')
  BY <1>4, <1>5, AdvanceMild, MildTrans
<1> QED
  BY <1>1, <1>3, <1>6 DEF base

\* The end of a command keeps every change set in order, its own through
\* advance(), and the statuses true.
LEMMA EndOrder ==
    ASSUME CompensationInv, RowsHonest(cmd), NEW k \in Command, EndStep(k),
           \A c \in Change : (Inherited(c) \/ Order(cmd, c)) /\ Rest(cmd, status[c], c)
    PROVE  RowsHonest(cmd') /\ \A c \in Change : (Inherited(c) \/ Order(cmd', c)) /\ Rest(cmd', status'[c], c)
<1>0. TypeOK /\ LeasedIsSent(cmd) /\ \A c \in Change : Inherited(c) \/ Sound(cmd, status[c], c)
  BY DEF CompensationInv
<1>1. RowsHonest(cmd')
  BY <1>0, EndMild, MildKeeps
<1>2. PICK row \in Row, pool \in SUBSET Chain :
          Wrote(k, row) /\ \E m \in Ended(k, row, pool) : AfterResult(m, k)
  BY DEF EndStep
<1>3. PICK m \in Ended(k, row, pool) : AfterResult(m, k)
  BY <1>2
<1>4. cmd[k].status \in {"pending", "leased"} /\ row.status \in Terminal
  BY <1>2 DEF EndStep, Wrote
<1> DEFINE f == Finish(k, row)
<1>5. /\ m \in Rows /\ f \in Rows /\ LeasedIsSent(f) /\ Follows(cmd, f, Command) /\ RowsHonest(f)
  BY <1>0, <1>2, <1>4, EndedTyped, FinishTyped, FinishFollows, FinishHonest
<1>6. LeasedIsSent(m) /\ RowsHonest(m) /\ \A x \in OwnedCommand : m[x] = f[x]
  <2>1. LeasedIsSent(m) /\ \A x \in OwnedCommand : m[x] = f[x]
    BY <1>5, QueueOnceFollows DEF Ended
  <2>2. m = f \/ Mild(f, m)
    BY <1>5, QueueOnceMild DEF Ended
  <2> QED
    BY <1>5, <2>1, <2>2, MildKeeps
<1>7. ASSUME NEW c \in Change
      PROVE  Rest(f, status[c], c) /\ (Inherited(c) \/ (Order(f, c) /\ Sound(f, status[c], c)))
  <2>1. Inherited(c) \/ Sound(f, status[c], c)
    BY <1>0, <1>5, FollowsSound, CommandSets DEF Follows
  <2>2. CASE k \notin Owned(c)
    BY <1>0, <2>1, <2>2, FinishLocal, SameOrder
  <2>3. CASE k \in Owned(c)
    <3>1. ASSUME ~Inherited(c) PROVE Order(f, c)
      <4>0. Sound(cmd, status[c], c) /\ Order(cmd, c)
        BY <1>0, <3>1
      <4>1. CASE k \in Forwards(c)
        BY <1>0, <1>2, <1>4, <4>0, <4>1, Named, FinishForward
      <4>2. CASE k \in Rollbacks(c)
        BY <1>0, <1>2, <1>4, <4>0, <4>2, Named, FinishRollback
      <4> QED
        BY <2>3, <4>1, <4>2 DEF Owned
    <3>2. \A x \in Owned(c) : Unsent(f[x]) => Unsent(cmd[x])
      <4> SUFFICES ASSUME NEW x \in Owned(c), Unsent(f[x]) PROVE Unsent(cmd[x])
        OBVIOUS
      <4>1. x \in Command
        BY CommandSets
      <4>2. x # k
        BY <1>0, <1>4, FinishRows DEF Unsent, Terminal
      <4>3. f[x] = cmd[x] \/ cmd[x].status = "waiting"
        BY <1>0, <4>1, <4>2, FinishRows
      <4> QED
        BY <4>1, <4>3 DEF RowsHonest, Unsent
    <3>3. Stopped(f, status[c], c)
      BY <3>2 DEF Rest, Stopped
    <3>4. status[c] \notin {"succeeded", "rolled_back", "cancelled", "accepted"}
      <4>1. Settled(cmd, status[c], c)
        BY DEF Rest
      <4> QED
        BY <1>4, <2>3, <4>1 DEF Settled, Terminal
    <3> QED
      BY <2>1, <3>1, <3>3, <3>4 DEF Rest, Settled
  <2> QED
    BY <2>2, <2>3
<1> HIDE DEF f
<1>8. ASSUME NEW c \in Change
      PROVE  Rest(m, status[c], c) /\ (Inherited(c) \/ (Order(m, c) /\ Sound(m, status[c], c)))
  BY <1>6, <1>7, SameOrder, SameSound, CommandSets
<1>9. CASE k \in OwnedCommand /\ version[k[2]] = 1
  <2> DEFINE c == k[2]
             n == Advance(m, status[c], c)
  <2>1. c \in Change /\ status[c] \in ChangeStatus /\ k \in Owned(c) /\ ~Inherited(c)
    BY <1>0, <1>9, OwnerOf DEF TypeOK, Inherited
  <2>2. cmd' = n.cmd /\ status' = [status EXCEPT ![c] = n.status]
    BY <1>3, <1>9 DEF AfterResult, AdvanceTo
  <2>3. \A x \in Command \ Owned(c) : n.cmd[x] = m[x]
    BY <1>5, <1>6, <1>8, <2>1, AdvanceSound
  <2>4. Order(n.cmd, c) /\ Rest(n.cmd, n.status, c)
    <3>1. InOrder(m, c) /\ InReverse(m, c) /\ Belongs(m, c) /\ Complete(m, c) /\ Broken(m, c)
      BY <1>8, <2>1 DEF Order
    <3> QED
      BY <1>5, <1>6, <1>8, <2>1, <3>1, AdvanceOrder
  <2> HIDE DEF n, c
  <2>5. ASSUME NEW x \in OwnedCommand \ Owned(c) PROVE n.cmd[x] = cmd[x]
    <3>1. x \in Command /\ n.cmd[x] = f[x]
      BY <1>6, <2>3, CommandSets
    <3>2. x[2] \in Change /\ x \in Owned(x[2])
      BY OwnerOf
    <3>3. k \notin Owned(x[2])
      BY <2>1, <3>2, Disjoint
    <3> QED
      BY <1>0, <3>1, <3>2, <3>3, FinishLocal DEF f
  <2>6. \A d \in Change : (Inherited(d) \/ Order(cmd', d)) /\ Rest(cmd', status'[d], d)
    BY <1>0, <2>1, <2>2, <2>4, <2>5, OthersKept
  <2> QED
    BY <1>1, <2>6
<1>10. CASE ~(k \in OwnedCommand /\ version[k[2]] = 1)
  <2>1. cmd' = m /\ status' = status
    BY <1>3, <1>10 DEF AfterResult
  <2> QED
    BY <1>1, <1>8, <2>1
<1> QED
  BY <1>9, <1>10

\* A rollback request, first or repeated, keeps the order: the compensators it
\* sets aside had failed, so every step had ended.
LEMMA RollbackOrder ==
    ASSUME CompensationInv, RowsHonest(cmd), NEW c \in Change, RequestRollback(c),
           \A d \in Change : (Inherited(d) \/ Order(cmd, d)) /\ Rest(cmd, status[d], d)
    PROVE  RowsHonest(cmd') /\ \A d \in Change : (Inherited(d) \/ Order(cmd', d)) /\ Rest(cmd', status'[d], d)
<1> DEFINE r == RetryRows(c)
           n == Advance(r, "rollback_queued", c)
<1>0. /\ TypeOK /\ LeasedIsSent(cmd) /\ \A d \in Change : Inherited(d) \/ Sound(cmd, status[d], d)
      /\ "rollback_queued" \in ChangeStatus
  BY DEF CompensationInv, ChangeStatus
<1>1. r \in Rows
  BY <1>0, RowTypes DEF RetryRows, Rows, TypeOK
<1>2. /\ \A x \in Command : \/ r[x] = cmd[x]
                            \/ /\ x \in Rollbacks(c) /\ r[x] = Absent
                               /\ cmd[x].status \in {"failed", "skipped"}
      /\ r = cmd \/ \A x \in Rollbacks(c) : r[x].status \notin {"failed", "skipped"}
  <2>1. \A x \in Rollbacks(c) : x \in Command
    BY CommandSets
  <2> QED
    BY <2>1, NewRowUnsent DEF RetryRows
<1>3. LeasedIsSent(r) /\ RowsHonest(r)
  BY <1>0, <1>2, NewRowUnsent DEF LeasedIsSent, RowsHonest
<1>4. \A f \in Forwards(c) : r[f] = cmd[f]
  BY <1>2, CommandSets, Disjoint
<1>5. status[c] \notin {"planned", "cancelled"} /\ ~Inherited(c)
  BY DEF RequestRollback, Inherited
<1>6. Sound(r, "rollback_queued", c)
  <2>1. \A k \in Rollbacks(c) : r[k].status # "absent" => cmd[k].status # "absent"
    BY <1>2, CommandSets, NewRowUnsent
  <2> QED
    BY <1>0, <1>4, <1>5, <2>1 DEF Sound
<1>7. cmd' = n.cmd /\ status' = [status EXCEPT ![c] = n.status]
  BY DEF RequestRollback, AdvanceTo
<1> HIDE DEF r
<1>8. \A i \in Steps(c) : /\ r[Forward(c, i)] = cmd[Forward(c, i)]
                          /\ \/ r[Rollback(c, i)] = cmd[Rollback(c, i)]
                             \/ /\ r[Rollback(c, i)] = Absent
                                /\ cmd[Rollback(c, i)].status \in {"failed", "skipped"}
  BY <1>2, <1>4, Named, CommandSets
<1>9. Compensable(r, c) = Compensable(cmd, c)
  BY <1>8 DEF Compensable
<1>10. InOrder(r, c) /\ InReverse(r, c) /\ Belongs(r, c)
  <2>1. InOrder(cmd, c) /\ InReverse(cmd, c) /\ Belongs(cmd, c)
    BY <1>5 DEF Order
  <2>2. ~Reached(Absent)
    BY NewRowUnsent DEF Reached
  <2>3. InOrder(r, c)
    BY <1>8, <2>1 DEF InOrder
  <2>4. InReverse(r, c)
    BY <1>8, <1>9, <2>1, <2>2 DEF InReverse
  <2>5. Belongs(r, c)
    BY <1>8, <1>9, <2>1, NewRowUnsent DEF Belongs
  <2> QED
    BY <2>3, <2>4, <2>5
<1>11. \/ Complete(r, c) /\ Broken(r, c)
       \/ /\ \A f \in Forwards(c) : r[f].status \in Terminal
          /\ \A i \in Steps(c) : r[Rollback(c, i)].status \notin {"failed", "skipped"}
  <2>1. CASE r = cmd
    BY <1>5, <2>1 DEF Order
  <2>2. CASE r # cmd
    <3>1. PICK x \in Command : r[x] # cmd[x]
      BY <1>0, <1>1, <2>2 DEF Rows, TypeOK
    <3>2. x \in Rollbacks(c) /\ cmd[x].status # "absent"
      BY <1>2, <3>1
    <3>3. \A f \in Forwards(c) : cmd[f].status \in Terminal
      BY <1>0, <1>5, <3>2 DEF Sound
    <3> QED
      BY <1>2, <1>4, <2>2, <3>3, Named
  <2> QED
    BY <2>1, <2>2
<1>12. Rest(r, "rollback_queued", c)
  BY DEF Rest, Stopped, Settled
<1>13. Order(n.cmd, c) /\ Rest(n.cmd, n.status, c)
  BY <1>0, <1>1, <1>3, <1>6, <1>10, <1>11, <1>12, AdvanceOrder
<1>14. \A x \in Command \ Owned(c) : n.cmd[x] = r[x]
  BY <1>0, <1>1, <1>3, <1>6, AdvanceSound
<1>15. RowsHonest(n.cmd)
  BY <1>1, <1>3, AdvanceMild, MildKeeps
<1> HIDE DEF n
<1>16. \A x \in OwnedCommand \ Owned(c) : n.cmd[x] = cmd[x]
  BY <1>2, <1>14, CommandSets DEF Owned
<1> QED
  BY <1>0, <1>7, <1>13, <1>15, <1>16, OthersKept

\* Before the migration nothing was coordinated; after it no legacy change set executes.
LegacyRests ==
    /\ ~migrated => \A c \in Change : status[c] \in {"planned", "dispatched", "rollback_queued"}
    /\ ~migrated => \A c \in Change : version[c] = 1 => status[c] = "planned"
    /\ migrated => \A c \in Change : version[c] = 0 => status[c] \in {"needs_review", "accepted"}

OrderInv ==
    /\ ReservationInv /\ CompensationInv /\ LegacyRests /\ RowsHonest(cmd)
    /\ \A c \in Change : (Inherited(c) \/ Order(cmd, c)) /\ Rest(cmd, status[c], c)

\* At the upgrade every plan is in order, and what was never reached was never sent.
LEMMA OrderInit == Init => OrderInv
<1> SUFFICES ASSUME Init PROVE OrderInv
  OBVIOUS
<1>1. RowsHonest(cmd)
  <2> SUFFICES ASSUME NEW x \in Command
               PROVE  /\ cmd[x].status \in {"absent", "waiting", "skipped"} => ~cmd[x].sent
                      /\ cmd[x].status = "succeeded" => cmd[x].result = "agent"
    BY DEF RowsHonest
  <2>1. cmd[x] = Absent \/ cmd[x] \in LegacyRow
    BY InitRows
  <2> QED
    BY <2>1, LegacyRowTyped, NewRowUnsent
<1>2. \A c \in Change : status[c] \in {"planned", "dispatched", "rollback_queued"}
  BY DEF Init
<1>3. LegacyRests
  BY <1>2 DEF Init, LegacyRests
<1>4. ASSUME NEW c \in Change PROVE Rest(cmd, status[c], c)
  BY <1>2 DEF Rest, Stopped, Settled
<1>5. ASSUME NEW c \in Change, ~Inherited(c) PROVE Order(cmd, c)
  <2>1. status[c] = "planned"
    BY <1>5 DEF Inherited, Init
  <2>2. \A x \in Owned(c) : cmd[x] = Absent
    BY <2>1, InitRows
  <2>3. \A i \in Steps(c) : cmd[Forward(c, i)] = Absent /\ cmd[Rollback(c, i)] = Absent
    BY <2>2, Named DEF Owned
  <2>4. ~Reached(Absent) /\ Absent.status = "absent"
    BY NewRowUnsent DEF Reached
  <2> QED
    BY <2>3, <2>4 DEF Order, InOrder, InReverse, Belongs, Complete, Broken
<1> QED
  BY <1>1, <1>3, <1>4, <1>5, ReservationInit, CompensationInit DEF OrderInv

\* What the migration skips was never sent.
LEMMA MigrateMild ==
    ASSUME TypeOK, MigrateLegacy
    PROVE  Mild(cmd, cmd')
<1> SUFFICES ASSUME NEW x \in Command PROVE MildRow(cmd[x], cmd'[x])
  BY DEF Mild
<1>1. Skip(cmd[x]).status = "skipped" /\ Skip(cmd[x]).sent = cmd[x].sent
  BY RowStatuses DEF TypeOK
<1>2. cmd'[x] = cmd[x] \/ (Unsent(cmd[x]) /\ cmd'[x] = Skip(cmd[x]))
  BY DEF MigrateLegacy, MigratedRow
<1> QED
  BY <1>1, <1>2 DEF MildRow, Unsent

\* The migration stops what an earlier release had started where it is, and leaves
\* the plans alone.
LEMMA MigrateOrder ==
    ASSUME OrderInv, MigrateLegacy
    PROVE  /\ RowsHonest(cmd')
           /\ \A c \in Change : (Inherited(c) \/ Order(cmd', c)) /\ Rest(cmd', status'[c], c)
<1>0. /\ TypeOK /\ cmd \in Rows /\ RowsHonest(cmd)
      /\ \A c \in Change : (Inherited(c) \/ Order(cmd, c)) /\ Rest(cmd, status[c], c)
  BY DEF OrderInv, CompensationInv, TypeOK, Rows
<1>1. \A x \in Command : cmd'[x] = MigratedRow(x)
  BY DEF MigrateLegacy
<1>2. RowsHonest(cmd')
  BY <1>0, MigrateMild, MildKeeps
<1>3. ASSUME NEW c \in Change PROVE (Inherited(c) \/ Order(cmd', c)) /\ Rest(cmd', status'[c], c)
  <2>1. /\ status[c] \in {"planned", "dispatched", "rollback_queued"}
        /\ version[c] = 1 => status[c] = "planned"
        /\ version[c] \in {0, 1}
    BY <1>0 DEF OrderInv, LegacyRests, MigrateLegacy, TypeOK
  <2>2. \A x \in Owned(c) : x \in OwnedCommand /\ x \in Command /\ x[2] = c
    BY CommandSets DEF Owned, Forwards, Rollbacks, Forward, Rollback
  <2>3. CASE status[c] # "planned"
    <3>1. status'[c] = "needs_review" /\ version[c] = 0 /\ Inherited(c)
      BY <1>0, <2>1, <2>3 DEF MigrateLegacy, TypeOK, Inherited
    <3>2. ASSUME NEW x \in Owned(c) PROVE ~Unsent(cmd'[x])
      <4>1. cmd'[x] = IF Unsent(cmd[x]) THEN Skip(cmd[x]) ELSE cmd[x]
        BY <1>1, <2>1, <2>2, <2>3, <3>1 DEF MigratedRow
      <4>2. Skip(cmd[x]).status = "skipped"
        BY <1>0, <2>2, RowStatuses DEF Rows
      <4> QED
        BY <4>1, <4>2 DEF Unsent
    <3>3. Rest(cmd', "needs_review", c)
      BY <3>2 DEF Rest, Stopped, Settled
    <3> QED
      BY <3>1, <3>3
  <2>4. CASE status[c] = "planned"
    <3>1. status'[c] = status[c]
      BY <1>0, <2>4 DEF MigrateLegacy, TypeOK
    <3>2. \A x \in Owned(c) : cmd'[x] = cmd[x]
      BY <1>1, <2>2, <2>4 DEF MigratedRow
    <3> QED
      BY <1>0, <3>1, <3>2, SameOrder
  <2> QED
    BY <2>3, <2>4
<1> QED
  BY <1>2, <1>3

\* A coordinated change set with an unsent command executes and holds the server.
LEMMA UnsentHolds ==
    ASSUME OrderInv, NEW k \in OwnedCommand, Unsent(cmd[k]), version[k[2]] = 1
    PROVE  /\ k[2] \in Change /\ k \in Owned(k[2])
           /\ Target(k) \in Targets(k[2]) /\ lock[Target(k)] = k[2]
<1> DEFINE c == k[2]
<1>1. c \in Change /\ k \in Owned(c)
  BY OwnerOf
<1>2. Target(k) \in Targets(c)
  BY <1>1 DEF Targets, Target, Owned, Forwards, Rollbacks, Forward, Rollback
<1>3. status[c] \in {"planned", "dispatched", "rollback_queued"}
  BY <1>1 DEF OrderInv, Rest, Stopped
<1>4. status[c] # "planned"
  <2>1. status[c] = "planned" => cmd[k].status = "absent"
    BY <1>1 DEF OrderInv, CompensationInv, Inherited, Sound
  <2> QED
    BY <2>1 DEF Unsent
<1> QED
  BY <1>1, <1>2, <1>3, <1>4 DEF OrderInv, ReservationInv, ReservationsMatchStatus, Holding

\* A node removal finds no unsent command of a change set on its server.
LEMMA RetiresOrdinary ==
    ASSUME OrderInv, migrated, NEW s \in Server, lock[s] = NoChange, NEW k \in Retirable(s)
    PROVE  k \notin OwnedCommand
<1> SUFFICES ASSUME k \in OwnedCommand PROVE FALSE
  OBVIOUS
<1>1. k[2] \in Change /\ k \in Owned(k[2]) /\ Unsent(cmd[k]) /\ Target(k) = s
  BY OwnerOf DEF Retirable
<1>2. version[k[2]] = 1
  <2>1. version[k[2]] \in {0, 1}
    BY <1>1 DEF OrderInv, CompensationInv, TypeOK
  <2>2. version[k[2]] = 0 => status[k[2]] \in {"needs_review", "accepted"}
    BY <1>1 DEF OrderInv, LegacyRests
  <2>3. status[k[2]] \notin {"needs_review", "accepted"}
    BY <1>1 DEF OrderInv, Rest, Stopped
  <2> QED
    BY <2>1, <2>2, <2>3
<1> QED
  BY <1>1, <1>2, UnsentHolds, ConstantsAssumption

\* What a removal pass skips was never sent, and belongs to no change set.
LEMMA RetireMild ==
    ASSUME TypeOK, RowsHonest(cmd), NEW s, NEW ks \in SUBSET Retirable(s),
           \A k \in ks : k \notin OwnedCommand
    PROVE  Mild(cmd, Retire(ks)) /\ \A x \in OwnedCommand : Retire(ks)[x] = cmd[x]
<1>1. ASSUME NEW x \in Command
      PROVE  /\ MildRow(cmd[x], Retire(ks)[x])
             /\ x \in OwnedCommand => Retire(ks)[x] = cmd[x]
  <2>1. cmd[x] \in Row
    BY DEF TypeOK
  <2>2. Skip(cmd[x]).status = "skipped" /\ Skip(cmd[x]).sent = cmd[x].sent
    BY <2>1, RowStatuses
  <2>3. CASE x \in ks \/ (cmd[x].status = "waiting" /\ \E k \in ks : IsBelow(x, k))
    <3>1. Retire(ks)[x] = Skip(cmd[x])
      BY <2>3 DEF Retire
    <3>2. Unsent(cmd[x])
      BY <2>3 DEF Retirable, Unsent, RowsHonest
    <3>3. x \notin OwnedCommand
      <4>1. ASSUME NEW k \in ks, IsBelow(x, k), x \in OwnedCommand PROVE FALSE
        <5>1. k \in Command /\ x[2] \in Change /\ x \in Owned(x[2])
          BY <4>1, OwnerOf DEF Retirable
        <5>2. k \in Owned(x[2])
          BY <4>1, <5>1, BelowStays DEF Owned
        <5> QED
          BY <5>1, <5>2, CommandSets
      <4> QED
        BY <2>3, <4>1
    <3> QED
      BY <2>2, <3>1, <3>2, <3>3 DEF MildRow, Unsent
  <2>4. CASE ~(x \in ks \/ (cmd[x].status = "waiting" /\ \E k \in ks : IsBelow(x, k)))
    BY <2>4 DEF Retire, MildRow
  <2> QED
    BY <2>3, <2>4
<1> QED
  BY <1>1, CommandSets DEF Mild

\* Nor does a whole step of a node removal touch a change set.
LEMMA RemovalMild ==
    ASSUME OrderInv, migrated, NEW s \in Server, BeginNodeRemoval(s) \/ AdvanceNodeRemoval(s)
    PROVE  /\ Mild(cmd, cmd') /\ \A x \in OwnedCommand : cmd'[x] = cmd[x]
           /\ UNCHANGED <<status, version, lock, migrated>>
<1>1. lock[s] = NoChange /\ TypeOK /\ RowsHonest(cmd)
  BY DEF BeginNodeRemoval, AdvanceNodeRemoval, OrderInv, ReservationInv, RemovalExcludesChange
<1>2. ASSUME NEW next, RemovalPass(s, next)
      PROVE  /\ Mild(cmd, cmd') /\ \A x \in OwnedCommand : cmd'[x] = cmd[x]
             /\ UNCHANGED <<status, version, lock, migrated>>
  <2>1. PICK ks \in SUBSET Retirable(s) : cmd' = Retire(ks)
    BY <1>2 DEF RemovalPass
  <2>2. \A k \in ks : k \notin OwnedCommand
    BY <1>1, RetiresOrdinary
  <2>3. UNCHANGED <<status, version, lock, migrated>>
    BY <1>2 DEF RemovalPass
  <2> QED
    BY <1>1, <2>1, <2>2, <2>3, RetireMild
<1>3. (\E next : RemovalPass(s, next)) \/ UNCHANGED <<cmd, status, version, lock, migrated>>
  BY DEF BeginNodeRemoval, AdvanceNodeRemoval
<1>4. Mild(cmd, cmd)
  BY DEF Mild, MildRow
<1> QED
  BY <1>2, <1>3, <1>4

\* Every step keeps the order of execution.
LEMMA OrderStep == OrderInv /\ [Next]_vars => OrderInv'
<1> SUFFICES ASSUME OrderInv, [Next]_vars PROVE OrderInv'
  OBVIOUS
<1> DEFINE Kept == RowsHonest(cmd') /\ \A c \in Change : (Inherited(c) \/ Order(cmd', c)) /\ Rest(cmd', status'[c], c)
<1>0. /\ ReservationInv /\ CompensationInv /\ LegacyRests /\ RowsHonest(cmd)
      /\ TypeOK /\ cmd \in Rows /\ LeasedIsSent(cmd)
      /\ \A c \in Change : Inherited(c) \/ Sound(cmd, status[c], c)
      /\ \A c \in Change : (Inherited(c) \/ Order(cmd, c)) /\ Rest(cmd, status[c], c)
  BY DEF OrderInv, CompensationInv, TypeOK, Rows
<1>1. ReservationInv' /\ CompensationInv'
  BY <1>0, ReservationStep, CompensationStep
<1> SUFFICES Kept /\ LegacyRests'
  BY <1>0, <1>1, InheritedStays DEF OrderInv, RowsHonest, Order, InOrder, InReverse, Belongs, Complete,
     Broken, Rest, Stopped, Settled, Compensable, Inherited
\* A step that changes no coordinated row and no status.
<1>2. ASSUME Mild(cmd, cmd'), \A x \in OwnedCommand : cmd'[x] = cmd[x], status' = status
      PROVE  Kept
  BY <1>0, <1>2, MildKeeps, SameOrder, CommandSets
<1>3. ASSUME migrated, UNCHANGED <<version, migrated>>,
             \A c \in Change : version[c] = 0 => \/ status'[c] = status[c]
                                                \/ status'[c] = "accepted"
      PROVE  LegacyRests'
  BY <1>0, <1>3 DEF LegacyRests
<1>4. CASE MigrateLegacy
  <2>1. LegacyRests'
    BY <1>0, <1>4 DEF LegacyRests, MigrateLegacy, TypeOK
  <2> QED
    BY <1>4, <2>1, MigrateOrder
<1>5. ASSUME migrated, NEW q \in Chain, CreateSequence(q) PROVE Kept /\ LegacyRests'
  BY <1>0, <1>2, <1>3, <1>5, NewChainFollows, NewChainMild DEF CreateSequence
<1>6. ASSUME migrated, NEW k \in Command, CommandStep(k) PROVE Kept /\ LegacyRests'
  <2>1. UNCHANGED <<version, capability, removal, migrated>>
    BY <1>0, <1>6, CommandCases
  <2>2. CASE EndStep(k)
    <3>1. \A c \in Change : version[c] = 0 => status'[c] = status[c]
      BY <1>0, <2>2, OwnerOf DEF EndStep, AfterResult, AdvanceTo, TypeOK
    <3> QED
      BY <1>0, <1>3, <1>6, <2>1, <2>2, <3>1, EndOrder
  <2>3. CASE LeaseStep(k)
    <3>1. PICK row \in Row : StillOpen(cmd[k], row) /\ Held(k, row) /\ cmd' = [cmd EXCEPT ![k] = row]
      BY <2>3 DEF LeaseStep
    <3>2. cmd'[k] = row /\ \A x \in Command : x # k => cmd'[x] = cmd[x]
      BY <1>0, <3>1 DEF Rows
    <3>3. status' = status
      BY <2>3 DEF LeaseStep
    <3>4. RowsHonest(cmd')
      BY <1>0, <3>1, <3>2 DEF RowsHonest, StillOpen
    <3>5. Unsent(row) => Unsent(cmd[k])
      <4>1. cmd[k].status = "leased" => cmd[k].sent = TRUE
        BY <1>0 DEF LeasedIsSent
      <4> QED
        BY <3>1, <4>1 DEF StillOpen, Held, Unsent
    <3>6. ASSUME NEW c \in Change, k \in Owned(c)
          PROVE  (Inherited(c) \/ Order(cmd', c)) /\ Rest(cmd', status'[c], c)
      <4>1. \A x \in Owned(c) : x \in Command
        BY CommandSets
      <4>2. \A x \in Owned(c) : Unsent(cmd'[x]) => Unsent(cmd[x])
        BY <3>2, <3>5, <4>1
      <4>3. \A x \in Owned(c) : /\ Reached(cmd'[x]) => Reached(cmd[x])
                                /\ \A s \in Terminal \cup {"absent"} :
                                       cmd[x].status = s <=> cmd'[x].status = s
        BY <3>1, <3>2, <4>1 DEF Reached, StillOpen, Terminal
      <4>4. status[c] \notin {"succeeded", "rolled_back", "cancelled", "accepted"}
        <5>1. Settled(cmd, status[c], c) /\ cmd[k].status \in {"pending", "leased"}
          BY <1>0, <3>1 DEF Rest, StillOpen
        <5> QED
          BY <3>6, <5>1 DEF Settled, Terminal
      <4>5. Rest(cmd', status'[c], c)
        BY <1>0, <3>3, <4>2, <4>4 DEF Rest, Stopped, Settled
      <4>6. \A i \in Steps(c) : Forward(c, i) \in Owned(c) /\ Rollback(c, i) \in Owned(c)
        BY Named DEF Owned
      <4>7. Inherited(c) \/ InOrder(cmd', c)
        BY <1>0, <4>3, <4>6 DEF Order, InOrder, Terminal
      <4>8. CASE k \in Forwards(c) /\ ~Inherited(c)
        <5>1. \A x \in Rollbacks(c) : cmd[x].status = "absent"
          BY <1>0, <3>1, <4>8 DEF Sound, StillOpen, Terminal
        <5>2. \A i \in Steps(c) : cmd[Rollback(c, i)].status = "absent" /\ ~Reached(cmd[Rollback(c, i)])
          BY <1>0, <5>1, Named, CommandSets DEF RowsHonest, Reached
        <5>3. \A i \in Steps(c) : cmd'[Rollback(c, i)].status = "absent" /\ ~Reached(cmd'[Rollback(c, i)])
          BY <4>3, <4>6, <5>2 DEF Terminal
        <5> QED
          BY <4>5, <4>7, <4>8, <5>3 DEF Order, InReverse, Belongs, Complete, Broken
      <4>9. CASE k \in Rollbacks(c) /\ ~Inherited(c)
        <5>1. \A f \in Forwards(c) : cmd'[f] = cmd[f]
          BY <3>2, <4>9, Disjoint, CommandSets
        <5>2. Compensable(cmd', c) = Compensable(cmd, c)
          BY <5>1, Named DEF Compensable
        <5>3. InReverse(cmd', c) /\ Belongs(cmd', c) /\ Complete(cmd', c)
          BY <1>0, <4>3, <4>6, <4>9, <5>2 DEF Order, InReverse, Belongs, Complete, Terminal
        <5>4. Broken(cmd', c)
          BY <1>0, <4>2, <4>3, <4>6, <4>9 DEF Order, Broken, Terminal
        <5> QED
          BY <4>5, <4>7, <4>9, <5>3, <5>4 DEF Order
      <4> QED
        BY <3>6, <4>5, <4>8, <4>9 DEF Owned
    <3>7. ASSUME NEW c \in Change, k \notin Owned(c)
          PROVE  (Inherited(c) \/ Order(cmd', c)) /\ Rest(cmd', status'[c], c)
      BY <1>0, <3>2, <3>3, <3>7, SameOrder, CommandSets
    <3> QED
      BY <1>3, <1>6, <2>1, <3>3, <3>4, <3>6, <3>7
  <2> QED
    BY <1>0, <1>6, <2>2, <2>3, CommandCases
<1>7. ASSUME migrated, NEW c \in Change, ChangeStep(c) PROVE Kept /\ LegacyRests'
  <2>1. CASE Dispatch(c)
    <3> DEFINE n == [x \in Command |-> IF x \in Forwards(c)
                                       THEN NewRow(IF x[3] = 1 THEN "pending" ELSE "waiting")
                                       ELSE cmd[x]]
    <3>1. /\ cmd' = n /\ status' = [status EXCEPT ![c] = "dispatched"] /\ status[c] = "planned"
          /\ version[c] = 1 /\ UNCHANGED <<version, migrated>> /\ ~Inherited(c)
      BY <1>0, <1>7, <2>1 DEF Dispatch, ReservationInv, PlannedIsCoordinated, Inherited
    <3>2. /\ \A x \in Command \ Forwards(c) : n[x] = cmd[x]
          /\ \A x \in Forwards(c) : /\ n[x].status \in {"pending", "waiting"} /\ n[x].sent = FALSE
                                    /\ n[x].status = "pending" => x[3] = 1
      BY NewRowUnsent, CommandSets
    <3> HIDE DEF n
    <3>3. \A x \in Rollbacks(c) : n[x].status = "absent" /\ ~n[x].sent
      <4>1. \A x \in Rollbacks(c) : x \in Command /\ x \notin Forwards(c) /\ cmd[x].status = "absent"
        BY <1>0, <3>1, CommandSets, Disjoint DEF Sound, Owned
      <4> QED
        BY <1>0, <3>2, <4>1 DEF RowsHonest
    <3>4. RowsHonest(cmd')
      BY <1>0, <3>1, <3>2 DEF RowsHonest
    <3>5. InOrder(n, c)
      <4> SUFFICES ASSUME NEW i \in Steps(c), NEW j \in Steps(c), j < i, Reached(n[Forward(c, i)])
                   PROVE  FALSE
        BY DEF InOrder
      <4>1. i = 1
        BY <3>2, Named DEF Reached
      <4> QED
        BY <4>1, StepsNat
    <3>6. InReverse(n, c) /\ Belongs(n, c) /\ Complete(n, c) /\ Broken(n, c)
      <4>1. \A i \in Steps(c) : n[Rollback(c, i)].status = "absent" /\ ~n[Rollback(c, i)].sent
        BY <3>3, Named
      <4> QED
        BY <4>1 DEF InReverse, Belongs, Complete, Broken, Reached
    <3>7. Rest(n, "dispatched", c)
      BY DEF Rest, Stopped, Settled
    <3>8. \A x \in OwnedCommand \ Owned(c) : n[x] = cmd[x]
      BY <3>2, CommandSets DEF Owned
    <3>9. \A d \in Change : (Inherited(d) \/ Order(cmd', d)) /\ Rest(cmd', status'[d], d)
      BY <1>0, <3>1, <3>5, <3>6, <3>7, <3>8, OthersKept DEF Order
    <3>10. LegacyRests'
      BY <1>0, <1>3, <1>7, <3>1 DEF TypeOK
    <3> QED
      BY <3>4, <3>9, <3>10
  <2>2. CASE CancelPlan(c)
    <3>1. /\ cmd' = cmd /\ status' = [status EXCEPT ![c] = "cancelled"] /\ status[c] = "planned"
          /\ version[c] = 1 /\ UNCHANGED <<version, migrated>> /\ ~Inherited(c)
      BY <2>2 DEF CancelPlan, Inherited
    <3>2. \A k \in Owned(c) : cmd[k].status = "absent"
      BY <1>0, <3>1 DEF Sound
    <3>3. Rest(cmd, "cancelled", c)
      BY <3>2 DEF Rest, Stopped, Settled, Unsent
    <3>4. \A d \in Change : (Inherited(d) \/ Order(cmd', d)) /\ Rest(cmd', status'[d], d)
      BY <1>0, <3>1, <3>3, OthersKept
    <3>5. LegacyRests'
      BY <1>0, <1>3, <1>7, <3>1 DEF TypeOK
    <3> QED
      BY <1>0, <3>1, <3>4, <3>5
  <2>3. CASE RequestRollback(c)
    <3>1. /\ version[c] = 1 /\ UNCHANGED <<version, migrated>>
          /\ \A d \in Change : d # c => status'[d] = status[d]
      BY <1>0, <2>3 DEF RequestRollback, AdvanceTo, TypeOK
    <3>2. LegacyRests'
      BY <1>3, <1>7, <3>1
    <3> QED
      BY <1>0, <2>3, <3>2, RollbackOrder
  <2>4. CASE Accept(c)
    <3>1. /\ cmd' = cmd /\ status' = [status EXCEPT ![c] = "accepted"] /\ status[c] \in ReviewStates
          /\ UNCHANGED <<version, migrated>> /\ \A k \in Owned(c) : ~InFlight(cmd[k])
      BY <2>4 DEF Accept
    <3>2. \A k \in Owned(c) : ~Unsent(cmd[k])
      BY <1>0, <3>1 DEF Rest, Stopped, ReviewStates
    <3>3. ASSUME NEW k \in Owned(c) PROVE cmd[k].status \in Terminal \cup {"absent"}
      <4>1. k \in Command /\ cmd[k].status \in CommandStatus
        BY <1>0, CommandSets, RowStatuses DEF Rows
      <4>2. cmd[k].status # "leased"
        BY <1>0, <3>1, <4>1 DEF LeasedIsSent, InFlight
      <4>3. cmd[k].status \notin {"waiting", "pending"}
        BY <3>1, <3>2 DEF InFlight, Unsent
      <4> QED
        BY <4>1, <4>2, <4>3 DEF CommandStatus, Terminal
    <3>4. Rest(cmd, "accepted", c)
      BY <3>2, <3>3 DEF Rest, Stopped, Settled
    <3>5. \A d \in Change : (Inherited(d) \/ Order(cmd', d)) /\ Rest(cmd', status'[d], d)
      BY <1>0, <3>1, <3>4, OthersKept
    <3>6. LegacyRests'
      BY <1>0, <1>3, <1>7, <3>1 DEF TypeOK
    <3> QED
      BY <1>0, <3>1, <3>5, <3>6
  <2> QED
    BY <1>7, <2>1, <2>2, <2>3, <2>4 DEF ChangeStep
<1>8. ASSUME migrated, NEW s \in Server, ServerStep(s) PROVE Kept /\ LegacyRests'
  <2>1. ASSUME NEW capable \in BOOLEAN, RegisterAgent(s, capable) PROVE Kept /\ LegacyRests'
    <3>1. SyncChain[s] \in SUBSET Chain
      BY ConstantsAssumption
    <3>2. /\ cmd' \in QueueOnce(cmd, SyncChain[s]) /\ UNCHANGED <<status, version, migrated>>
      BY <2>1 DEF RegisterAgent
    <3>3. Mild(cmd, cmd') /\ \A x \in OwnedCommand : cmd'[x] = cmd[x]
      BY <1>0, <3>1, <3>2, QueueOnceMild, QueueOnceFollows
    <3> QED
      BY <1>2, <1>3, <1>8, <3>2, <3>3
  <2>2. CASE BeginNodeRemoval(s) \/ AdvanceNodeRemoval(s)
    BY <1>2, <1>3, <1>8, <2>2, RemovalMild
  <2> QED
    BY <1>8, <2>1, <2>2 DEF ServerStep
<1>9. CASE UNCHANGED vars
  BY <1>0, <1>9 DEF vars, LegacyRests
<1> QED
  BY <1>4, <1>5, <1>6, <1>7, <1>8, <1>9 DEF Next

\* Steps reach agents in their order, on whatever servers they run and however
\* often leases, results and retries interleave.
THEOREM ForwardsOrdered == Spec => []ForwardInOrder
<1>1. OrderInv => ForwardInOrder
  BY DEF OrderInv, Inherited, Coordinated, Order, InOrder, Reached, ForwardInOrder
<1> QED
  BY <1>1, OrderInit, OrderStep, PTL DEF Spec

\* Compensators reach agents against the order of the steps they undo.
THEOREM RollbackReversed == Spec => []RollbackInReverse
<1>1. OrderInv => RollbackInReverse
  BY DEF OrderInv, Inherited, Coordinated, Order, InReverse, Reached, RollbackInReverse
<1> QED
  BY <1>1, OrderInit, OrderStep, PTL DEF Spec

\* A settled change set says the truth about its commands.
THEOREM SettledSafe == Spec => []SettledHonestly
<1>1. ASSUME OrderInv PROVE SettledHonestly
  <2> SUFFICES ASSUME NEW c \in Change
               PROVE  /\ status[c] = "succeeded" =>
                            \A k \in Forwards(c) : cmd[k].status = "succeeded" /\ cmd[k].result = "agent"
                      /\ status[c] = "rolled_back" =>
                            \A i \in Steps(c) : Attempted(cmd[Forward(c, i)]) =>
                                /\ cmd[Rollback(c, i)].status = "succeeded"
                                /\ cmd[Rollback(c, i)].result = "agent"
    BY DEF SettledHonestly
  <2>1. Settled(cmd, status[c], c)
    BY <1>1 DEF OrderInv, Rest
  <2>2. \A k \in Command : cmd[k].status = "succeeded" => cmd[k].result = "agent"
    BY <1>1 DEF OrderInv, RowsHonest
  <2>3. /\ \A k \in Forwards(c) : k \in Command
        /\ \A i \in Steps(c) : Rollback(c, i) \in Command
    BY Named, CommandSets
  <2> QED
    BY <2>1, <2>2, <2>3 DEF Settled
<1> QED
  BY <1>1, OrderInit, OrderStep, PTL DEF Spec

\* A settled change set leaves no command behind that could still be handed to an
\* agent.
THEOREM NothingStranded == Spec => []NoStrandedCommand
<1>1. OrderInv => NoStrandedCommand
  BY DEF OrderInv, Rest, Settled, NoStrandedCommand
<1> QED
  BY <1>1, OrderInit, OrderStep, PTL DEF Spec

(***************************************************************************)
(* Terminal rows are final.                                                *)
(***************************************************************************)
\* Retrying a rollback sets failed and skipped compensators aside, nothing else.
LEMMA RetryAside ==
    ASSUME TypeOK, NEW c \in Change
    PROVE  /\ RetryRows(c) \in Rows
           /\ \A x \in Command : \/ RetryRows(c)[x] = cmd[x]
                                 \/ /\ x \in Rollbacks(c) /\ RetryRows(c)[x] = Absent
                                    /\ cmd[x].status \in {"failed", "skipped"}
BY RowTypes DEF RetryRows, Rows, TypeOK

\* Every step is mild, but for the end or lease of one command and for the
\* compensators a rollback request sets aside.
LEMMA StepCases ==
    ASSUME OrderInv, Next
    PROVE  \/ Mild(cmd, cmd')
           \/ \E k \in Command : EndStep(k) \/ LeaseStep(k)
           \/ \E c \in Change : RequestRollback(c) /\ Mild(RetryRows(c), cmd')
<1>0. TypeOK /\ cmd \in Rows /\ RowsHonest(cmd) /\ \A c \in Change : Inherited(c) \/ Sound(cmd, status[c], c)
  BY DEF OrderInv, CompensationInv, TypeOK, Rows
<1>1. cmd' = cmd => Mild(cmd, cmd')
  BY DEF Mild, MildRow
<1>2. CASE MigrateLegacy
  BY <1>0, <1>2, MigrateMild
<1>3. ASSUME NEW q \in Chain, CreateSequence(q) PROVE Mild(cmd, cmd')
  BY <1>0, <1>3, NewChainMild DEF CreateSequence
<1>4. ASSUME NEW k \in Command, CommandStep(k) PROVE EndStep(k) \/ LeaseStep(k)
  BY <1>0, <1>4, CommandCases
<1>5. ASSUME NEW c \in Change, ChangeStep(c)
      PROVE  Mild(cmd, cmd') \/ (RequestRollback(c) /\ Mild(RetryRows(c), cmd'))
  <2>1. CASE Dispatch(c)
    <3>1. \A x \in Forwards(c) : cmd[x].status = "absent"
      BY <1>0, <2>1 DEF Dispatch, Inherited, Sound, Owned
    <3>2. ASSUME NEW x \in Command PROVE MildRow(cmd[x], cmd'[x])
      <4>1. CASE x \in Forwards(c)
        <5>1. cmd'[x] \in {NewRow("pending"), NewRow("waiting")}
          BY <2>1, <4>1 DEF Dispatch
        <5> QED
          BY <3>1, <4>1, <5>1, NewRowUnsent DEF MildRow
      <4>2. CASE x \notin Forwards(c)
        BY <2>1, <4>2 DEF Dispatch, MildRow
      <4> QED
        BY <4>1, <4>2
    <3> QED
      BY <3>2 DEF Mild
  <2>2. CASE CancelPlan(c) \/ Accept(c)
    BY <1>1, <2>2 DEF CancelPlan, Accept
  <2>3. CASE RequestRollback(c)
    <3>1. cmd' = Advance(RetryRows(c), "rollback_queued", c).cmd
      BY <2>3 DEF RequestRollback, AdvanceTo
    <3> QED
      BY <1>0, <2>3, <3>1, RetryAside, AdvanceMild
  <2> QED
    BY <1>5, <2>1, <2>2, <2>3 DEF ChangeStep
<1>6. ASSUME migrated, NEW s \in Server, ServerStep(s) PROVE Mild(cmd, cmd')
  <2>1. ASSUME NEW capable \in BOOLEAN, RegisterAgent(s, capable) PROVE Mild(cmd, cmd')
    BY <1>0, <2>1, ConstantsAssumption, QueueOnceMild DEF RegisterAgent
  <2>2. CASE BeginNodeRemoval(s) \/ AdvanceNodeRemoval(s)
    BY <1>6, <2>2, RemovalMild
  <2> QED
    BY <1>6, <2>1, <2>2 DEF ServerStep
<1> QED
  BY <1>2, <1>3, <1>4, <1>5, <1>6 DEF Next

Final ==
    \A k \in Command :
        /\ cmd[k].status \in Terminal => \/ cmd'[k] = cmd[k]
                                         \/ \E c \in Change : k \in Rollbacks(c)
        /\ cmd[k].status = "succeeded" => cmd'[k] = cmd[k]

\* No step changes a terminal row, except to set a failed compensator aside.
LEMMA FinalStep == OrderInv /\ Next => Final
<1> SUFFICES ASSUME OrderInv, Next PROVE Final
  OBVIOUS
<1>0. TypeOK /\ cmd \in Rows /\ RowsHonest(cmd)
  BY DEF OrderInv, CompensationInv, TypeOK, Rows
<1>1. CASE Mild(cmd, cmd')
  BY <1>0, <1>1, MildKeeps DEF Final, Terminal
<1>2. ASSUME NEW k \in Command, EndStep(k) PROVE Final
  <2>1. PICK row \in Row : /\ Wrote(k, row) /\ [cmd EXCEPT ![k] = row] \in Rows
                           /\ RowsHonest([cmd EXCEPT ![k] = row])
                           /\ Mild([cmd EXCEPT ![k] = row], cmd')
    BY <1>0, <1>2, EndMild
  <2> DEFINE base == [cmd EXCEPT ![k] = row]
  <2>2. \A x \in Command : x # k => base[x] = cmd[x]
    BY <1>0 DEF Rows
  <2> HIDE DEF base
  <2>3. \A x \in Command : base[x].status \in Terminal => cmd'[x] = base[x]
    BY <2>1, MildKeeps DEF base
  <2>4. cmd[k].status \notin Terminal
    BY <1>2 DEF EndStep, Terminal
  <2> QED
    BY <2>2, <2>3, <2>4 DEF Final, Terminal
<1>3. ASSUME NEW k \in Command, LeaseStep(k) PROVE Final
  <2>1. /\ cmd[k].status \notin Terminal
        /\ \A x \in Command : x # k => cmd'[x] = cmd[x]
    BY <1>0, <1>3 DEF LeaseStep, StillOpen, Terminal, Rows
  <2> QED
    BY <2>1 DEF Final, Terminal
<1>4. ASSUME NEW c \in Change, RequestRollback(c), Mild(RetryRows(c), cmd') PROVE Final
  <2> DEFINE r == RetryRows(c)
  <2>1. /\ r \in Rows
        /\ \A x \in Command : \/ r[x] = cmd[x]
                              \/ /\ x \in Rollbacks(c) /\ r[x] = Absent
                                 /\ cmd[x].status \in {"failed", "skipped"}
    BY <1>0, RetryAside
  <2> HIDE DEF r
  <2>2. RowsHonest(r)
    BY <1>0, <2>1, NewRowUnsent DEF RowsHonest
  <2>3. \A x \in Command : r[x].status \in Terminal => cmd'[x] = r[x]
    BY <1>4, <2>1, <2>2, MildKeeps DEF r
  <2> QED
    BY <2>1, <2>3 DEF Final, Terminal
<1> QED
  BY <1>1, <1>2, <1>3, <1>4, StepCases

\* A terminal command never runs or changes again, whatever late, repeated or
\* stale results arrive; a rollback retry repeats no successful compensator.
THEOREM TerminalSafe == Spec => TerminalIsFinal
<1>1. OrderInv /\ [Next]_vars => [Final]_vars
  BY FinalStep
<1>2. Spec => [][Final]_vars
  BY <1>1, OrderInit, OrderStep, PTL DEF Spec
<1> QED
  BY <1>2, PTL DEF TerminalIsFinal, Final

(***************************************************************************)
(* Exclusive execution.  A sequence exists as a whole or not at all, so no  *)
(* row appears behind an ancestor that was already attempted.               *)
(***************************************************************************)
Whole(m) ==
    \A q \in Chain : \A x, y \in Commands(q) : m[x].status = "absent" <=> m[y].status = "absent"

ExclusiveInv == OrderInv /\ Whole(cmd) /\ ExclusiveExecution

\* Sequences stay whole when rows neither appear nor disappear.
LEMMA FollowsWhole ==
    ASSUME NEW m, NEW n, Whole(m), Follows(m, n, OrdinaryCommand)
    PROVE  Whole(n)
BY CommandSets DEF Whole, Follows

\* A sequence is created as a whole.
LEMMA NewChainWhole ==
    ASSUME NEW m \in Rows, Whole(m), NEW q \in Chain
    PROVE  Whole(NewChain(m, q))
<1>1. ASSUME NEW x \in Commands(q) PROVE NewChain(m, q)[x].status # "absent"
  <2>1. NewChain(m, q)[x] \in {NewRow("pending"), NewRow("waiting")}
    BY CommandSets DEF NewChain
  <2> QED
    BY <2>1, NewRowUnsent
<1>2. ASSUME NEW p \in Chain, p # q, NEW x \in Commands(p) PROVE NewChain(m, q)[x] = m[x]
  <2>1. x \in Command /\ x \notin Commands(q)
    BY <1>2, CommandSets DEF Commands, Ordinary
  <2> QED
    BY <2>1 DEF NewChain
<1> QED
  BY <1>1, <1>2 DEF Whole

\* So is one the store queues by itself.
LEMMA QueueOnceWhole ==
    ASSUME NEW m \in Rows, Whole(m), NEW pool \in SUBSET Chain, NEW n \in QueueOnce(m, pool)
    PROVE  Whole(n)
BY NewChainWhole DEF QueueOnce

\* advance() leaves the commands of others alone.
LEMMA AdvanceLocal ==
    ASSUME NEW m, NEW c \in Change, NEW st
    PROVE  \A x \in Command \ Owned(c) : Advance(m, st, c).cmd[x] = m[x]
<1> DEFINE n == Advance(m, st, c)
<1>1. \A o \in {m, StopUnsent(m, c)} : \A x \in Command \ Owned(c) : o[x] = m[x]
  BY DEF StopUnsent, Owned
<1>2. \A o \in {m, StopUnsent(m, c)} : RollbackCreations(o, c, FALSE) \subseteq Owned(c)
  BY DEF RollbackCreations, Owned, Rollbacks, Compensable
<1>3. \A o \in {m, StopUnsent(m, c)} : \A x \in Command \ Owned(c) : Compensate(o, c)[x] = m[x]
  BY <1>1, <1>2 DEF Compensate, Owned
<1>4. \E o \in {m, StopUnsent(m, c)} : n.cmd \in {o, Compensate(o, c)}
  BY DEF Advance
<1> HIDE DEF n
<1>5. \A x \in Command \ Owned(c) : n.cmd[x] = m[x]
  BY <1>1, <1>3, <1>4
<1> QED
  BY <1>5 DEF n

\* Every step leaves sequences whole.
LEMMA WholeStep ==
    ASSUME OrderInv, Whole(cmd), Next
    PROVE  Whole(cmd')
<1>0. /\ TypeOK /\ cmd \in Rows /\ RowsHonest(cmd) /\ LeasedIsSent(cmd)
      /\ \A c \in Change : Inherited(c) \/ Sound(cmd, status[c], c)
  BY DEF OrderInv, CompensationInv, TypeOK, Rows
<1>1. ASSUME \A x \in OrdinaryCommand : cmd'[x].status = "absent" <=> cmd[x].status = "absent"
      PROVE  Whole(cmd')
  BY <1>1, CommandSets DEF Whole
<1>2. \A x \in OrdinaryCommand : x \in Command /\ x \notin OwnedCommand
  BY CommandSets, Disjoint, OwnerOf
<1>3. \A c \in Change : \A x \in OrdinaryCommand : x \in Command \ Owned(c)
  BY <1>2, CommandSets
<1>4. CASE MigrateLegacy
  BY <1>1, <1>2, <1>4 DEF MigrateLegacy, MigratedRow
<1>5. ASSUME NEW q \in Chain, CreateSequence(q) PROVE Whole(cmd')
  BY <1>0, <1>5, NewChainWhole DEF CreateSequence
<1>6. ASSUME NEW k \in Command, EndStep(k) PROVE Whole(cmd')
  <2>1. PICK row \in Row, pool \in SUBSET Chain :
            Wrote(k, row) /\ \E m \in Ended(k, row, pool) : AfterResult(m, k)
    BY <1>6 DEF EndStep
  <2>2. PICK m \in Ended(k, row, pool) : AfterResult(m, k)
    BY <2>1
  <2>3. Follows(cmd, Finish(k, row), Command) /\ Finish(k, row) \in Rows
    BY <1>0, <1>6, <2>1, FinishFollows, FinishTyped DEF EndStep, Wrote
  <2>4. Whole(Finish(k, row))
    BY <1>2, <2>3, FollowsWhole DEF Follows
  <2>5. Whole(m) /\ m \in Rows
    BY <1>0, <2>3, <2>4, QueueOnceWhole, EndedTyped DEF Ended
  <2>6. CASE k \in OwnedCommand /\ version[k[2]] = 1
    <3> DEFINE c == k[2]
               n == Advance(m, status[c], c)
    <3>1. c \in Change /\ cmd' = n.cmd
      BY <2>2, <2>6, OwnerOf DEF AfterResult, AdvanceTo
    <3>2. \A x \in Command \ Owned(c) : n.cmd[x] = m[x]
      BY <3>1, AdvanceLocal
    <3> HIDE DEF n, c
    <3> QED
      BY <1>3, <2>5, <3>1, <3>2, FollowsWhole DEF Follows
  <2>7. CASE ~(k \in OwnedCommand /\ version[k[2]] = 1)
    BY <2>2, <2>5, <2>7 DEF AfterResult
  <2> QED
    BY <2>6, <2>7
<1>7. ASSUME NEW k \in Command, LeaseStep(k) PROVE Whole(cmd')
  <2>1. PICK row \in Row : StillOpen(cmd[k], row) /\ Held(k, row) /\ cmd' = [cmd EXCEPT ![k] = row]
    BY <1>7 DEF LeaseStep
  <2>2. cmd'[k] = row /\ \A x \in Command : x # k => cmd'[x] = cmd[x]
    BY <1>0, <2>1 DEF Rows
  <2> QED
    BY <1>1, <1>2, <2>1, <2>2 DEF StillOpen
<1>8. ASSUME NEW c \in Change, ChangeStep(c) PROVE Whole(cmd')
  <2>1. CASE Dispatch(c)
    <3>1. \A x \in OrdinaryCommand : x \in Command /\ x \notin Forwards(c)
      BY <1>3 DEF Owned
    <3> QED
      BY <1>1, <2>1, <3>1 DEF Dispatch
  <2>2. CASE CancelPlan(c) \/ Accept(c)
    BY <1>1, <2>2 DEF CancelPlan, Accept
  <2>3. CASE RequestRollback(c)
    <3> DEFINE r == RetryRows(c)
               n == Advance(r, "rollback_queued", c)
    <3>1. cmd' = n.cmd
      BY <2>3 DEF RequestRollback, AdvanceTo
    <3>2. \A x \in Command \ Owned(c) : n.cmd[x] = r[x] /\ r[x] = cmd[x]
      BY <1>0, AdvanceLocal, RetryAside DEF Owned
    <3> HIDE DEF n, r
    <3> QED
      BY <1>1, <1>3, <3>1, <3>2
  <2> QED
    BY <1>8, <2>1, <2>2, <2>3 DEF ChangeStep
<1>9. ASSUME migrated, NEW s \in Server, ServerStep(s) PROVE Whole(cmd')
  <2>1. ASSUME NEW capable \in BOOLEAN, RegisterAgent(s, capable) PROVE Whole(cmd')
    BY <1>0, <2>1, ConstantsAssumption, QueueOnceWhole DEF RegisterAgent
  <2>2. ASSUME NEW next, RemovalPass(s, next) PROVE Whole(cmd')
    <3>1. PICK ks \in SUBSET Retirable(s) : cmd' = Retire(ks)
      BY <2>2 DEF RemovalPass
    <3>2. ASSUME NEW x \in Command PROVE cmd'[x].status = "absent" <=> cmd[x].status = "absent"
      <4>1. Skip(cmd[x]).status = "skipped"
        BY <1>0, RowStatuses DEF Rows
      <4> QED
        BY <3>1, <4>1 DEF Retire, Retirable, Unsent
    <3> QED
      BY <1>1, <1>2, <3>2
  <2>3. CASE BeginNodeRemoval(s) \/ AdvanceNodeRemoval(s)
    <3>1. (\E next : RemovalPass(s, next)) \/ cmd' = cmd
      BY <2>3 DEF BeginNodeRemoval, AdvanceNodeRemoval
    <3> QED
      BY <1>1, <2>2, <3>1
  <2> QED
    BY <1>9, <2>1, <2>3 DEF ServerStep
<1>10. ASSUME NEW k \in Command, CommandStep(k) PROVE Whole(cmd')
  BY <1>0, <1>6, <1>7, <1>10, CommandCases
<1> QED
  BY <1>4, <1>5, <1>8, <1>9, <1>10 DEF Next

\* A coordinated change set with a command in flight holds all its targets, and
\* nobody awaits review there.
LEMMA InFlightHolds ==
    ASSUME OrderInv, NEW k \in OwnedCommand, InFlight(cmd[k]), version[k[2]] = 1
    PROVE  \A s \in Targets(k[2]) : lock[s] = k[2] /\ AwaitingReview(s) = {}
<1> DEFINE c == k[2]
<1>1. c \in Change /\ k \in Owned(c) /\ status[c] \in ChangeStatus
  BY OwnerOf DEF OrderInv, CompensationInv, TypeOK
<1>2. cmd[k].status \notin Terminal \cup {"absent"}
  BY DEF InFlight, Terminal
<1>3. status[c] \notin {"planned", "cancelled"}
  BY <1>1, <1>2 DEF OrderInv, CompensationInv, Inherited, Sound
<1>4. status[c] \notin {"succeeded", "rolled_back", "accepted"}
  <2>1. Settled(cmd, status[c], c)
    BY <1>1 DEF OrderInv, Rest
  <2> QED
    BY <1>1, <1>2, <2>1 DEF Settled
<1>5. status[c] # "needs_review"
  BY <1>1 DEF OrderInv, ReservationInv, ReviewIsLegacy
<1>6. status[c] \in Holding
  BY <1>1, <1>3, <1>4, <1>5 DEF ChangeStatus, Holding
<1>7. \A s \in Targets(c) : lock[s] = c
  BY <1>1, <1>6 DEF OrderInv, ReservationInv, ReservationsMatchStatus
<1>8. \A s \in Targets(c) : s \in Server /\ c # NoChange
  BY <1>1, TargetsTyped, ConstantsAssumption
<1> QED
  BY <1>7, <1>8 DEF OrderInv, ReservationInv, ReviewExcludesReservation

\* Of one change set at most one command is with an agent or about to be.
LEMMA OneAtATime ==
    ASSUME OrderInv, NEW c \in Change, version[c] = 1, NEW k \in Owned(c), NEW x \in Owned(c), x # k,
           cmd[k].status \in {"pending", "leased"}
    PROVE  ~InFlight(cmd[x])
<1> SUFFICES ASSUME InFlight(cmd[x]) PROVE FALSE
  OBVIOUS
<1>1. /\ Sound(cmd, status[c], c) /\ Order(cmd, c)
      /\ cmd[k].status \notin Terminal \cup {"absent"} /\ Reached(cmd[k])
      /\ cmd[x].status \notin Terminal \cup {"absent"} /\ Reached(cmd[x])
  BY DEF OrderInv, CompensationInv, Inherited, InFlight, Reached, Terminal
<1>2. ASSUME NEW f \in Forwards(c), NEW r \in Rollbacks(c), {f, r} \subseteq {k, x} PROVE FALSE
  BY <1>1, <1>2 DEF Sound
<1>3. ASSUME NEW i \in Steps(c), NEW j \in Steps(c), i < j, Forward(c, i) \in {k, x}, Forward(c, j) \in {k, x}
      PROVE  FALSE
  BY <1>1, <1>3 DEF Order, InOrder, Terminal
<1>4. ASSUME NEW i \in Steps(c), NEW j \in Steps(c), i < j, Rollback(c, i) \in {k, x}, Rollback(c, j) \in {k, x}
      PROVE  FALSE
  BY <1>1, <1>4 DEF Order, InReverse, Belongs, Terminal
<1>5. CASE k \in Forwards(c) /\ x \in Forwards(c)
  <2>1. k[3] < x[3] \/ x[3] < k[3]
    BY <1>5, Named, StepsNat
  <2> QED
    BY <1>3, <1>5, <2>1, Named
<1>6. CASE k \in Rollbacks(c) /\ x \in Rollbacks(c)
  <2>1. k[3] < x[3] \/ x[3] < k[3]
    BY <1>6, Named, StepsNat
  <2> QED
    BY <1>4, <1>6, <2>1, Named
<1> QED
  BY <1>2, <1>5, <1>6 DEF Owned

\* A step that sends nothing keeps execution exclusive: where it readies or
\* attempts an ordinary command behind another, nothing is reserved.
LEMMA UnsentStep ==
    ASSUME ExclusiveInv, version' = version \/ MigrateLegacy,
           \A x \in Command : InFlight(cmd'[x]) => InFlight(cmd[x]),
           \A x \in OrdinaryCommand, a \in Command :
               IsBelow(x, a) /\ cmd'[x].status \in {"waiting", "pending"} /\ Attempted(cmd'[a])
               => \/ InFlight(cmd[x]) \/ lock[Target(x)] = NoChange
                  \/ cmd[x].status \in {"waiting", "pending"} /\ Attempted(cmd[a])
    PROVE  ExclusiveExecution'
<1>0. OrderInv /\ ExclusiveExecution
  BY DEF ExclusiveInv
<1> SUFFICES ASSUME NEW k \in OwnedCommand, InFlight(cmd'[k]), version'[k[2]] = 1,
                    NEW x \in Command \ {k}, Target(x) \in Targets(k[2])
             PROVE  /\ ~InFlight(cmd'[x])
                    /\ x \in OrdinaryCommand /\ cmd'[x].status \in {"waiting", "pending"}
                        => \A a \in Command : IsBelow(x, a) => ~Attempted(cmd'[a])
  BY DEF ExclusiveExecution, InFlight, Attempted
<1>1. k \in Command /\ k[2] \in Change /\ k \in Owned(k[2]) /\ InFlight(cmd[k])
  BY CommandSets, OwnerOf
<1>2. version[k[2]] = 1
  <2>1. CASE MigrateLegacy
    <3>1. version[k[2]] = 1 \/ status[k[2]] = "planned"
      BY <1>1, <2>1 DEF MigrateLegacy
    <3>2. status[k[2]] = "planned" => cmd[k].status = "absent"
      BY <1>0, <1>1 DEF OrderInv, CompensationInv, Inherited, Sound
    <3> QED
      BY <1>1, <3>1, <3>2 DEF InFlight
  <2> QED
    BY <2>1
<1>3. lock[Target(x)] # NoChange
  BY <1>0, <1>1, <1>2, InFlightHolds, ConstantsAssumption
<1>4. /\ ~InFlight(cmd[x])
      /\ x \in OrdinaryCommand /\ cmd[x].status \in {"waiting", "pending"}
            => \A a \in Command : IsBelow(x, a) => ~Attempted(cmd[a])
  BY <1>0, <1>1, <1>2 DEF ExclusiveExecution
<1> QED
  BY <1>3, <1>4

\* What is behind or before an ordinary command is of the same sequence and goes
\* to the same server.
LEMMA SameChain ==
    ASSUME NEW x \in OrdinaryCommand, NEW a \in Command, IsBelow(x, a)
    PROVE  /\ \E q \in Chain : x \in Commands(q) /\ a \in Commands(q)
           /\ a \in OrdinaryCommand /\ Target(a) = Target(x)
<1>1. PICK q \in Chain : x \in Commands(q)
  BY DEF OrdinaryCommand
<1>2. a \in Commands(q)
  BY <1>1, CommandSets, BelowStays
<1>3. x[1] = "ordinary" /\ a[1] = "ordinary" /\ x[2] = a[2]
  BY <1>1, <1>2 DEF Commands, Ordinary
<1> QED
  BY <1>1, <1>2, <1>3, CommandSets DEF Target

\* In whole sequences nothing is missing behind a command that exists.
LEMMA NothingMissing ==
    ASSUME RowsHonest(cmd), Whole(cmd), NEW x \in OrdinaryCommand, NEW a \in Command, IsBelow(x, a),
           cmd[x].status = "absent"
    PROVE  cmd[a].status = "absent" /\ ~Attempted(cmd[a])
<1>1. cmd[a].status = "absent"
  BY SameChain DEF Whole
<1> QED
  BY <1>1 DEF RowsHonest, Attempted

\* Mild steps keep execution exclusive.
LEMMA MildExclusive ==
    ASSUME ExclusiveInv, version' = version \/ MigrateLegacy, Mild(cmd, cmd')
    PROVE  ExclusiveExecution'
<1>0. OrderInv /\ Whole(cmd) /\ RowsHonest(cmd) /\ cmd \in Rows
  BY DEF ExclusiveInv, OrderInv, CompensationInv, TypeOK, Rows
<1>1. \A x \in Command : /\ InFlight(cmd'[x]) => InFlight(cmd[x])
                         /\ Attempted(cmd'[x]) <=> Attempted(cmd[x])
  BY <1>0, MildKeeps
<1>2. ASSUME NEW x \in OrdinaryCommand, NEW a \in Command, IsBelow(x, a),
             cmd'[x].status \in {"waiting", "pending"}, Attempted(cmd'[a])
      PROVE  cmd[x].status \in {"waiting", "pending"} /\ Attempted(cmd[a])
  <2>1. Attempted(cmd[a])
    BY <1>1, <1>2
  <2>2. cmd[x].status # "absent"
    BY <1>0, <1>2, <2>1, NothingMissing
  <2>3. MildRow(cmd[x], cmd'[x])
    BY CommandSets DEF Mild
  <2> QED
    BY <1>2, <2>1, <2>2, <2>3 DEF MildRow, Unsent
<1> QED
  BY <1>1, <1>2, UnsentStep

\* The end of a command keeps execution exclusive: an answer for a command that
\* was never sent is taken only where nothing is reserved.
LEMMA EndExclusive ==
    ASSUME ExclusiveInv, version' = version, NEW k \in Command, EndStep(k)
    PROVE  ExclusiveExecution'
<1>0. OrderInv /\ Whole(cmd) /\ RowsHonest(cmd) /\ cmd \in Rows /\ TypeOK
  BY DEF ExclusiveInv, OrderInv, CompensationInv, TypeOK, Rows
<1>1. PICK row \in Row : /\ Wrote(k, row) /\ [cmd EXCEPT ![k] = row] \in Rows
                         /\ RowsHonest([cmd EXCEPT ![k] = row])
                         /\ Mild([cmd EXCEPT ![k] = row], cmd')
  BY <1>0, EndMild
<1> DEFINE base == [cmd EXCEPT ![k] = row]
<1>2. base[k] = row /\ \A x \in Command : x # k => base[x] = cmd[x]
  BY <1>0 DEF Rows
<1> HIDE DEF base
<1>3. \A x \in Command : /\ InFlight(cmd'[x]) => InFlight(base[x])
                         /\ Attempted(cmd'[x]) <=> Attempted(base[x])
                         /\ base[x].status \in Terminal => cmd'[x] = base[x]
                         /\ MildRow(base[x], cmd'[x])
  BY <1>1, MildKeeps DEF base, Mild
<1>4. row.status \in Terminal /\ cmd[k].status \in {"pending", "leased"}
  BY <1>1 DEF Wrote, EndStep
<1>5. \A x \in Command : InFlight(cmd'[x]) => InFlight(cmd[x])
  BY <1>2, <1>3, <1>4 DEF InFlight, Terminal
<1>6. ASSUME NEW x \in OrdinaryCommand, NEW a \in Command, IsBelow(x, a),
             cmd'[x].status \in {"waiting", "pending"}, Attempted(cmd'[a])
      PROVE  \/ lock[Target(x)] = NoChange
             \/ cmd[x].status \in {"waiting", "pending"} /\ Attempted(cmd[a])
  <2>1. x \in Command /\ x # k
    BY <1>2, <1>3, <1>4, <1>6, CommandSets DEF Terminal
  <2>2. MildRow(cmd[x], cmd'[x])
    BY <1>2, <1>3, <2>1
  <2>3. CASE a = k
    <3>1. cmd[x].status # "absent"
      BY <1>0, <1>4, <1>6, <2>3, NothingMissing
    <3>2. cmd[x].status \in {"waiting", "pending"}
      BY <1>6, <2>2, <3>1 DEF MildRow, Unsent
    <3>3. row.sent = cmd[k].sent /\ (row.sent \/ lock[Target(k)] = NoChange)
      <4>1. Attempted(row)
        BY <1>2, <1>3, <1>6, <2>3
      <4> QED
        BY <1>1, <4>1 DEF Wrote, Attempted
    <3>4. Target(k) = Target(x)
      BY <1>6, <2>3, SameChain
    <3> QED
      BY <2>3, <3>2, <3>3, <3>4 DEF Attempted
  <2>4. CASE a # k
    <3>1. Attempted(cmd[a])
      BY <1>2, <1>3, <1>6, <2>4
    <3>2. cmd[x].status # "absent"
      BY <1>0, <1>6, <3>1, NothingMissing
    <3> QED
      BY <1>6, <2>2, <3>1, <3>2 DEF MildRow, Unsent
  <2> QED
    BY <2>3, <2>4
<1> QED
  BY <1>5, <1>6, UnsentStep

\* A lease keeps execution exclusive: can_lease() admits a coordinated command
\* only where nothing else runs or has started, and an ordinary one only where
\* nothing is reserved or it finishes what was started.
LEMMA LeaseExclusive ==
    ASSUME ExclusiveInv, version' = version, NEW k \in Command, LeaseStep(k)
    PROVE  ExclusiveExecution'
<1>0. /\ OrderInv /\ Whole(cmd) /\ RowsHonest(cmd) /\ cmd \in Rows /\ TypeOK /\ LeasedIsSent(cmd)
      /\ ExclusiveExecution
  BY DEF ExclusiveInv, OrderInv, CompensationInv, TypeOK, Rows
<1>1. PICK row \in Row : StillOpen(cmd[k], row) /\ Held(k, row) /\ cmd' = [cmd EXCEPT ![k] = row]
  BY DEF LeaseStep
<1>2. cmd'[k] = row /\ \A x \in Command : x # k => cmd'[x] = cmd[x]
  BY <1>0, <1>1 DEF Rows
<1>3. /\ cmd[k].status \in {"pending", "leased"} /\ row.status \in {"pending", "leased"}
      /\ cmd[k].status = "leased" => cmd[k].sent = TRUE
      /\ cmd[k].sent \in BOOLEAN
  BY <1>0, <1>1, RowStatuses DEF StillOpen, LeasedIsSent, Rows
<1>4. CASE row.sent = cmd[k].sent
  <2>1. \A x \in Command : InFlight(cmd'[x]) => InFlight(cmd[x])
    BY <1>2, <1>3, <1>4 DEF InFlight
  <2>2. \A a \in Command : Attempted(cmd'[a]) => Attempted(cmd[a])
    BY <1>2, <1>3, <1>4 DEF Attempted
  <2>3. \A x \in Command : cmd'[x].status \in {"waiting", "pending"}
                           => InFlight(cmd[x]) \/ cmd[x].status \in {"waiting", "pending"}
    BY <1>2, <1>3 DEF InFlight
  <2> QED
    BY <2>1, <2>2, <2>3, UnsentStep, CommandSets
<1>5. CASE row.sent # cmd[k].sent
  <2>1. CanLease(k) /\ ~cmd[k].sent /\ cmd[k].status = "pending" /\ ~InFlight(cmd[k])
    BY <1>1, <1>3, <1>5 DEF Held, InFlight
  <2> DEFINE s == Target(k)
\* Another command in flight: its change set holds its targets.
  <2>2. ASSUME NEW f \in OwnedCommand, f # k, InFlight(cmd[f]), version[f[2]] = 1
        PROVE  s \notin Targets(f[2])
    <3> SUFFICES ASSUME s \in Targets(f[2]) PROVE FALSE
      OBVIOUS
    <3>1. lock[s] = f[2] /\ AwaitingReview(s) = {} /\ f[2] \in Change /\ f[2] # NoChange
      BY <1>0, <2>2, InFlightHolds, OwnerOf, ConstantsAssumption
    <3>2. CASE k \in OrdinaryCommand
      <4>1. k \notin OwnedCommand
        BY <3>2, OwnerOf, Disjoint
      <4>2. Draining(k)
        BY <2>1, <3>1, <4>1 DEF CanLease
      <4>3. \E a \in Command : IsBelow(k, a) /\ Attempted(cmd[a])
        BY <2>1, <4>2 DEF Draining
      <4> QED
        BY <1>0, <2>1, <2>2, <3>2, <4>3 DEF ExclusiveExecution
    <3>3. CASE k \in OwnedCommand
      <4> DEFINE c == k[2]
      <4>1. c \in Change /\ k \in Owned(c)
        BY <3>3, OwnerOf
      <4>2. version[c] = 1
        BY <1>0, <2>1, <3>3, <4>1 DEF CanLease, TypeOK
      <4>3. c # f[2]
        BY <1>0, <1>3, <2>2, <4>1, <4>2, OneAtATime, OwnerOf
      <4>4. Unsent(cmd[k])
        BY <2>1 DEF Unsent
      <4>5. lock[s] = c
        BY <1>0, <3>3, <4>2, <4>4, UnsentHolds
      <4> QED
        BY <3>1, <4>3, <4>5
    <3> QED
      BY <3>2, <3>3 DEF Command
\* The command itself: nothing else runs or has started on any target.
  <2>3. ASSUME k \in OwnedCommand, version[k[2]] = 1,
               NEW x \in Command \ {k}, Target(x) \in Targets(k[2])
        PROVE  /\ ~InFlight(cmd[x])
               /\ x \in OrdinaryCommand /\ cmd[x].status \in {"waiting", "pending"}
                    => \A a \in Command : IsBelow(x, a) => ~Attempted(cmd[a])
    <3> DEFINE c == k[2]
    <3>1. Unsent(cmd[k])
      BY <2>1 DEF Unsent
    <3>2. c \in Change /\ k \in Owned(c) /\ s \in Targets(c) /\ lock[s] = c
      BY <1>0, <2>3, <3>1, UnsentHolds
    <3>3. c # NoChange /\ s \in Server
      BY <3>2, TargetsTyped, ConstantsAssumption
    <3>4. AwaitingReview(s) = {}
      BY <1>0, <3>2, <3>3 DEF OrderInv, ReservationInv, ReviewExcludesReservation
    <3>5. ExternalInFlight(c) = {}
      BY <2>1, <2>3, <3>2, <3>3, <3>4 DEF CanLease
    <3>6. CASE x \in Owned(c)
      <4>1. ~InFlight(cmd[x])
        BY <1>0, <1>3, <2>3, <3>2, <3>6, OneAtATime
      <4>2. x \notin OrdinaryCommand
        BY <3>2, <3>6, Disjoint
      <4> QED
        BY <4>1, <4>2
    <3>7. CASE x \notin Owned(c)
      <4>1. cmd[x].status \in {"waiting", "pending", "leased"} => ~Draining(x)
        BY <2>3, <3>5, <3>7 DEF ExternalInFlight
      <4> QED
        BY <4>1 DEF Draining, InFlight
    <3> QED
      BY <3>6, <3>7
  <2>4. ASSUME NEW f \in OwnedCommand, InFlight(cmd'[f]), version[f[2]] = 1,
               NEW x \in Command \ {f}, Target(x) \in Targets(f[2])
        PROVE  /\ ~InFlight(cmd'[x])
               /\ x \in OrdinaryCommand /\ cmd'[x].status \in {"waiting", "pending"}
                    => \A a \in Command : IsBelow(x, a) => ~Attempted(cmd'[a])
    <3>1. CASE f = k
      <4>1. cmd'[x] = cmd[x]
        BY <1>2, <2>4, <3>1
      <4>2. \A a \in Command : x \in OrdinaryCommand /\ IsBelow(x, a) => cmd'[a] = cmd[a]
        <5>1. \A a \in Command : x \in OrdinaryCommand /\ IsBelow(x, a) => a # k
          BY <2>4, <3>1, SameChain, OwnerOf, Disjoint
        <5> QED
          BY <1>2, <5>1
      <4> QED
        BY <2>3, <2>4, <3>1, <4>1, <4>2
    <3>2. CASE f # k
      <4>1. f \in Command /\ InFlight(cmd[f])
        BY <1>2, <2>4, <3>2, CommandSets
      <4>2. s \notin Targets(f[2])
        BY <2>2, <2>4, <3>2, <4>1
      <4>3. x # k /\ cmd'[x] = cmd[x]
        BY <1>2, <2>4, <4>2
      <4>4. \A a \in Command : x \in OrdinaryCommand /\ IsBelow(x, a) => cmd'[a] = cmd[a]
        <5>1. \A a \in Command : x \in OrdinaryCommand /\ IsBelow(x, a) => a # k
          BY <2>4, <4>2, SameChain
        <5> QED
          BY <1>2, <5>1
      <4>5. /\ ~InFlight(cmd[x])
            /\ x \in OrdinaryCommand /\ cmd[x].status \in {"waiting", "pending"}
                  => \A a \in Command : IsBelow(x, a) => ~Attempted(cmd[a])
        BY <1>0, <2>4, <4>1 DEF ExclusiveExecution
      <4> QED
        BY <4>3, <4>4, <4>5
    <3> QED
      BY <3>1, <3>2
  <2> QED
    BY <2>4 DEF ExclusiveExecution, InFlight, Attempted
<1> QED
  BY <1>4, <1>5

\* Every step keeps execution exclusive.
LEMMA ExclusiveStep == ExclusiveInv /\ [Next]_vars => ExclusiveInv'
<1> SUFFICES ASSUME ExclusiveInv, [Next]_vars PROVE ExclusiveInv'
  OBVIOUS
<1>0. OrderInv /\ Whole(cmd) /\ RowsHonest(cmd) /\ TypeOK /\ OrderInv'
  BY OrderStep DEF ExclusiveInv, OrderInv, CompensationInv
<1>1. CASE Next
  <2>1. Whole(cmd)'
    BY <1>0, <1>1, WholeStep DEF Whole
  <2>2. version' = version \/ MigrateLegacy
    <3>1. ASSUME NEW k \in Command, CommandStep(k) PROVE version' = version
      BY <1>0, <3>1, CommandCases
    <3>2. ASSUME NEW c \in Change, ChangeStep(c) PROVE version' = version
      BY <3>2 DEF ChangeStep, Dispatch, CancelPlan, RequestRollback, Accept
    <3>3. ASSUME NEW s \in Server, ServerStep(s) PROVE version' = version
      BY <3>3 DEF ServerStep, RegisterAgent, BeginNodeRemoval, AdvanceNodeRemoval, RemovalPass
    <3> QED
      BY <1>1, <3>1, <3>2, <3>3 DEF Next, CreateSequence
  <2>3. ASSUME NEW k \in Command, EndStep(k) \/ LeaseStep(k), version' = version
        PROVE  ExclusiveExecution'
    BY <2>3, EndExclusive, LeaseExclusive
  <2>4. ASSUME NEW c \in Change, RequestRollback(c), Mild(RetryRows(c), cmd'), version' = version
        PROVE  ExclusiveExecution'
    <3> DEFINE r == RetryRows(c)
    <3>1. /\ r \in Rows
          /\ \A x \in Command : \/ r[x] = cmd[x]
                                \/ /\ x \in Rollbacks(c) /\ r[x] = Absent
      BY <1>0, RetryAside
    <3>2. cmd' = Advance(r, "rollback_queued", c).cmd
      BY <2>4 DEF RequestRollback, AdvanceTo
    <3>3. ASSUME NEW x \in OrdinaryCommand PROVE cmd'[x] = cmd[x]
      <4>1. x \in Command \ Owned(c) /\ x \notin Rollbacks(c)
        BY CommandSets, Disjoint DEF Owned
      <4> QED
        BY <3>1, <3>2, <4>1, AdvanceLocal
    <3> HIDE DEF r
    <3>4. RowsHonest(r)
      BY <1>0, <3>1, NewRowUnsent DEF RowsHonest
    <3>5. \A x \in Command : InFlight(cmd'[x]) => InFlight(cmd[x])
      <4>1. \A x \in Command : InFlight(cmd'[x]) => InFlight(r[x])
        BY <2>4, <3>1, <3>4, MildKeeps DEF r
      <4>2. ~InFlight(Absent)
        BY NewRowUnsent DEF InFlight
      <4> QED
        BY <3>1, <4>1, <4>2
    <3> QED
      BY <2>4, <3>3, <3>5, SameChain, UnsentStep
  <2>5. ExclusiveExecution'
    <3>1. CASE MigrateLegacy
      BY <1>0, <3>1, MigrateMild, MildExclusive
    <3>2. CASE version' = version
      BY <1>0, <1>1, <2>3, <2>4, <3>2, StepCases, MildExclusive
    <3> QED
      BY <2>2, <3>1, <3>2
  <2> QED
    BY <1>0, <2>1, <2>5 DEF ExclusiveInv
<1>2. CASE UNCHANGED vars
  BY <1>0, <1>2 DEF vars, ExclusiveInv, ExclusiveExecution, Whole, InFlight, Attempted
<1> QED
  BY <1>1, <1>2

\* While a command of a change set is with an agent, nothing else is with an agent
\* on any server the change set targets, and no sequence is left half-way there.
THEOREM ExclusiveSafe == Spec => []ExclusiveExecution
<1>1. ASSUME Init PROVE ExclusiveInv
  <2>1. OrderInv /\ LegacyRests /\ ~migrated
    BY <1>1, OrderInit DEF OrderInv, Init
  <2>2. ASSUME NEW q \in Chain
        PROVE  \/ \A x \in Commands(q) : cmd[x].status = "absent"
               \/ \A x \in Commands(q) : cmd[x].status # "absent"
    BY <1>1, InitRows, LegacyRowTyped, NewRowUnsent
  <2>3. Whole(cmd)
    BY <2>2 DEF Whole
  <2>4. ExclusiveExecution
    <3> SUFFICES ASSUME NEW k \in OwnedCommand, InFlight(cmd[k]), version[k[2]] = 1 PROVE FALSE
      BY DEF ExclusiveExecution
    <3>1. k[2] \in Change /\ k \in Owned(k[2])
      BY OwnerOf
    <3>2. status[k[2]] = "planned"
      BY <2>1, <3>1 DEF LegacyRests
    <3>3. cmd[k].status = "absent"
      BY <2>1, <3>1, <3>2 DEF OrderInv, CompensationInv, Inherited, Sound
    <3> QED
      BY <3>3 DEF InFlight
  <2> QED
    BY <2>1, <2>3, <2>4 DEF ExclusiveInv
<1>2. ExclusiveInv => ExclusiveExecution
  BY DEF ExclusiveInv
<1> QED
  BY <1>1, <1>2, ExclusiveStep, PTL DEF Spec
=============================================================================
