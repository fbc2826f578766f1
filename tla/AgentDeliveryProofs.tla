------------------------- MODULE AgentDeliveryProofs -------------------------
(***************************************************************************)
(* Proofs about AgentDelivery for every set of commands, every queue limit  *)
(* and every number of faults: type correctness, at-most-once execution,    *)
(* the agreement of recorded outcomes with what the agent did, the          *)
(* refinement of RemoteCall, and that leases, acknowledgements and the live *)
(* socket survive what comes late.                                          *)
(***************************************************************************)
EXTENDS AgentDelivery, TLAPS

\* The types, part by part.
RowType == [status : {"pending", "leased"} \cup Settled, attempts : Nat, live : BOOLEAN]
PushType == [cmd : Command, attempt : Nat, socket : Nat]
CallType == [type : {"call"}, socket : Nat, cmd : Command, attempt : Nat]
ReplyType == [type : {"reply"}, socket : Nat, cmd : Command, result : Reply]
AckType == [type : {"ack"}, socket : Nat, cmd : Command]
QueueType == [cmd : Command, attempt : Nat]
ThreadType == [pc : {"idle", "wait", "run", "applied", "reply"},
               cmd : Command \cup {NoCommand}, result : Reply, attempt : Nat]

PanelTypes ==
    /\ row \in [Command -> RowType]
    /\ opened \in Nat /\ conn \in 0 .. opened /\ registered \in 0 .. opened
    /\ entering \cup accepting \cup handlers \subseteq 1 .. opened
    /\ pushes \subseteq PushType
    /\ faults \in Nat /\ timeouts \in Nat

FlagTypes == cut \in BOOLEAN /\ ready \in BOOLEAN

WireTypes == wire \subseteq CallType \cup ReplyType \cup AckType

ThreadTypes ==
    /\ thread \in [Thread -> ThreadType]
    /\ \A t \in Thread : Busy(t) => thread[t].cmd \in Command

AgentTypes ==
    /\ queue \in Seq(QueueType) /\ Len(queue) <= QueueLimit
    /\ journal \in [Command -> {"none", "begun"} \cup Result]
    /\ acked \subseteq Command
    /\ effects \in [Command -> Nat]

\* TypeOK is the conjunction of the five parts.
LEMMA TypeParts == TypeOK <=> PanelTypes /\ FlagTypes /\ WireTypes /\ ThreadTypes /\ AgentTypes
  BY DEF TypeOK, PanelTypes, FlagTypes, WireTypes, ThreadTypes, AgentTypes, RowType, PushType, CallType,
         ReplyType, AckType, QueueType, ThreadType

\* The lease operations return rows again.
LEMMA RowOperationsTyped ==
  ASSUME NEW k \in Command, row \in [Command -> RowType]
  PROVE  /\ Leased(k) \in [Command -> RowType]
         /\ \A n \in Nat : ReleaseLease(k, n) \in [Command -> RowType]
         /\ \A r \in Reply : ApplyResult(k, r) \in [Command -> RowType]
         /\ [row EXCEPT ![k].live = FALSE] \in [Command -> RowType]
<1>1. Leased(k) \in [Command -> RowType]
  BY DEF Leased, RowType
<1>2. ASSUME NEW n \in Nat PROVE ReleaseLease(k, n) \in [Command -> RowType]
  BY DEF ReleaseLease, RowType
<1>3. ASSUME NEW r \in Reply PROVE ApplyResult(k, r) \in [Command -> RowType]
  <2>1. CASE r = "ok"
    BY <2>1 DEF ApplyResult, RowType, Settled
  <2>2. CASE r # "ok"
    BY <2>2 DEF ApplyResult, RowType, Settled
  <2> QED BY <2>1, <2>2
<1>4. [row EXCEPT ![k].live = FALSE] \in [Command -> RowType]
  BY DEF RowType
<1> QED BY <1>1, <1>2, <1>3, <1>4

\* Every step keeps the rows, sockets, pushes and counters well formed.
LEMMA PanelTypeStep ==
  ASSUME TypeOK, [Next]_vars
  PROVE  PanelTypes'
<1> USE DEF PanelTypes, sockets
<1>0. PanelTypes /\ WireTypes /\ ThreadTypes /\ AgentTypes
  BY TypeParts
<1>d. ASSUME Disturb PROVE faults' \in Nat
  BY <1>0, <1>d DEF Disturb
<1>u. \A s : Unregister(s) \in 0 .. opened
  BY <1>0 DEF Unregister
<1>1. ASSUME NEW k \in Command, StartPush(k) PROVE PanelTypes'
  <2>1. [cmd |-> k, attempt |-> row[k].attempts + 1, socket |-> registered] \in PushType
    BY <1>0 DEF PushType, RowType
  <2> QED BY <1>0, <1>1, <2>1, RowOperationsTyped DEF StartPush, Calm, agent
<1>2. ASSUME NEW k \in Command, LeaseExpires(k) PROVE PanelTypes'
  BY <1>0, <1>2, <1>d, RowOperationsTyped DEF LeaseExpires, agent
<1>3. ASSUME NEW k \in Command, ReportPending(k) PROVE PanelTypes'
  BY <1>0, <1>3 DEF ReportPending, Calm, agent, panel
<1>4. ASSUME NEW k \in Command, HttpLease(k) PROVE PanelTypes'
  BY <1>0, <1>4, <1>d, RowOperationsTyped DEF HttpLease, Calm
<1>p. ASSUME NEW k \in Command, NEW r \in Reply, Post(k, r)
      PROVE  row' \in [Command -> RowType] /\ faults' \in Nat /\ timeouts' \in Nat
  <2>1. ApplyResult(k, r) \in [Command -> RowType]
    BY <1>0, RowOperationsTyped
  <2> QED BY <1>0, <1>p, <1>d, <2>1 DEF Post, Calm
<1>5. ASSUME NEW k \in Command, HttpReportPending(k) PROVE PanelTypes'
  <2>1. journal[k] \in Reply
    BY <1>5, <1>0 DEF HttpReportPending, Pending, Reply
  <2> QED BY <1>0, <1>5, <1>p, <2>1 DEF HttpReportPending
<1>6. ASSUME NEW p \in pushes, PushSent(p) \/ PushRaises(p) \/ PushTimesOut(p) PROVE PanelTypes'
  <2>1. p.cmd \in Command /\ p.attempt \in Nat
    BY <1>0 DEF PushType
  <2>2. CASE PushSent(p)
    BY <1>0, <2>2, <1>d DEF PushSent, agent
  <2>3. CASE PushRaises(p)
    BY <1>0, <2>1, <2>3, <1>u, RowOperationsTyped DEF PushRaises, FailPush, agent, Calm
  <2>4. CASE PushTimesOut(p)
    <3>1. row' \in [Command -> RowType]
      BY <1>0, <2>1, <2>4, RowOperationsTyped DEF PushTimesOut, FailPush
    <3> QED BY <1>0, <2>4, <1>u, <3>1 DEF PushTimesOut, FailPush, agent
  <2> QED BY <1>6, <2>2, <2>3, <2>4
<1>7. ASSUME NEW m \in wire, HandleReply(m) \/ ReceiveCall(m) \/ ReceiveAck(m) PROVE PanelTypes'
  <2>1. CASE HandleReply(m)
    <3>1. m \in ReplyType
      BY <1>0, <2>1 DEF WireTypes, HandleReply, CallType, ReplyType, AckType
    <3>2. m.cmd \in Command /\ m.result \in Reply
      BY <3>1 DEF ReplyType
    <3> QED BY <1>0, <2>1, <3>2, RowOperationsTyped DEF HandleReply, agent, Calm
  <2>2. CASE ReceiveCall(m)
    BY <1>0, <2>2 DEF ReceiveCall, panel, Calm
  <2>3. CASE ReceiveAck(m)
    BY <1>0, <2>3 DEF ReceiveAck, panel, Calm
  <2> QED BY <1>7, <2>1, <2>2, <2>3
<1>8. ASSUME NEW s \in entering \cup accepting \cup handlers, AnswerAuth(s) \/ Register(s) \/ HandlerEnds(s)
      PROVE  PanelTypes'
  BY <1>0, <1>8, <1>u DEF AnswerAuth, Register, HandlerEnds, agent, Calm
<1>9. ASSUME NEW t \in Thread, ThreadStep(t) PROVE PanelTypes'
  BY <1>0, <1>9, <1>d DEF ThreadStep, Begin, Apply, Finish, Defer, panel, Calm
<1>10. CASE Connect \/ Accepted
  BY <1>0, <1>10 DEF Connect, Accepted, panel, Calm
<1>11. CASE SocketBreaks
  BY <1>0, <1>11, <1>d DEF SocketBreaks, panel
<1>12. CASE WorkerTakes \/ WorkerReplies
  BY <1>0, <1>12 DEF WorkerTakes, WorkerReplies, panel, Calm
<1>13. CASE HttpReplies
  <2>1. thread["http"].cmd \in Command /\ thread["http"].result \in Reply
    BY <1>0, <1>13 DEF ThreadTypes, ThreadType, Thread, Busy, HttpReplies
  <2> QED BY <1>0, <1>13, <1>p, <2>1 DEF HttpReplies
<1>14. CASE PanelRestart
  BY <1>0, <1>14, <1>d DEF PanelRestart
<1>15. CASE AgentCrash
  BY <1>0, <1>15, <1>d DEF AgentCrash, panel
<1>16. CASE UNCHANGED vars
  BY <1>0, <1>16 DEF vars, panel, agent
<1> QED
  BY <1>1, <1>2, <1>3, <1>4, <1>5, <1>6, <1>7, <1>8, <1>9, <1>10, <1>11, <1>12, <1>13, <1>14,
     <1>15, <1>16 DEF Next

\* Every step keeps the flags Boolean.
LEMMA FlagTypeStep ==
  ASSUME TypeOK, [Next]_vars
  PROVE  FlagTypes'
<1> USE DEF FlagTypes, sockets
<1>0. FlagTypes
  BY TypeParts
<1>k. ASSUME UNCHANGED <<cut, ready>> PROVE FlagTypes'
  BY <1>0, <1>k, Zenon
<1>1. ASSUME NEW k \in Command,
             StartPush(k) \/ LeaseExpires(k) \/ ReportPending(k) \/ HttpLease(k) \/ HttpReportPending(k)
      PROVE  UNCHANGED <<cut, ready>>
  BY <1>1 DEF StartPush, LeaseExpires, ReportPending, HttpLease, HttpReportPending, panel, agent
<1>2. ASSUME NEW p \in pushes, PushSent(p) \/ PushRaises(p) PROVE UNCHANGED <<cut, ready>>
  BY <1>2 DEF PushSent, PushRaises, FailPush, agent
<1>3. ASSUME NEW p \in pushes, PushTimesOut(p) PROVE FlagTypes'
  <2>1. ready' = ready /\ cut' = (cut \/ registered = p.socket)
    BY <1>3 DEF PushTimesOut, FailPush, agent
  <2> QED BY <1>0, <2>1, Zenon
<1>4. ASSUME NEW m \in wire, HandleReply(m) \/ ReceiveCall(m) \/ ReceiveAck(m) PROVE UNCHANGED <<cut, ready>>
  BY <1>4 DEF HandleReply, ReceiveCall, ReceiveAck, panel, agent
<1>5. ASSUME NEW s, AnswerAuth(s) \/ HandlerEnds(s) PROVE UNCHANGED <<cut, ready>>
  BY <1>5 DEF AnswerAuth, HandlerEnds, agent
<1>6. ASSUME NEW s, Register(s) PROVE FlagTypes'
  <2>1. ready' = ready /\ cut' = (cut \/ (registered = conn /\ conn \notin {0, s}))
    BY <1>6, Zenon DEF Register, agent
  <2> QED BY <1>0, <2>1, Zenon
<1>7. ASSUME NEW t \in Thread, ThreadStep(t) PROVE UNCHANGED <<cut, ready>>
  BY <1>7 DEF ThreadStep, Begin, Apply, Finish, Defer, panel
<1>8. CASE Connect
  BY <1>0, <1>8, Zenon DEF Connect
<1>9. CASE Accepted
  BY <1>0, <1>9, Zenon DEF Accepted, panel
<1>10. CASE SocketBreaks
  BY <1>0, <1>10, Zenon DEF SocketBreaks, panel
<1>11. CASE PanelRestart
  BY <1>11, Zenon DEF PanelRestart
<1>12. CASE AgentCrash
  BY <1>0, <1>12, Zenon DEF AgentCrash, panel
<1>13. CASE WorkerTakes \/ WorkerReplies \/ HttpReplies \/ UNCHANGED vars
  BY <1>13, <1>k DEF WorkerTakes, WorkerReplies, HttpReplies, vars, panel, agent
<1> QED
  BY <1>k, <1>1, <1>2, <1>3, <1>4, <1>5, <1>6, <1>7, <1>8, <1>9, <1>10, <1>11, <1>12, <1>13 DEF Next

\* Every step keeps the messages on the sockets well formed.
LEMMA WireTypeStep ==
  ASSUME TypeOK, [Next]_vars
  PROVE  WireTypes'
<1> USE DEF WireTypes
<1>0. PanelTypes /\ WireTypes /\ ThreadTypes /\ AgentTypes
  BY TypeParts
<1>1. ASSUME NEW k \in Command, ReportPending(k) PROVE WireTypes'
  <2>1. Answer(conn, k, journal[k]) \in ReplyType
    BY <1>0, <1>1 DEF PanelTypes, ReportPending, Pending, Answer, ReplyType, Reply
  <2> QED BY <1>0, <1>1, <2>1 DEF ReportPending
<1>2. ASSUME NEW p \in pushes, PushSent(p) \/ PushRaises(p) \/ PushTimesOut(p) PROVE WireTypes'
  <2>1. CallTo(p.socket, p.cmd, p.attempt) \in CallType
    BY <1>0 DEF PanelTypes, PushType, CallTo, CallType
  <2> QED BY <1>0, <1>2, <2>1 DEF PushSent, PushRaises, PushTimesOut
<1>3. ASSUME NEW m \in wire, HandleReply(m) PROVE WireTypes'
  <2>1. m.socket \in Nat /\ m.cmd \in Command
    BY <1>0 DEF CallType, ReplyType, AckType
  <2>2. Ack(m.socket, m.cmd) \in AckType
    BY <2>1 DEF Ack, AckType
  <2> QED BY <1>0, <1>3, <2>2 DEF HandleReply
<1>4. CASE WorkerReplies
  <2>1. thread["worker"].cmd \in Command /\ thread["worker"].result \in Reply
    BY <1>0, <1>4 DEF ThreadTypes, ThreadType, Thread, Busy, WorkerReplies
  <2>2. Answer(conn, thread["worker"].cmd, thread["worker"].result) \in ReplyType
    BY <1>0, <2>1 DEF PanelTypes, Answer, ReplyType
  <2> QED BY <1>0, <1>4, <2>2 DEF WorkerReplies
<1>5. ASSUME NEW k \in Command,
             StartPush(k) \/ LeaseExpires(k) \/ HttpLease(k) \/ HttpReportPending(k)
      PROVE  WireTypes'
  BY <1>0, <1>5 DEF StartPush, LeaseExpires, HttpLease, HttpReportPending
<1>6. ASSUME NEW m \in wire, ReceiveCall(m) \/ ReceiveAck(m) PROVE WireTypes'
  BY <1>0, <1>6 DEF ReceiveCall, ReceiveAck
<1>7. ASSUME NEW s \in entering \cup accepting \cup handlers, AnswerAuth(s) \/ Register(s) \/ HandlerEnds(s)
      PROVE  WireTypes'
  BY <1>0, <1>7 DEF AnswerAuth, Register, HandlerEnds
<1>8. ASSUME NEW t \in Thread, ThreadStep(t) PROVE WireTypes'
  BY <1>0, <1>8 DEF ThreadStep, Begin, Apply, Finish, Defer
<1>9. CASE Connect \/ Accepted \/ SocketBreaks \/ WorkerTakes \/ HttpReplies \/ PanelRestart \/ AgentCrash
  BY <1>0, <1>9 DEF Connect, Accepted, SocketBreaks, WorkerTakes, HttpReplies, PanelRestart, AgentCrash,
                    ToPanel
<1>10. CASE UNCHANGED vars
  BY <1>0, <1>10 DEF vars
<1> QED
  BY <1>1, <1>2, <1>3, <1>4, <1>5, <1>6, <1>7, <1>8, <1>9, <1>10 DEF Next

\* Every step keeps the two consumers well formed.
LEMMA ThreadTypeStep ==
  ASSUME TypeOK, [Next]_vars
  PROVE  ThreadTypes'
<1> USE DEF ThreadTypes, ThreadType, Thread, Busy
<1>0. PanelTypes /\ WireTypes /\ ThreadTypes /\ AgentTypes
  BY TypeParts
<1>a. ASSUME UNCHANGED thread PROVE ThreadTypes'
  BY <1>0, <1>a
<1>b. Idle \in ThreadType /\ Idle.pc = "idle"
  BY DEF Idle, Reply, Result
<1>c. \A k \in Command, n \in Nat : At("wait", k, n) \in ThreadType /\ At("wait", k, n).cmd \in Command
  BY DEF At, Reply, Result
<1>1. ASSUME NEW k \in Command, HttpLease(k) PROVE ThreadTypes'
  <2>0. row[k].attempts + 1 \in Nat
    BY <1>0 DEF PanelTypes, RowType
  <2>1. At("wait", k, row[k].attempts + 1) \in ThreadType
        /\ At("wait", k, row[k].attempts + 1).cmd \in Command
    BY <2>0, <1>c
  <2> QED BY <1>0, <1>1, <1>a, <2>1 DEF HttpLease
<1>2. ASSUME NEW t \in Thread, Begin(t) PROVE ThreadTypes'
  <2>1. thread[t].cmd \in Command
    BY <1>0, <1>2 DEF Begin
  <2>2. \A k \in Command : journal[k] \in Result => journal[k] \in Reply
    BY DEF Reply
  <2>3. "interrupted" \in Reply
    BY DEF Reply
  <2> QED BY <1>0, <1>2, <2>1, <2>2, <2>3 DEF Begin
<1>3. ASSUME NEW t \in Thread, Apply(t) PROVE ThreadTypes'
  BY <1>0, <1>3 DEF Apply
<1>4. ASSUME NEW t \in Thread, NEW r \in Result, Finish(t, r) PROVE ThreadTypes'
  BY <1>0, <1>4 DEF Finish, Running, Reply
<1>5. ASSUME NEW t \in Thread, Defer(t) PROVE ThreadTypes'
  BY <1>0, <1>5, <1>b DEF Defer
<1>6. CASE WorkerTakes
  <2>1. Head(queue) \in QueueType
    BY <1>0, <1>6 DEF AgentTypes, WorkerTakes
  <2>2. At("wait", Head(queue).cmd, Head(queue).attempt) \in ThreadType
        /\ At("wait", Head(queue).cmd, Head(queue).attempt).cmd \in Command
    BY <2>1, <1>c DEF QueueType
  <2> QED BY <1>0, <1>6, <2>2 DEF WorkerTakes
<1>7. CASE WorkerReplies \/ HttpReplies
  BY <1>0, <1>7, <1>b DEF WorkerReplies, HttpReplies
<1>8. CASE AgentCrash
  BY <1>0, <1>8, <1>b DEF AgentCrash
<1>9. ASSUME NEW k \in Command,
             StartPush(k) \/ LeaseExpires(k) \/ ReportPending(k) \/ HttpReportPending(k)
      PROVE  ThreadTypes'
  BY <1>9, <1>a DEF StartPush, LeaseExpires, ReportPending, HttpReportPending, agent
<1>10. ASSUME NEW p \in pushes, PushSent(p) \/ PushRaises(p) \/ PushTimesOut(p) PROVE ThreadTypes'
  BY <1>10, <1>a DEF PushSent, PushRaises, PushTimesOut, FailPush, agent
<1>11. ASSUME NEW m \in wire, HandleReply(m) \/ ReceiveCall(m) \/ ReceiveAck(m) PROVE ThreadTypes'
  BY <1>11, <1>a DEF HandleReply, ReceiveCall, ReceiveAck, agent
<1>12. ASSUME NEW s \in entering \cup accepting \cup handlers, AnswerAuth(s) \/ Register(s) \/ HandlerEnds(s)
      PROVE  ThreadTypes'
  BY <1>12, <1>a DEF AnswerAuth, Register, HandlerEnds, agent
<1>13. CASE Connect \/ Accepted \/ SocketBreaks \/ PanelRestart \/ UNCHANGED vars
  BY <1>13, <1>a DEF Connect, Accepted, SocketBreaks, PanelRestart, vars, agent
<1> QED
  BY <1>1, <1>2, <1>3, <1>4, <1>5, <1>6, <1>7, <1>8, <1>9, <1>10, <1>11, <1>12, <1>13
     DEF Next, ThreadStep

\* Every step keeps the queue, the journal and the effect counters well formed.
LEMMA AgentTypeStep ==
  ASSUME TypeOK, [Next]_vars
  PROVE  AgentTypes'
<1> USE DEF AgentTypes
<1>0. PanelTypes /\ WireTypes /\ ThreadTypes /\ AgentTypes
  BY TypeParts
<1>a. ASSUME UNCHANGED <<queue, journal, acked, effects>> PROVE AgentTypes'
  BY <1>0, <1>a
<1>1. ASSUME NEW m \in wire, ReceiveCall(m) PROVE AgentTypes'
  <2>1. m \in CallType
    BY <1>0, <1>1 DEF WireTypes, ReceiveCall, CallType, ReplyType, AckType
  <2>2. [cmd |-> m.cmd, attempt |-> m.attempt] \in QueueType
    BY <2>1 DEF CallType, QueueType
  <2>3. Len(queue) < QueueLimit /\ QueueLimit \in Nat
    BY <1>1, DeliveryAssumption DEF ReceiveCall, QueueHasRoom
  <2> QED BY <1>0, <1>1, <2>2, <2>3 DEF ReceiveCall
<1>2. ASSUME NEW m \in wire, ReceiveAck(m) PROVE AgentTypes'
  <2>1. m.cmd \in Command
    BY <1>0 DEF WireTypes, CallType, ReplyType, AckType
  <2> QED BY <1>0, <1>2, <2>1 DEF ReceiveAck
<1>3. ASSUME NEW t \in Thread, ThreadStep(t) PROVE AgentTypes'
  <2>1. Busy(t) => thread[t].cmd \in Command
    BY <1>0 DEF ThreadTypes
  <2>2. CASE Begin(t)
    BY <1>0, <2>1, <2>2 DEF Begin, Busy
  <2>3. CASE Apply(t)
    BY <1>0, <2>1, <2>3 DEF Apply, Busy
  <2>4. ASSUME NEW r \in Result, Finish(t, r) PROVE AgentTypes'
    BY <1>0, <2>1, <2>4 DEF Finish, Journalled, Running, Busy
  <2>5. CASE Defer(t)
    BY <2>5, <1>a DEF Defer
  <2> QED BY <1>3, <2>2, <2>3, <2>4, <2>5 DEF ThreadStep
<1>4. CASE WorkerTakes
  <2>1. Tail(queue) \in Seq(QueueType) /\ Len(Tail(queue)) <= Len(queue)
    BY <1>0, <1>4 DEF WorkerTakes
  <2> QED BY <1>0, <1>4, <2>1, DeliveryAssumption DEF WorkerTakes
<1>p. ASSUME NEW k \in Command, NEW r, Post(k, r) PROVE acked' \subseteq Command
  BY <1>0, <1>p DEF Post
<1>5. CASE HttpReplies
  <2>1. thread["http"].cmd \in Command
    BY <1>0, <1>5 DEF ThreadTypes, Thread, Busy, HttpReplies
  <2> QED BY <1>0, <1>5, <1>p, <2>1 DEF HttpReplies
<1>6. ASSUME NEW k \in Command, HttpReportPending(k) PROVE AgentTypes'
  BY <1>0, <1>6, <1>p DEF HttpReportPending
<1>7. CASE AgentCrash
  <2>1. <<>> \in Seq(QueueType) /\ Len(<<>>) <= QueueLimit
    BY DeliveryAssumption
  <2> QED BY <1>0, <1>7, <2>1 DEF AgentCrash
<1>8. ASSUME NEW k \in Command, StartPush(k) \/ LeaseExpires(k) \/ ReportPending(k) \/ HttpLease(k)
      PROVE  AgentTypes'
  BY <1>8, <1>a DEF StartPush, LeaseExpires, ReportPending, HttpLease, agent
<1>9. ASSUME NEW p \in pushes, PushSent(p) \/ PushRaises(p) \/ PushTimesOut(p) PROVE AgentTypes'
  BY <1>9, <1>a DEF PushSent, PushRaises, PushTimesOut, FailPush, agent
<1>10. ASSUME NEW m \in wire, HandleReply(m) PROVE AgentTypes'
  BY <1>10, <1>a DEF HandleReply, agent
<1>11. ASSUME NEW s \in entering \cup accepting \cup handlers, AnswerAuth(s) \/ Register(s) \/ HandlerEnds(s)
      PROVE  AgentTypes'
  BY <1>11, <1>a DEF AnswerAuth, Register, HandlerEnds, agent
<1>12. CASE Connect \/ Accepted \/ SocketBreaks \/ WorkerReplies \/ PanelRestart \/ UNCHANGED vars
  BY <1>12, <1>a DEF Connect, Accepted, SocketBreaks, WorkerReplies, PanelRestart, vars, agent
<1> QED
  BY <1>1, <1>2, <1>3, <1>4, <1>5, <1>6, <1>7, <1>8, <1>9, <1>10, <1>11, <1>12 DEF Next

\* The initial state is well formed.
LEMMA TypeInit == Init => TypeOK
<1> SUFFICES ASSUME Init PROVE TypeOK
  OBVIOUS
<1>1. PanelTypes
  BY DEF Init, PanelTypes, RowType
<1>5. FlagTypes
  BY DEF Init, FlagTypes
<1>2. WireTypes
  BY DEF Init, WireTypes
<1>3. ThreadTypes
  BY DEF Init, ThreadTypes, ThreadType, Busy, Idle, Reply, Result
<1>4. AgentTypes
  BY DeliveryAssumption DEF Init, AgentTypes
<1> QED BY <1>1, <1>2, <1>3, <1>4, <1>5, TypeParts

\* Every step keeps the state well formed.
LEMMA TypeStep == TypeOK /\ [Next]_vars => TypeOK'
<1> SUFFICES ASSUME TypeOK, [Next]_vars PROVE TypeOK'
  OBVIOUS
<1>1. PanelTypes' /\ FlagTypes' /\ WireTypes' /\ ThreadTypes' /\ AgentTypes'
  BY PanelTypeStep, FlagTypeStep, WireTypeStep, ThreadTypeStep, AgentTypeStep
<1> QED
  BY <1>1 DEF TypeOK, PanelTypes, FlagTypes, WireTypes, ThreadTypes, AgentTypes, RowType, PushType, CallType,
              ReplyType, AckType, QueueType, ThreadType

\* Whatever is delivered, lost or restarted, panel and agent keep the shape the
\* code gives them; in particular the receive queue stays within its limit.
THEOREM DeliveryTyped == Spec => []TypeOK
  BY TypeInit, TypeStep, PTL DEF Spec

(***************************************************************************)
(* The inductive invariant.  A reply on its way is "explained" when the     *)
(* journal says the same, or when the execution was cut short for good; an  *)
(* explained reply stays explained, so the panel may record it whenever it  *)
(* arrives.                                                                 *)
(***************************************************************************)
CutShort(k) == journal[k] = "begun" /\ k \notin Resumable /\ ~Executing(k)

Explained(k, r) ==
    \/ r = "ok" /\ journal[k] = "ok"
    \/ r = "error" /\ journal[k] = "error"
    \/ r = "interrupted" /\ CutShort(k)

\* execution_lock: one consumer executes at a time, and what it executes is begun.
OneExecutes ==
    /\ \A t, u \in Thread : Running(t) /\ Running(u) => t = u
    /\ \A t \in Thread : Running(t) => journal[thread[t].cmd] = "begun"

\* Effects follow the journal: none before begin, at least one once applied or
\* journalled as a success, and at most one for what may not be resumed.
EffectsFollowJournal ==
    /\ \A k \in Command \ Resumable : effects[k] <= 1
    /\ \A k \in Command \ Resumable : journal[k] = "none" => effects[k] = 0
    /\ \A k \in Command : journal[k] = "ok" => effects[k] > 0
    /\ \A t \in Thread : thread[t].pc = "applied" => effects[thread[t].cmd] > 0
    /\ \A t \in Thread : thread[t].pc = "run" /\ thread[t].cmd \notin Resumable
                         => effects[thread[t].cmd] = 0

\* Every reply, with a consumer or on a socket, is explained.
RepliesExplained ==
    /\ \A t \in Thread : thread[t].pc = "reply" => Explained(thread[t].cmd, thread[t].result)
    /\ \A m \in wire : m.type = "reply" => Explained(m.cmd, m.result)

DeliveryInv ==
    TypeOK /\ OneExecutes /\ EffectsFollowJournal /\ RepliesExplained /\ OutcomeAgrees

\* The initial state satisfies the invariant.
LEMMA DeliveryInit == Init => DeliveryInv
<1> SUFFICES ASSUME Init PROVE DeliveryInv
  OBVIOUS
<1>1. OneExecutes /\ EffectsFollowJournal /\ RepliesExplained /\ OutcomeAgrees
  BY DEF Init, OneExecutes, EffectsFollowJournal, RepliesExplained, OutcomeAgrees, Running, Idle,
         Thread
<1> QED BY <1>1, TypeInit DEF DeliveryInv

\* Outside the consumers nothing touches journal, effects or execution.
ExecutionUnchanged == UNCHANGED <<thread, journal, effects>>

\* A step is a step of execution, one that takes or gives back work, or leaves
\* execution alone.
LEMMA ExecutionCases ==
  ASSUME [Next]_vars
  PROVE  \/ \E t \in Thread : Begin(t)
         \/ \E t \in Thread : Apply(t)
         \/ \E t \in Thread, r \in Result : Finish(t, r)
         \/ \E t \in Thread : Defer(t)
         \/ WorkerTakes \/ WorkerReplies \/ HttpReplies \/ AgentCrash
         \/ \E k \in Command : HttpLease(k)
         \/ ExecutionUnchanged
<1>1. CASE \E k \in Command :
              StartPush(k) \/ LeaseExpires(k) \/ ReportPending(k) \/ HttpReportPending(k)
  BY <1>1 DEF StartPush, LeaseExpires, ReportPending, HttpReportPending, agent, ExecutionUnchanged
<1>2. CASE \E p \in pushes : PushSent(p) \/ PushRaises(p) \/ PushTimesOut(p)
  BY <1>2 DEF PushSent, PushRaises, PushTimesOut, FailPush, agent, ExecutionUnchanged
<1>3. CASE \E m \in wire : HandleReply(m) \/ ReceiveCall(m) \/ ReceiveAck(m)
  BY <1>3 DEF HandleReply, ReceiveCall, ReceiveAck, agent, ExecutionUnchanged
<1>4. CASE \E s \in entering \cup accepting \cup handlers : AnswerAuth(s) \/ Register(s) \/ HandlerEnds(s)
  BY <1>4 DEF AnswerAuth, Register, HandlerEnds, agent, ExecutionUnchanged
<1>5. CASE Connect \/ Accepted \/ SocketBreaks \/ PanelRestart \/ UNCHANGED vars
  BY <1>5 DEF Connect, Accepted, SocketBreaks, PanelRestart, vars, agent, ExecutionUnchanged
<1> QED BY <1>1, <1>2, <1>3, <1>4, <1>5 DEF Next, ThreadStep

\* What the steps that touch execution do to it.
LEMMA ExecutionStep ==
  ASSUME DeliveryInv, [Next]_vars
  PROVE  OneExecutes' /\ EffectsFollowJournal'
<1> USE DEF OneExecutes, EffectsFollowJournal, Running
<1>0. /\ OneExecutes /\ EffectsFollowJournal
      /\ thread \in [Thread -> ThreadType]
      /\ \A t \in Thread : Busy(t) => thread[t].cmd \in Command
      /\ journal \in [Command -> {"none", "begun"} \cup Result]
      /\ effects \in [Command -> Nat]
  BY TypeParts DEF DeliveryInv, ThreadTypes, AgentTypes
<1>1. ASSUME NEW t \in Thread, Begin(t) PROVE OneExecutes' /\ EffectsFollowJournal'
  <2> DEFINE k == thread[t].cmd
  <2>1. k \in Command
    BY <1>0, <1>1 DEF Begin, Busy
  <2>2. CASE MayRun(k) /\ journal' = [journal EXCEPT ![k] = "begun"]
                       /\ thread' = [thread EXCEPT ![t].pc = "run"]
    <3>1. k \notin Resumable => journal[k] = "none"
      BY <2>2 DEF MayRun
    <3>2. \A u \in Thread \ {t} : ~Running(u)
      BY <1>1 DEF Begin, LockFree
    <3>3. /\ thread'[t].pc = "run" /\ thread'[t].cmd = k
          /\ \A u \in Thread \ {t} : thread'[u] = thread[u]
          /\ effects' = effects
      BY <1>0, <1>1, <2>2 DEF Begin, ThreadType
    <3>4. journal'[k] = "begun" /\ \A j \in Command \ {k} : journal'[j] = journal[j]
      BY <1>0, <2>1, <2>2
    <3>5. OneExecutes'
      BY <3>2, <3>3, <3>4
    <3> QED BY <1>0, <2>1, <3>1, <3>2, <3>3, <3>4, <3>5
  <2>3. CASE /\ thread' = [thread EXCEPT ![t].pc = "reply",
                              ![t].result = IF journal[k] \in Result THEN journal[k]
                                            ELSE "interrupted"]
             /\ UNCHANGED journal
    <3>1. /\ thread'[t].pc = "reply"
          /\ \A u \in Thread \ {t} : thread'[u] = thread[u]
          /\ effects' = effects
      BY <1>0, <1>1, <2>3 DEF Begin, ThreadType
    <3> QED BY <1>0, <2>3, <3>1
  <2> QED BY <1>1, <2>2, <2>3 DEF Begin
<1>2. ASSUME NEW t \in Thread, Apply(t) PROVE OneExecutes' /\ EffectsFollowJournal'
  <2> DEFINE k == thread[t].cmd
  <2>1. k \in Command /\ thread[t].pc = "run" /\ journal[k] = "begun"
    BY <1>0, <1>2 DEF Apply, Busy
  <2>2. /\ thread'[t].pc = "applied" /\ thread'[t].cmd = k
        /\ \A u \in Thread \ {t} : thread'[u] = thread[u] /\ ~Running(u)
        /\ journal' = journal
    BY <1>0, <1>2, <2>1 DEF Apply, ThreadType
  <2>3. effects'[k] = effects[k] + 1 /\ \A j \in Command \ {k} : effects'[j] = effects[j]
    BY <1>0, <1>2, <2>1 DEF Apply
  <2>4. k \notin Resumable => effects[k] = 0
    BY <1>0, <2>1
  <2>5. \A u \in Thread : Busy(u) => thread[u].cmd \in Command
    BY <1>0
  <2>6. OneExecutes'
    BY <1>0, <2>1, <2>2
  <2>7. effects[k] \in Nat
    BY <1>0, <2>1
  <2> QED BY <1>0, <2>1, <2>2, <2>3, <2>4, <2>5, <2>6, <2>7 DEF Busy
<1>3. ASSUME NEW t \in Thread, NEW r \in Result, Finish(t, r)
      PROVE  OneExecutes' /\ EffectsFollowJournal'
  <2> DEFINE k == thread[t].cmd
  <2>1. k \in Command /\ Running(t) /\ journal[k] = "begun"
    BY <1>0, <1>3 DEF Finish, Busy
  <2>2. /\ thread'[t].pc = "reply"
        /\ \A u \in Thread \ {t} : thread'[u] = thread[u] /\ ~Running(u)
        /\ effects' = effects
    BY <1>0, <1>3, <2>1 DEF Finish, ThreadType
  <2>3. journal'[k] = r /\ \A j \in Command \ {k} : journal'[j] = journal[j]
    BY <1>0, <1>3, <2>1 DEF Finish, Journalled
  <2>4. r = "ok" => effects[k] > 0
    BY <1>0, <1>3 DEF Finish
  <2>5. r # "none"
    BY DEF Result
  <2> QED BY <1>0, <2>1, <2>2, <2>3, <2>4, <2>5
<1>4. ASSUME UNCHANGED <<journal, effects>>,
             \A t \in Thread : thread'[t].pc \in {"idle", "wait"} \/ thread'[t] = thread[t]
      PROVE  OneExecutes' /\ EffectsFollowJournal'
  BY <1>0, <1>4
<1>5. ASSUME NEW t \in Thread, Defer(t) PROVE OneExecutes' /\ EffectsFollowJournal'
  BY <1>0, <1>4, <1>5 DEF Defer, Idle
<1>6. CASE WorkerTakes \/ WorkerReplies \/ HttpReplies \/ AgentCrash
  BY <1>0, <1>4, <1>6 DEF WorkerTakes, WorkerReplies, HttpReplies, AgentCrash, Idle, At, Thread
<1>7. ASSUME NEW k \in Command, HttpLease(k) PROVE OneExecutes' /\ EffectsFollowJournal'
  BY <1>0, <1>4, <1>7 DEF HttpLease, At, Thread
<1>8. CASE ExecutionUnchanged
  BY <1>0, <1>8 DEF ExecutionUnchanged
<1> QED BY ExecutionCases, <1>1, <1>2, <1>3, <1>5, <1>6, <1>7, <1>8

\* An explained reply stays explained: a journalled result is never replaced and
\* an execution that was cut short never resumes.
LEMMA ExplainedStable ==
  ASSUME DeliveryInv, [Next]_vars, NEW k \in Command, NEW r \in Reply, Explained(k, r)
  PROVE  Explained(k, r)'
<1> USE DEF Explained, CutShort, Executing, Running
<1>0. /\ OneExecutes
      /\ thread \in [Thread -> ThreadType]
      /\ \A t \in Thread : Busy(t) => thread[t].cmd \in Command
      /\ journal \in [Command -> {"none", "begun"} \cup Result]
  BY TypeParts DEF DeliveryInv, ThreadTypes, AgentTypes
<1>1. ASSUME NEW t \in Thread, Begin(t) PROVE Explained(k, r)'
  <2>1. \A u \in Thread \ {t} : thread'[u] = thread[u]
    BY <1>0, <1>1 DEF Begin
  <2>2. thread'[t].cmd = thread[t].cmd
    BY <1>0, <1>1 DEF Begin, ThreadType
  <2>3. ~MayRun(k)
    BY DEF MayRun
  <2>4. CASE thread[t].cmd = k
    <3>1. journal' = journal /\ thread'[t].pc = "reply"
      BY <1>0, <1>1, <2>3, <2>4 DEF Begin, ThreadType
    <3> QED BY <2>1, <3>1
  <2>5. CASE thread[t].cmd # k
    <3>1. journal'[k] = journal[k]
      BY <1>0, <1>1, <2>5 DEF Begin
    <3> QED BY <2>1, <2>2, <2>5, <3>1
  <2> QED BY <2>4, <2>5
<1>2. ASSUME NEW t \in Thread, Apply(t) PROVE Explained(k, r)'
  BY <1>0, <1>2 DEF Apply, ThreadType
<1>3. ASSUME NEW t \in Thread, NEW q \in Result, Finish(t, q) PROVE Explained(k, r)'
  <2>1. journal[thread[t].cmd] = "begun"
    BY <1>0, <1>3 DEF Finish, OneExecutes
  <2>2. thread[t].cmd # k
    BY <1>3, <2>1 DEF Finish
  <2>3. journal'[k] = journal[k]
    BY <1>0, <1>3, <2>2 DEF Finish, Journalled
  <2>4. thread'[t].pc = "reply" /\ \A u \in Thread \ {t} : thread'[u] = thread[u]
    BY <1>0, <1>3 DEF Finish, ThreadType
  <2> QED BY <2>3, <2>4
<1>4. ASSUME UNCHANGED journal,
             \A t \in Thread : thread'[t].pc \in {"idle", "wait"} \/ thread'[t] = thread[t]
      PROVE  Explained(k, r)'
  BY <1>4
<1>5. ASSUME NEW t \in Thread, Defer(t) PROVE Explained(k, r)'
  BY <1>0, <1>4, <1>5 DEF Defer, Idle
<1>6. CASE WorkerTakes \/ WorkerReplies \/ HttpReplies \/ AgentCrash
  BY <1>0, <1>4, <1>6 DEF WorkerTakes, WorkerReplies, HttpReplies, AgentCrash, Idle, At, Thread
<1>7. ASSUME NEW j \in Command, HttpLease(j) PROVE Explained(k, r)'
  BY <1>0, <1>4, <1>7 DEF HttpLease, At, Thread
<1>8. CASE ExecutionUnchanged
  BY <1>8 DEF ExecutionUnchanged
<1> QED BY ExecutionCases, <1>1, <1>2, <1>3, <1>5, <1>6, <1>7, <1>8

\* A consumer that has a reply after a step had it before or just made it, and
\* what it made is explained.
LEMMA ConsumerExplained ==
  ASSUME DeliveryInv, [Next]_vars, NEW t \in Thread, thread'[t].pc = "reply"
  PROVE  Explained(thread[t].cmd, thread[t].result)'
<1>0. /\ OneExecutes /\ RepliesExplained
      /\ thread \in [Thread -> ThreadType]
      /\ \A u \in Thread : Busy(u) => thread[u].cmd \in Command
      /\ journal \in [Command -> {"none", "begun"} \cup Result]
  BY TypeParts DEF DeliveryInv, ThreadTypes, AgentTypes
<1>a. ASSUME thread'[t] = thread[t] PROVE Explained(thread[t].cmd, thread[t].result)'
  <2>1. thread[t].cmd \in Command /\ thread[t].result \in Reply
        /\ Explained(thread[t].cmd, thread[t].result)
    BY <1>0, <1>a DEF Busy, ThreadType, RepliesExplained
  <2>2. \A k \in Command, r \in Reply : Explained(k, r) => Explained(k, r)'
    BY ExplainedStable
  <2>3. thread'[t].cmd = thread[t].cmd /\ thread'[t].result = thread[t].result
    BY <1>a
  <2> QED BY <2>1, <2>2, <2>3 DEF Explained, CutShort, Executing, Running
<1>1. ASSUME NEW u \in Thread, Begin(u) PROVE Explained(thread[t].cmd, thread[t].result)'
  <2>1. CASE u # t
    BY <1>0, <1>1, <2>1, <1>a DEF Begin
  <2>2. CASE u = t
    <3> DEFINE k == thread[t].cmd
    <3>1. k \in Command /\ ~MayRun(k)
      BY <1>0, <1>1, <2>2 DEF Begin, Busy, ThreadType
    <3>2. /\ thread' = [thread EXCEPT ![t].pc = "reply",
                              ![t].result = IF journal[k] \in Result THEN journal[k]
                                            ELSE "interrupted"]
          /\ UNCHANGED journal
      BY <1>1, <2>2, <3>1 DEF Begin
    <3>3. /\ thread'[t].cmd = k
          /\ thread'[t].result = IF journal[k] \in Result THEN journal[k] ELSE "interrupted"
          /\ thread'[t].pc = "reply"
      BY <1>0, <3>2 DEF ThreadType
    <3>4. journal[k] \in Result \/ (journal[k] = "begun" /\ k \notin Resumable)
      BY <1>0, <3>1 DEF MayRun
    <3>5. \A v \in Thread \ {t} : ~Running(v) /\ thread'[v] = thread[v]
      BY <1>0, <1>1, <2>2, <3>2 DEF Begin, LockFree
    <3>6. ~Executing(k)'
      BY <3>3, <3>5 DEF Executing, Running
    <3>7. CASE journal[k] \in Result
      BY <3>2, <3>3, <3>7 DEF Explained, Result
    <3>8. CASE journal[k] = "begun" /\ k \notin Resumable
      BY <3>2, <3>3, <3>6, <3>8 DEF Explained, CutShort, Executing, Running, Result
    <3> QED BY <3>4, <3>7, <3>8
  <2> QED BY <2>1, <2>2
<1>2. ASSUME NEW u \in Thread, Apply(u) PROVE Explained(thread[t].cmd, thread[t].result)'
  BY <1>0, <1>2, <1>a DEF Apply, ThreadType
<1>3. ASSUME NEW u \in Thread, NEW r \in Result, Finish(u, r)
      PROVE  Explained(thread[t].cmd, thread[t].result)'
  <2>1. CASE u # t
    BY <1>0, <1>3, <2>1, <1>a DEF Finish
  <2>2. CASE u = t
    <3>1. thread[t].cmd \in Command
      BY <1>0, <1>3, <2>2 DEF Finish, Busy, Running
    <3>2. thread'[t].cmd = thread[t].cmd /\ thread'[t].result = r
          /\ journal'[thread[t].cmd] = r
      BY <1>0, <1>3, <2>2, <3>1 DEF Finish, Journalled, ThreadType
    <3> QED BY <3>2 DEF Explained, Result
  <2> QED BY <2>1, <2>2
<1>4. ASSUME NEW u \in Thread, Defer(u) PROVE Explained(thread[t].cmd, thread[t].result)'
  BY <1>0, <1>4, <1>a DEF Defer, Idle
<1>5. CASE WorkerTakes \/ WorkerReplies \/ HttpReplies \/ AgentCrash
  BY <1>0, <1>5, <1>a DEF WorkerTakes, WorkerReplies, HttpReplies, AgentCrash, Idle, At, Thread
<1>6. ASSUME NEW j \in Command, HttpLease(j) PROVE Explained(thread[t].cmd, thread[t].result)'
  BY <1>0, <1>6, <1>a DEF HttpLease, At, Thread
<1>7. CASE ExecutionUnchanged
  BY <1>7, <1>a DEF ExecutionUnchanged
<1> QED BY ExecutionCases, <1>1, <1>2, <1>3, <1>4, <1>5, <1>6, <1>7

\* A reply on a socket was there before or is the worker's or the journal's.
LEMMA ReplySources ==
  ASSUME [Next]_vars, NEW m \in wire', m.type = "reply"
  PROVE  \/ m \in wire
         \/ /\ thread["worker"].pc = "reply"
            /\ m = Answer(conn, thread["worker"].cmd, thread["worker"].result)
         \/ \E k \in Pending : m = Answer(conn, k, journal[k])
<1>1. CASE \E p \in pushes : PushSent(p) \/ PushRaises(p) \/ PushTimesOut(p)
  <2>1. \A s, k, n : CallTo(s, k, n).type # "reply"
    BY DEF CallTo
  <2> QED BY <1>1, <2>1 DEF PushSent, PushRaises, PushTimesOut
<1>2. CASE \E q \in wire : HandleReply(q) \/ ReceiveCall(q) \/ ReceiveAck(q)
  <2>1. \A s, k : Ack(s, k).type # "reply"
    BY DEF Ack
  <2> QED BY <1>2, <2>1 DEF HandleReply, ReceiveCall, ReceiveAck
<1>3. CASE \E k \in Command : StartPush(k) \/ LeaseExpires(k) \/ HttpLease(k) \/ HttpReportPending(k)
  BY <1>3 DEF StartPush, LeaseExpires, HttpLease, HttpReportPending
<1>4. CASE \E k \in Command : ReportPending(k)
  BY <1>4 DEF ReportPending
<1>5. CASE \E s \in entering \cup accepting \cup handlers : AnswerAuth(s) \/ Register(s) \/ HandlerEnds(s)
  BY <1>5 DEF AnswerAuth, Register, HandlerEnds
<1>6. CASE \E t \in Thread : ThreadStep(t)
  BY <1>6 DEF ThreadStep, Begin, Apply, Finish, Defer
<1>7. CASE Connect \/ Accepted \/ SocketBreaks \/ WorkerTakes \/ HttpReplies \/ PanelRestart \/ AgentCrash
           \/ UNCHANGED vars
  BY <1>7 DEF Connect, Accepted, SocketBreaks, WorkerTakes, HttpReplies, PanelRestart, AgentCrash, ToPanel,
              vars
<1>8. CASE WorkerReplies
  BY <1>8 DEF WorkerReplies
<1> QED BY <1>1, <1>2, <1>3, <1>4, <1>5, <1>6, <1>7, <1>8 DEF Next

\* Every step keeps the replies explained.
LEMMA RepliesStep ==
  ASSUME DeliveryInv, [Next]_vars
  PROVE  RepliesExplained'
<1>0. /\ TypeOK /\ RepliesExplained
      /\ WireTypes /\ ThreadTypes /\ AgentTypes
  BY TypeParts DEF DeliveryInv
<1>1. \A k \in Command, r \in Reply : Explained(k, r) => Explained(k, r)'
  BY ExplainedStable
<1>2. ASSUME NEW m \in wire', m.type = "reply" PROVE Explained(m.cmd, m.result)'
  <2>1. CASE m \in wire
    <3>1. m.cmd \in Command /\ m.result \in Reply
      BY <1>0, <1>2, <2>1 DEF WireTypes, CallType, ReplyType, AckType
    <3> QED BY <1>0, <1>1, <1>2, <2>1, <3>1 DEF RepliesExplained
  <2>2. CASE /\ thread["worker"].pc = "reply"
             /\ m = Answer(conn, thread["worker"].cmd, thread["worker"].result)
    <3>1. /\ thread["worker"].cmd \in Command /\ thread["worker"].result \in Reply
          /\ Explained(thread["worker"].cmd, thread["worker"].result)
      BY <1>0, <2>2 DEF ThreadTypes, ThreadType, Thread, Busy, RepliesExplained
    <3>2. m.cmd = thread["worker"].cmd /\ m.result = thread["worker"].result
      BY <2>2 DEF Answer
    <3> QED BY <1>1, <3>1, <3>2
  <2>3. CASE \E k \in Pending : m = Answer(conn, k, journal[k])
    <3>1. PICK k \in Pending : m = Answer(conn, k, journal[k])
      BY <2>3
    <3>2. k \in Command /\ journal[k] \in Result /\ m.cmd = k /\ m.result = journal[k]
      BY <3>1 DEF Pending, Answer
    <3>3. journal[k] \in Reply /\ Explained(k, journal[k])
      BY <3>2 DEF Explained, Reply, Result
    <3>4. Explained(m.cmd, m.result) /\ m.cmd \in Command /\ m.result \in Reply
      BY <3>2, <3>3
    <3> QED BY <1>1, <3>4
  <2> QED BY <1>2, <2>1, <2>2, <2>3, ReplySources
<1>3. \A t \in Thread : thread'[t].pc = "reply" => Explained(thread[t].cmd, thread[t].result)'
  BY ConsumerExplained
<1> QED BY <1>2, <1>3 DEF RepliesExplained

(***************************************************************************)
(* What a step may do to the recorded outcomes.                            *)
(***************************************************************************)
OutcomesKept ==
    \A k \in Command : row[k].status \in Settled \/ row'[k].status \in Settled
                       => row'[k].status = row[k].status

\* Recording a result changes the outcome of no other command, and of this one
\* only while it is open.
LEMMA ApplyResultOutcome ==
  ASSUME row \in [Command -> RowType], NEW k \in Command, NEW r \in Reply,
         row' = ApplyResult(k, r)
  PROVE  /\ \A j \in Command \ {k} : row'[j] = row[j]
         /\ row[k].status \in Settled => row' = row
         /\ row[k].status \notin Settled =>
                row'[k].status = IF r = "ok" THEN "succeeded" ELSE "failed"
<1>1. CASE row[k].status \in Settled
  BY <1>1 DEF ApplyResult
<1>2. CASE row[k].status \notin Settled
  <2> DEFINE o == IF r = "ok" THEN "succeeded" ELSE "failed"
  <2>1. row' = [row EXCEPT ![k].status = o]
    BY <1>2 DEF ApplyResult
  <2> HIDE DEF o
  <2>2. row'[k].status = o /\ \A j \in Command \ {k} : row'[j] = row[j]
    BY <2>1 DEF RowType
  <2> QED BY <1>2, <2>2 DEF o
<1> QED BY <1>1, <1>2

\* Leasing and releasing touch open commands only.
LEMMA LeasingKeepsOutcomes ==
  ASSUME row \in [Command -> RowType], NEW k \in Command,
         \/ LeaseFree(k) /\ row' = Leased(k)
         \/ \E n \in Nat : row' = ReleaseLease(k, n)
         \/ row' = [row EXCEPT ![k].live = FALSE]
         \/ row' = row
  PROVE  OutcomesKept
<1> USE DEF OutcomesKept, RowType, Settled
<1>1. CASE LeaseFree(k) /\ row' = Leased(k)
  BY <1>1 DEF LeaseFree, Leased
<1>2. CASE \E n \in Nat : row' = ReleaseLease(k, n)
  BY <1>2 DEF ReleaseLease
<1>3. CASE row' = [row EXCEPT ![k].live = FALSE]
  BY <1>3
<1>4. CASE row' = row
  BY <1>4
<1> QED BY <1>1, <1>2, <1>3, <1>4

\* A step records an explained result, or keeps every outcome.
LEMMA OutcomeSteps ==
  ASSUME DeliveryInv, [Next]_vars
  PROVE  \/ OutcomesKept
         \/ \E k \in Command, r \in Reply :
                Explained(k, r) /\ row' = ApplyResult(k, r) /\ UNCHANGED <<journal, effects>>
<1>0. /\ PanelTypes /\ WireTypes /\ ThreadTypes /\ AgentTypes /\ RepliesExplained
      /\ row \in [Command -> RowType]
  BY TypeParts DEF DeliveryInv, PanelTypes
<1> DEFINE Recorded == \E k \in Command, r \in Reply :
                Explained(k, r) /\ row' = ApplyResult(k, r) /\ UNCHANGED <<journal, effects>>
<1>k. ASSUME row' = row PROVE OutcomesKept
  BY <1>k DEF OutcomesKept
<1>1. ASSUME NEW k \in Command, StartPush(k) \/ LeaseExpires(k) \/ HttpLease(k)
      PROVE  OutcomesKept
  BY <1>0, <1>1, LeasingKeepsOutcomes DEF StartPush, LeaseExpires, HttpLease
<1>2. ASSUME NEW k \in Command, ReportPending(k) PROVE OutcomesKept
  BY <1>2, <1>k DEF ReportPending, panel
<1>p. ASSUME NEW k \in Command, NEW r \in Reply, Explained(k, r), Post(k, r),
             UNCHANGED <<journal, effects>>
      PROVE  OutcomesKept \/ Recorded
  BY <1>p, <1>k DEF Post
<1>3. ASSUME NEW k \in Command, HttpReportPending(k) PROVE OutcomesKept \/ Recorded
  <2>1. journal[k] \in Reply /\ Explained(k, journal[k])
    BY <1>3 DEF HttpReportPending, Pending, Explained, Reply, Result
  <2> QED BY <1>3, <1>p, <2>1 DEF HttpReportPending
<1>4. CASE HttpReplies
  <2>1. /\ thread["http"].cmd \in Command /\ thread["http"].result \in Reply
        /\ Explained(thread["http"].cmd, thread["http"].result)
    BY <1>0, <1>4 DEF HttpReplies, ThreadTypes, ThreadType, Thread, Busy, RepliesExplained
  <2> QED BY <1>4, <1>p, <2>1 DEF HttpReplies
<1>5. ASSUME NEW m \in wire, HandleReply(m) PROVE Recorded
  <2>1. m.cmd \in Command /\ m.result \in Reply /\ Explained(m.cmd, m.result)
    BY <1>0, <1>5 DEF HandleReply, WireTypes, CallType, ReplyType, AckType, RepliesExplained
  <2> QED BY <1>5, <2>1 DEF HandleReply, agent
<1>6. ASSUME NEW p \in pushes, PushSent(p) \/ PushRaises(p) \/ PushTimesOut(p) PROVE OutcomesKept
  <2>1. p.cmd \in Command /\ p.attempt \in Nat
    BY <1>0 DEF PanelTypes, PushType
  <2>2. row' = row \/ row' = ReleaseLease(p.cmd, p.attempt)
    BY <1>6 DEF PushSent, PushRaises, PushTimesOut, FailPush
  <2> QED BY <1>0, <2>1, <2>2, LeasingKeepsOutcomes
<1>7. ASSUME NEW m \in wire, ReceiveCall(m) \/ ReceiveAck(m) PROVE OutcomesKept
  BY <1>7, <1>k DEF ReceiveCall, ReceiveAck, panel
<1>8. ASSUME NEW s \in entering \cup accepting \cup handlers, AnswerAuth(s) \/ Register(s) \/ HandlerEnds(s)
      PROVE  OutcomesKept
  BY <1>8, <1>k DEF AnswerAuth, Register, HandlerEnds
<1>9. ASSUME NEW t \in Thread, ThreadStep(t) PROVE OutcomesKept
  BY <1>9, <1>k DEF ThreadStep, Begin, Apply, Finish, Defer, panel
<1>10. CASE Connect \/ Accepted \/ SocketBreaks \/ WorkerTakes \/ WorkerReplies \/ PanelRestart \/ AgentCrash
            \/ UNCHANGED vars
  BY <1>10, <1>k DEF Connect, Accepted, SocketBreaks, WorkerTakes, WorkerReplies, PanelRestart, AgentCrash,
                     vars, panel
<1> QED
  BY <1>1, <1>2, <1>3, <1>4, <1>5, <1>6, <1>7, <1>8, <1>9, <1>10 DEF Next

\* Recorded outcomes keep agreeing with the journal.
LEMMA OutcomeStep ==
  ASSUME DeliveryInv, [Next]_vars
  PROVE  OutcomeAgrees'
<1>0. /\ OutcomeAgrees /\ EffectsFollowJournal
      /\ row \in [Command -> RowType]
  BY TypeParts DEF DeliveryInv, PanelTypes
<1>1. \A k \in Command, r \in Reply : Explained(k, r) => Explained(k, r)'
  BY ExplainedStable
<1>2. EffectsFollowJournal'
  BY ExecutionStep
<1>3. "ok" \in Reply /\ "error" \in Reply /\ "interrupted" \in Reply
  BY DEF Reply, Result
<1>4. ASSUME NEW k \in Command
      PROVE  /\ row'[k].status = "succeeded" => Explained(k, "ok")'
             /\ row'[k].status = "failed" => Explained(k, "error")' \/ Explained(k, "interrupted")'
  <2>1. /\ row[k].status = "succeeded" => Explained(k, "ok")
        /\ row[k].status = "failed" => Explained(k, "error") \/ Explained(k, "interrupted")
    BY <1>0 DEF OutcomeAgrees, Explained, CutShort
  <2>2. CASE row'[k].status = row[k].status
    BY <1>1, <1>3, <2>1, <2>2
  <2>3. CASE OutcomesKept
    <3>1. row'[k].status \in Settled => row'[k].status = row[k].status
      BY <2>3 DEF OutcomesKept
    <3> QED BY <2>2, <3>1 DEF Settled
  <2>4. ASSUME NEW j \in Command, NEW r \in Reply, Explained(j, r), row' = ApplyResult(j, r)
        PROVE  /\ row'[k].status = "succeeded" => Explained(k, "ok")'
               /\ row'[k].status = "failed" => Explained(k, "error")' \/ Explained(k, "interrupted")'
    <3>1. CASE j # k \/ row[j].status \in Settled
      BY <1>0, <2>2, <2>4, <3>1, ApplyResultOutcome
    <3>2. CASE j = k /\ row[j].status \notin Settled
      <4>1. row'[k].status = IF r = "ok" THEN "succeeded" ELSE "failed"
        BY <1>0, <2>4, <3>2, ApplyResultOutcome
      <4>2. Explained(k, r)'
        BY <1>1, <2>4, <3>2
      <4>3. r = "ok" \/ r = "error" \/ r = "interrupted"
        BY DEF Reply, Result
      <4> QED BY <4>1, <4>2, <4>3
    <3> QED BY <3>1, <3>2
  <2> QED BY <2>3, <2>4, OutcomeSteps
<1>5. \A k \in Command : journal'[k] = "ok" => effects'[k] > 0
  BY <1>2 DEF EffectsFollowJournal
<1> QED BY <1>4, <1>5 DEF OutcomeAgrees, Explained, CutShort

\* The invariant is inductive.
LEMMA DeliveryStep == DeliveryInv /\ [Next]_vars => DeliveryInv'
<1> SUFFICES ASSUME DeliveryInv, [Next]_vars PROVE DeliveryInv'
  OBVIOUS
<1>1. TypeOK'
  BY TypeStep DEF DeliveryInv
<1> QED BY <1>1, ExecutionStep, RepliesStep, OutcomeStep DEF DeliveryInv

\* journal.begin under execution_lock: a command the agent may not resume is
\* carried out at most once, however often and over whichever transport it is
\* delivered, and however often the agent or the panel restarts.
THEOREM ExecutedAtMostOnce == Spec => []AtMostOnce
<1>1. DeliveryInv => AtMostOnce
  BY DEF DeliveryInv, EffectsFollowJournal, AtMostOnce
<1> QED BY <1>1, DeliveryInit, DeliveryStep, PTL DEF Spec

\* The status the panel shows for a command agrees with what the agent did:
\* success only after the operation, failure only when the journal says so or the
\* execution was cut short for good.
THEOREM OutcomesAgree == Spec => []OutcomeAgrees
<1>1. DeliveryInv => OutcomeAgrees
  BY DEF DeliveryInv
<1> QED BY <1>1, DeliveryInit, DeliveryStep, PTL DEF Spec

(***************************************************************************)
(* Refinement of RemoteCall.                                               *)
(***************************************************************************)
ActedMap == {k \in Command : effects[k] > 0}
OutcomeMap == [k \in Command |-> IF row[k].status \in Settled THEN row[k].status ELSE "open"]

\* Carrying out an operation is the abstract Act: the outcome is still open.
LEMMA ApplyRefines ==
  ASSUME DeliveryInv, DeliveryInv', NEW t \in Thread, Apply(t)
  PROVE  \E k \in Command :
            /\ OutcomeMap[k] = "open"
            /\ ActedMap' = ActedMap \cup {k}
            /\ OutcomeMap' = OutcomeMap
<1> DEFINE k == thread[t].cmd
<1>0. /\ row \in [Command -> RowType] /\ effects \in [Command -> Nat] /\ OutcomeAgrees /\ OneExecutes
      /\ \A u \in Thread : Busy(u) => thread[u].cmd \in Command
  BY TypeParts DEF DeliveryInv, PanelTypes, ThreadTypes, AgentTypes
<1>1. k \in Command /\ Running(t) /\ journal[k] = "begun" /\ Executing(k)
  BY <1>0 DEF Apply, Busy, Running, OneExecutes, Executing
<1>2. row[k].status \notin Settled
  BY <1>0, <1>1 DEF OutcomeAgrees, Settled
<1>3. effects' = [effects EXCEPT ![k] = @ + 1] /\ row' = row
  BY DEF Apply, panel
<1>4. ActedMap' = ActedMap \cup {k}
  <2>1. effects'[k] > 0 /\ \A j \in Command \ {k} : effects'[j] = effects[j]
    BY <1>0, <1>1, <1>3
  <2> QED BY <1>1, <2>1 DEF ActedMap
<1>5. OutcomeMap[k] = "open" /\ OutcomeMap' = OutcomeMap
  BY <1>1, <1>2, <1>3 DEF OutcomeMap
<1> QED BY <1>1, <1>4, <1>5

\* No other step carries anything out.
LEMMA OnlyApplyActs ==
  ASSUME [Next]_vars
  PROVE  (\E t \in Thread : Apply(t)) \/ UNCHANGED effects
  BY ExecutionCases
     DEF Begin, Finish, Defer, WorkerTakes, WorkerReplies, HttpReplies, AgentCrash, HttpLease,
         ExecutionUnchanged

\* Recording a result is the abstract Settle, or nothing for a settled command.
LEMMA RecordRefines ==
  ASSUME DeliveryInv, NEW k \in Command, NEW r \in Reply, Explained(k, r),
         row' = ApplyResult(k, r), UNCHANGED effects
  PROVE  \/ ActedMap' = ActedMap /\ OutcomeMap' = OutcomeMap
         \/ \E o \in {"succeeded", "failed"} :
                /\ OutcomeMap[k] = "open"
                /\ o = "succeeded" => k \in ActedMap
                /\ OutcomeMap' = [OutcomeMap EXCEPT ![k] = o]
                /\ ActedMap' = ActedMap
<1>0. row \in [Command -> RowType] /\ EffectsFollowJournal
  BY TypeParts DEF DeliveryInv, PanelTypes
<1>1. ActedMap' = ActedMap
  BY DEF ActedMap
<1>2. CASE row[k].status \in Settled
  <2>1. row' = row
    BY <1>0, <1>2, ApplyResultOutcome
  <2> QED BY <1>1, <2>1 DEF OutcomeMap
<1>3. CASE row[k].status \notin Settled
  <2> DEFINE o == IF r = "ok" THEN "succeeded" ELSE "failed"
  <2>1. row'[k].status = o /\ \A j \in Command \ {k} : row'[j] = row[j]
    BY <1>0, <1>3, ApplyResultOutcome
  <2>2. o \in {"succeeded", "failed"} /\ o \in Settled
    BY DEF Settled
  <2>3. o = "succeeded" => k \in ActedMap
    BY <1>0 DEF Explained, EffectsFollowJournal, ActedMap
  <2> HIDE DEF o
  <2>4. OutcomeMap' = [OutcomeMap EXCEPT ![k] = o]
    BY <2>1, <2>2 DEF OutcomeMap
  <2>5. OutcomeMap[k] = "open"
    BY <1>3 DEF OutcomeMap
  <2> QED BY <1>1, <2>2, <2>3, <2>4, <2>5
<1> QED BY <1>2, <1>3

\* AgentDelivery keeps the promise of RemoteCall: through leases, redelivery,
\* reconnects and crashes, an operation changes the host only while its outcome
\* is open, success is recorded only after it did, and an outcome is final.
THEOREM DeliveryKeepsPromise == Spec => KeepsPromise
<1>1. Init => Promise!Init
  BY DEF Init, Promise!Init, Settled
<1>2. DeliveryInv /\ DeliveryInv' /\ [Next]_vars
      => [Promise!Next]_<<ActedMap, OutcomeMap>>
  <2> SUFFICES ASSUME DeliveryInv, DeliveryInv', [Next]_vars
               PROVE  Promise!Next \/ UNCHANGED <<ActedMap, OutcomeMap>>
    OBVIOUS
  <2>1. ASSUME NEW t \in Thread, Apply(t) PROVE Promise!Next
    BY <2>1, ApplyRefines DEF Promise!Next, Promise!Act, ActedMap, OutcomeMap
  <2>2. ASSUME UNCHANGED effects, NEW k \in Command, NEW r \in Reply, Explained(k, r),
               row' = ApplyResult(k, r)
        PROVE  Promise!Next \/ UNCHANGED <<ActedMap, OutcomeMap>>
    BY <2>2, RecordRefines DEF Promise!Next, Promise!Settle, ActedMap, OutcomeMap
  <2>3. ASSUME UNCHANGED effects, OutcomesKept PROVE UNCHANGED <<ActedMap, OutcomeMap>>
    <3>1. ActedMap' = ActedMap
      BY <2>3 DEF ActedMap
    <3>2. \A k \in Command :
            (IF row'[k].status \in Settled THEN row'[k].status ELSE "open")
            = (IF row[k].status \in Settled THEN row[k].status ELSE "open")
      BY <2>3 DEF OutcomesKept
    <3> QED BY <3>1, <3>2 DEF OutcomeMap
  <2> QED BY <2>1, <2>2, <2>3, OnlyApplyActs, OutcomeSteps
<1>3. Spec => Promise!Spec
  BY <1>1, <1>2, DeliveryInit, DeliveryStep, PTL DEF Spec, Promise!Spec, ActedMap, OutcomeMap
<1> QED BY <1>3 DEF KeepsPromise

(***************************************************************************)
(* Leases, acknowledgements and the live socket.                           *)
(***************************************************************************)
\* An attempt that is under way is one the panel has handed out.
AttemptsKnown ==
    /\ \A p \in pushes : p.attempt <= row[p.cmd].attempts
    /\ Busy("http") => thread["http"].attempt <= row[thread["http"].cmd].attempts

\* No push carries the attempt that the HTTP session holds: each lease has a
\* number of its own.
AttemptsApart ==
    Busy("http") => \A p \in pushes :
                        p.cmd = thread["http"].cmd => p.attempt # thread["http"].attempt

\* An acknowledgement is only on its way once the panel has recorded a result.
AcksFollowResults == \A m \in wire : m.type = "ack" => row[m.cmd].status \in Settled

LeaseInv == TypeOK /\ AttemptsKnown /\ AttemptsApart /\ HttpLeaseHonoured

\* What the lease operations do to one row.
LEMMA LeaseOperations ==
  ASSUME row \in [Command -> RowType], NEW k \in Command
  PROVE  /\ Leased(k)[k].attempts = row[k].attempts + 1 /\ Leased(k)[k].status = "leased"
         /\ \A j \in Command \ {k} : Leased(k)[j] = row[j]
         /\ \A n \in Nat, j \in Command :
              /\ ReleaseLease(k, n)[j].attempts = row[j].attempts
              /\ ReleaseLease(k, n)[j].status = "pending" =>
                     row[j].status = "pending" \/ (j = k /\ row[j].attempts = n)
         /\ \A r \in Reply, j \in Command :
              /\ ApplyResult(k, r)[j].attempts = row[j].attempts
              /\ ApplyResult(k, r)[j].status = "pending" => row[j].status = "pending"
         /\ \A j \in Command :
              /\ [row EXCEPT ![k].live = FALSE][j].attempts = row[j].attempts
              /\ [row EXCEPT ![k].live = FALSE][j].status = row[j].status
<1> USE DEF RowType
<1>1. /\ Leased(k)[k].attempts = row[k].attempts + 1 /\ Leased(k)[k].status = "leased"
      /\ \A j \in Command \ {k} : Leased(k)[j] = row[j]
  BY DEF Leased
<1>2. ASSUME NEW n \in Nat, NEW j \in Command
      PROVE  /\ ReleaseLease(k, n)[j].attempts = row[j].attempts
             /\ ReleaseLease(k, n)[j].status = "pending" =>
                    row[j].status = "pending" \/ (j = k /\ row[j].attempts = n)
  BY DEF ReleaseLease
<1>3. ASSUME NEW r \in Reply, NEW j \in Command
      PROVE  /\ ApplyResult(k, r)[j].attempts = row[j].attempts
             /\ ApplyResult(k, r)[j].status = "pending" => row[j].status = "pending"
  <2> DEFINE o == IF r = "ok" THEN "succeeded" ELSE "failed"
  <2>1. o # "pending"
    OBVIOUS
  <2> HIDE DEF o
  <2>2. LET f == [row EXCEPT ![k].status = o]
        IN  f[j].attempts = row[j].attempts /\ (f[j].status = "pending" => row[j].status = "pending")
    BY <2>1
  <2>3. ApplyResult(k, r) \in {row, [row EXCEPT ![k].status = o]}
    BY DEF ApplyResult, o
  <2> QED BY <2>2, <2>3
<1>4. ASSUME NEW j \in Command
      PROVE  /\ [row EXCEPT ![k].live = FALSE][j].attempts = row[j].attempts
             /\ [row EXCEPT ![k].live = FALSE][j].status = row[j].status
  OBVIOUS
<1> QED BY <1>1, <1>2, <1>3, <1>4

\* The HTTP session goes on with the command and the attempt it has, ends, or
\* takes a new lease.
HttpKept ==
    Busy("http")' => /\ Busy("http")
                     /\ thread'["http"].cmd = thread["http"].cmd
                     /\ thread'["http"].attempt = thread["http"].attempt

\* Only leasing gives the HTTP session something to do.
LEMMA HttpSteps ==
  ASSUME ThreadTypes, [Next]_vars
  PROVE  HttpKept \/ \E k \in Command : HttpLease(k) /\ UNCHANGED pushes
<1> USE DEF HttpKept, Busy, ThreadTypes, ThreadType, Thread
<1>1. CASE \E t \in Thread : Begin(t)
  BY <1>1 DEF Begin
<1>2. CASE \E t \in Thread : Apply(t)
  BY <1>2 DEF Apply
<1>3. CASE \E t \in Thread, r \in Result : Finish(t, r)
  BY <1>3 DEF Finish, Running
<1>4. CASE \E t \in Thread : Defer(t)
  BY <1>4 DEF Defer, Idle
<1>5. CASE WorkerTakes \/ WorkerReplies
  BY <1>5 DEF WorkerTakes, WorkerReplies
<1>6. CASE HttpReplies \/ AgentCrash
  BY <1>6 DEF HttpReplies, AgentCrash, Idle
<1>7. CASE ExecutionUnchanged
  BY <1>7 DEF ExecutionUnchanged
<1>8. CASE \E k \in Command : HttpLease(k)
  BY <1>8 DEF HttpLease
<1> QED BY ExecutionCases, <1>1, <1>2, <1>3, <1>4, <1>5, <1>6, <1>7, <1>8

\* A step that starts no attempt keeps the numbers, and offers a command again
\* only for a push that failed with the attempt the row has.
RowsKept ==
    /\ \A j \in Command : row'[j].attempts = row[j].attempts
    /\ \A j \in Command : row'[j].status = "pending" =>
           \/ row[j].status = "pending"
           \/ \E p \in pushes : p.cmd = j /\ p.attempt = row[j].attempts
    /\ pushes' \subseteq pushes

\* The other steps start an attempt.
LEMMA RowSteps ==
  ASSUME TypeOK, [Next]_vars
  PROVE  RowsKept \/ \E k \in Command : StartPush(k) \/ HttpLease(k)
<1>0. PanelTypes /\ WireTypes /\ ThreadTypes /\ AgentTypes /\ row \in [Command -> RowType]
  BY TypeParts DEF PanelTypes
<1>k. ASSUME row' = row, pushes' \subseteq pushes PROVE RowsKept
  BY <1>k DEF RowsKept
<1>r. ASSUME NEW k \in Command, NEW r \in Reply, row' = ApplyResult(k, r) \/ row' = row,
             pushes' = pushes
      PROVE  RowsKept
  BY <1>0, <1>r, LeaseOperations DEF RowsKept
<1>1. ASSUME NEW k \in Command, LeaseExpires(k) PROVE RowsKept
  BY <1>0, <1>1, LeaseOperations DEF LeaseExpires, RowsKept
<1>2. ASSUME NEW k \in Command, ReportPending(k) PROVE RowsKept
  BY <1>2, <1>k DEF ReportPending, panel
<1>3. ASSUME NEW k \in Command, HttpReportPending(k) PROVE RowsKept
  <2>1. journal[k] \in Reply /\ (row' = ApplyResult(k, journal[k]) \/ row' = row)
    BY <1>3 DEF HttpReportPending, Pending, Reply, Post
  <2> QED BY <1>3, <1>r, <2>1 DEF HttpReportPending
<1>4. CASE HttpReplies
  <2>1. /\ thread["http"].cmd \in Command /\ thread["http"].result \in Reply
        /\ row' = ApplyResult(thread["http"].cmd, thread["http"].result) \/ row' = row
    BY <1>0, <1>4 DEF HttpReplies, Post, ThreadTypes, ThreadType, Thread, Busy
  <2> QED BY <1>4, <1>r, <2>1 DEF HttpReplies
<1>5. ASSUME NEW m \in wire, HandleReply(m) PROVE RowsKept
  <2>1. m.cmd \in Command /\ m.result \in Reply
    BY <1>0, <1>5 DEF HandleReply, WireTypes, CallType, ReplyType, AckType
  <2> QED BY <1>5, <1>r, <2>1 DEF HandleReply
<1>6. ASSUME NEW p \in pushes, PushSent(p) \/ PushRaises(p) \/ PushTimesOut(p) PROVE RowsKept
  <2>1. p.cmd \in Command /\ p.attempt \in Nat
    BY <1>0 DEF PanelTypes, PushType
  <2>2. pushes' \subseteq pushes /\ (row' = row \/ row' = ReleaseLease(p.cmd, p.attempt))
    BY <1>6 DEF PushSent, PushRaises, PushTimesOut, FailPush
  <2>3. CASE row' = ReleaseLease(p.cmd, p.attempt)
    BY <1>0, <2>1, <2>2, <2>3, LeaseOperations DEF RowsKept
  <2> QED BY <1>k, <2>2, <2>3
<1>7. ASSUME NEW m \in wire, ReceiveCall(m) \/ ReceiveAck(m) PROVE RowsKept
  BY <1>7, <1>k DEF ReceiveCall, ReceiveAck, panel
<1>8. ASSUME NEW s \in entering \cup accepting \cup handlers, AnswerAuth(s) \/ Register(s) \/ HandlerEnds(s)
      PROVE  RowsKept
  BY <1>8, <1>k DEF AnswerAuth, Register, HandlerEnds
<1>9. ASSUME NEW t \in Thread, ThreadStep(t) PROVE RowsKept
  BY <1>9, <1>k DEF ThreadStep, Begin, Apply, Finish, Defer, panel
<1>10. CASE Connect \/ Accepted \/ SocketBreaks \/ WorkerTakes \/ WorkerReplies \/ PanelRestart \/ AgentCrash
            \/ UNCHANGED vars
  BY <1>10, <1>k DEF Connect, Accepted, SocketBreaks, WorkerTakes, WorkerReplies, PanelRestart, AgentCrash,
                     vars, panel
<1> QED
  BY <1>1, <1>2, <1>3, <1>4, <1>5, <1>6, <1>7, <1>8, <1>9, <1>10 DEF Next

\* The lease invariant is inductive.
LEMMA LeaseStep == LeaseInv /\ [Next]_vars => LeaseInv'
<1> SUFFICES ASSUME LeaseInv, [Next]_vars PROVE LeaseInv'
  OBVIOUS
<1>0. /\ TypeOK /\ PanelTypes /\ ThreadTypes /\ row \in [Command -> RowType]
      /\ \A k \in Command : row[k].attempts \in Nat
      /\ \A p \in pushes : p.cmd \in Command /\ p.attempt \in Nat
      /\ thread["http"].attempt \in Nat
      /\ Busy("http") => thread["http"].cmd \in Command
  BY TypeParts DEF LeaseInv, PanelTypes, ThreadTypes, PushType, RowType, ThreadType, Thread
<1>1. TypeOK'
  BY TypeStep DEF LeaseInv
<1> DEFINE Kept == AttemptsKnown' /\ AttemptsApart' /\ HttpLeaseHonoured'
<1>2. ASSUME RowsKept, HttpKept PROVE Kept
  <2>1. \A p \in pushes' : p \in pushes /\ p.attempt <= row[p.cmd].attempts /\ p.cmd \in Command
    BY <1>0, <1>2 DEF LeaseInv, AttemptsKnown, RowsKept
  <2>2. AttemptsKnown'
    BY <1>0, <1>2, <2>1 DEF LeaseInv, AttemptsKnown, RowsKept, HttpKept
  <2>3. AttemptsApart'
    BY <1>2, <2>1 DEF LeaseInv, AttemptsApart, HttpKept
  <2>4. ASSUME NEW k \in Command, Busy("http")', thread'["http"].cmd = k,
               thread'["http"].attempt = row'[k].attempts, row'[k].status = "pending"
        PROVE  FALSE
    <3>1. /\ Busy("http") /\ thread["http"].cmd = k
          /\ thread["http"].attempt = row[k].attempts
      BY <1>2, <2>4 DEF HttpKept, RowsKept
    <3>2. row[k].status # "pending"
      BY <3>1 DEF LeaseInv, HttpLeaseHonoured
    <3>3. PICK p \in pushes : p.cmd = k /\ p.attempt = row[k].attempts
      BY <1>2, <2>4, <3>2 DEF RowsKept
    <3> QED BY <3>1, <3>3 DEF LeaseInv, AttemptsApart
  <2>5. HttpLeaseHonoured'
    BY <2>4 DEF HttpLeaseHonoured
  <2> QED BY <2>2, <2>3, <2>5
<1>3. ASSUME NEW k \in Command, StartPush(k) PROVE Kept
  <2> DEFINE new == [cmd |-> k, attempt |-> row[k].attempts + 1, socket |-> registered]
  <2>1. /\ thread' = thread /\ pushes' = pushes \cup {new} /\ row' = Leased(k)
        /\ new.cmd = k /\ new.attempt = row[k].attempts + 1
    BY <1>3 DEF StartPush, agent
  <2>2. /\ row'[k].attempts = row[k].attempts + 1 /\ row'[k].status = "leased"
        /\ \A j \in Command \ {k} : row'[j] = row[j]
    BY <1>0, <2>1, LeaseOperations
  <2> HIDE DEF new
  <2>3. \A j \in Command : row[j].attempts <= row'[j].attempts
    BY <1>0, <2>2
  <2>4. AttemptsKnown'
    <3>1. \A p \in pushes' : p.attempt <= row'[p.cmd].attempts
      BY <1>0, <2>1, <2>2 DEF LeaseInv, AttemptsKnown
    <3>2. Busy("http") => thread["http"].attempt <= row'[thread["http"].cmd].attempts
      BY <1>0, <2>2 DEF LeaseInv, AttemptsKnown
    <3> QED BY <2>1, <3>1, <3>2 DEF AttemptsKnown, Busy
  <2>5. AttemptsApart'
    <3>1. Busy("http") /\ thread["http"].cmd = k => thread["http"].attempt # new.attempt
      BY <1>0, <2>1 DEF LeaseInv, AttemptsKnown
    <3> QED BY <2>1, <3>1 DEF LeaseInv, AttemptsApart, Busy
  <2>6. HttpLeaseHonoured'
    BY <2>1, <2>2 DEF LeaseInv, HttpLeaseHonoured, Busy
  <2> QED BY <2>4, <2>5, <2>6
<1>4. ASSUME NEW k \in Command, HttpLease(k) PROVE Kept
  <2>1. /\ row' = Leased(k) /\ pushes' = pushes
        /\ \/ thread' = thread
           \/ thread' = [thread EXCEPT !["http"] = At("wait", k, row[k].attempts + 1)]
        /\ ~Busy("http")
    BY <1>4 DEF HttpLease, HttpFree
  <2>2. /\ row'[k].attempts = row[k].attempts + 1 /\ row'[k].status = "leased"
        /\ \A j \in Command \ {k} : row'[j] = row[j]
    BY <1>0, <2>1, LeaseOperations
  <2>3. Busy("http")' => thread'["http"].cmd = k /\ thread'["http"].attempt = row[k].attempts + 1
    BY <1>0, <2>1 DEF ThreadTypes, Thread, Busy, At
  <2>4. \A p \in pushes' : p.attempt <= row'[p.cmd].attempts
    BY <1>0, <2>1, <2>2 DEF LeaseInv, AttemptsKnown
  <2>5. AttemptsKnown'
    BY <1>0, <2>2, <2>3, <2>4 DEF AttemptsKnown
  <2>6. AttemptsApart'
    BY <1>0, <2>1, <2>3 DEF LeaseInv, AttemptsKnown, AttemptsApart
  <2>7. HttpLeaseHonoured'
    BY <2>2, <2>3 DEF HttpLeaseHonoured
  <2> QED BY <2>5, <2>6, <2>7
<1>5. Kept
  BY <1>0, <1>2, <1>3, <1>4, RowSteps, HttpSteps
<1> QED BY <1>1, <1>5 DEF LeaseInv

\* The initial state satisfies the lease invariant.
LEMMA LeaseInit == Init => LeaseInv
  BY TypeInit DEF Init, LeaseInv, AttemptsKnown, AttemptsApart, HttpLeaseHonoured, Busy, Idle, Thread

\* release_command_lease compares attempts: however late a push over a broken
\* socket fails, it does not offer again what the HTTP session has leased since.
THEOREM LeaseHonoured == Spec => []HttpLeaseHonoured
<1>1. LeaseInv => HttpLeaseHonoured
  BY DEF LeaseInv
<1> QED BY <1>1, LeaseInit, LeaseStep, PTL DEF Spec

AckInv == DeliveryInv /\ AcksFollowResults /\ NoResultLost

\* What the panel has recorded stays recorded.
LEMMA SettledStays ==
  ASSUME DeliveryInv, [Next]_vars, NEW k \in Command, row[k].status \in Settled
  PROVE  row'[k].status \in Settled
<1>0. row \in [Command -> RowType]
  BY TypeParts DEF DeliveryInv, PanelTypes
<1>1. CASE OutcomesKept
  BY <1>1 DEF OutcomesKept
<1>2. ASSUME NEW j \in Command, NEW r \in Reply, row' = ApplyResult(j, r)
      PROVE  row'[k].status \in Settled
  BY <1>0, <1>2, ApplyResultOutcome
<1> QED BY <1>1, <1>2, OutcomeSteps

\* Applying a result settles the command.
LEMMA ApplyingSettles ==
  ASSUME row \in [Command -> RowType], NEW k \in Command, NEW r \in Reply, row' = ApplyResult(k, r)
  PROVE  row'[k].status \in Settled
<1>1. row[k].status \in Settled => row'[k].status \in Settled
  BY ApplyResultOutcome
<1>2. row[k].status \notin Settled => row'[k].status \in {"succeeded", "failed"}
  BY ApplyResultOutcome
<1> QED BY <1>1, <1>2 DEF Settled

\* Acknowledgements start where a reply is handled; the others were on the wire
\* before.
LEMMA AckSources ==
  ASSUME [Next]_vars
  PROVE  \A m \in wire' : m.type = "ack" =>
           \/ m \in wire
           \/ \E n \in wire : HandleReply(n) /\ m.cmd = n.cmd
<1> SUFFICES ASSUME NEW m \in wire', m.type = "ack"
             PROVE  m \in wire \/ \E n \in wire : HandleReply(n) /\ m.cmd = n.cmd
  OBVIOUS
<1>1. CASE \E k \in Command :
              StartPush(k) \/ LeaseExpires(k) \/ ReportPending(k) \/ HttpLease(k) \/ HttpReportPending(k)
  BY <1>1 DEF StartPush, LeaseExpires, ReportPending, HttpLease, HttpReportPending, Answer
<1>2. CASE \E p \in pushes : PushSent(p) \/ PushRaises(p) \/ PushTimesOut(p)
  BY <1>2 DEF PushSent, PushRaises, PushTimesOut, CallTo
<1>3. CASE \E n \in wire : HandleReply(n)
  BY <1>3 DEF HandleReply, Ack
<1>4. CASE \E n \in wire : ReceiveCall(n) \/ ReceiveAck(n)
  BY <1>4 DEF ReceiveCall, ReceiveAck
<1>5. CASE \E s \in entering \cup accepting \cup handlers : AnswerAuth(s) \/ Register(s) \/ HandlerEnds(s)
  BY <1>5 DEF AnswerAuth, Register, HandlerEnds
<1>6. CASE \E t \in Thread : ThreadStep(t)
  BY <1>6 DEF ThreadStep, Begin, Apply, Finish, Defer
<1>7. CASE Connect \/ Accepted \/ SocketBreaks \/ WorkerTakes \/ HttpReplies \/ PanelRestart \/ AgentCrash
           \/ UNCHANGED vars
  BY <1>7 DEF Connect, Accepted, SocketBreaks, WorkerTakes, HttpReplies, PanelRestart, AgentCrash, ToPanel, vars
<1>8. CASE WorkerReplies
  BY <1>8 DEF WorkerReplies, Answer
<1> QED BY <1>1, <1>2, <1>3, <1>4, <1>5, <1>6, <1>7, <1>8 DEF Next

\* The agent takes a result for acknowledged when the acknowledgement comes in or
\* the HTTP answer does.
LEMMA AckedSources ==
  ASSUME ThreadTypes, [Next]_vars
  PROVE  \A k \in acked' :
           \/ k \in acked
           \/ \E m \in wire : m.type = "ack" /\ m.cmd = k
           \/ k \in Command /\ \E r \in Reply : row' = ApplyResult(k, r)
<1> DEFINE Source(k) ==
      \/ k \in acked
      \/ \E m \in wire : m.type = "ack" /\ m.cmd = k
      \/ k \in Command /\ \E r \in Reply : row' = ApplyResult(k, r)
<1>a. ASSUME acked' = acked PROVE \A k \in acked' : Source(k)
  BY <1>a
<1>p. ASSUME NEW k \in Command, NEW r \in Reply, Post(k, r) PROVE \A j \in acked' : Source(j)
  BY <1>p DEF Post
<1>1. ASSUME NEW m \in wire, ReceiveAck(m) PROVE \A k \in acked' : Source(k)
  BY <1>1 DEF ReceiveAck
<1>2. CASE HttpReplies
  <2>1. thread["http"].cmd \in Command /\ thread["http"].result \in Reply
    BY <1>2 DEF HttpReplies, ThreadTypes, ThreadType, Thread, Busy
  <2> QED BY <1>2, <1>p, <2>1 DEF HttpReplies
<1>3. ASSUME NEW k \in Command, HttpReportPending(k) PROVE \A j \in acked' : Source(j)
  <2>1. journal[k] \in Reply /\ Post(k, journal[k])
    BY <1>3 DEF HttpReportPending, Pending, Reply
  <2> QED BY <1>p, <2>1
<1>4. ASSUME NEW k \in Command, StartPush(k) \/ LeaseExpires(k) \/ ReportPending(k) \/ HttpLease(k)
      PROVE  acked' = acked
  BY <1>4 DEF StartPush, LeaseExpires, ReportPending, HttpLease, agent
<1>5. ASSUME NEW p \in pushes, PushSent(p) \/ PushRaises(p) \/ PushTimesOut(p) PROVE acked' = acked
  BY <1>5 DEF PushSent, PushRaises, PushTimesOut, FailPush, agent
<1>6. ASSUME NEW m \in wire, HandleReply(m) \/ ReceiveCall(m) PROVE acked' = acked
  BY <1>6 DEF HandleReply, ReceiveCall, agent
<1>7. ASSUME NEW s \in entering \cup accepting \cup handlers, AnswerAuth(s) \/ Register(s) \/ HandlerEnds(s)
      PROVE  acked' = acked
  BY <1>7 DEF AnswerAuth, Register, HandlerEnds, agent
<1>8. ASSUME NEW t \in Thread, ThreadStep(t) PROVE acked' = acked
  BY <1>8 DEF ThreadStep, Begin, Apply, Finish, Defer
<1>9. CASE Connect \/ Accepted \/ SocketBreaks \/ WorkerTakes \/ WorkerReplies \/ PanelRestart \/ AgentCrash
           \/ UNCHANGED vars
  BY <1>9, <1>a DEF Connect, Accepted, SocketBreaks, WorkerTakes, WorkerReplies, PanelRestart, AgentCrash,
                    vars, agent
<1> QED BY <1>a, <1>1, <1>2, <1>3, <1>4, <1>5, <1>6, <1>7, <1>8, <1>9 DEF Next

\* The acknowledgement invariant is inductive.
LEMMA AckStep == AckInv /\ [Next]_vars => AckInv'
<1> SUFFICES ASSUME AckInv, [Next]_vars PROVE AckInv'
  OBVIOUS
<1>0. /\ DeliveryInv /\ WireTypes /\ ThreadTypes /\ row \in [Command -> RowType]
      /\ acked \subseteq Command
      /\ \A m \in wire : m.cmd \in Command
  BY TypeParts DEF AckInv, DeliveryInv, PanelTypes, AgentTypes, WireTypes, CallType, ReplyType, AckType
<1>1. DeliveryInv'
  BY <1>0, DeliveryStep
<1>2. ASSUME NEW m \in wire', m.type = "ack" PROVE row'[m.cmd].status \in Settled
  <2>1. CASE m \in wire
    BY <1>0, <1>2, <2>1, SettledStays DEF AckInv, AcksFollowResults
  <2>2. ASSUME NEW n \in wire, HandleReply(n), m.cmd = n.cmd PROVE row'[m.cmd].status \in Settled
    <3>1. n.result \in Reply /\ n.cmd \in Command /\ row' = ApplyResult(n.cmd, n.result)
      BY <1>0, <2>2 DEF HandleReply, WireTypes, CallType, ReplyType, AckType
    <3> QED BY <1>0, <2>2, <3>1, ApplyingSettles
  <2> QED BY <1>2, <2>1, <2>2, AckSources
<1>3. ASSUME NEW k \in acked' PROVE row'[k].status \in Settled
  <2>1. CASE k \in acked
    BY <1>0, <2>1, SettledStays DEF AckInv, NoResultLost
  <2>2. ASSUME NEW m \in wire, m.type = "ack", m.cmd = k PROVE row'[k].status \in Settled
    BY <1>0, <2>2, SettledStays DEF AckInv, AcksFollowResults
  <2>3. ASSUME k \in Command, NEW r \in Reply, row' = ApplyResult(k, r)
        PROVE  row'[k].status \in Settled
    BY <1>0, <2>3, ApplyingSettles
  <2> QED BY <1>0, <1>3, <2>1, <2>2, <2>3, AckedSources
<1> QED BY <1>1, <1>2, <1>3 DEF AckInv, AcksFollowResults, NoResultLost

\* The initial state satisfies the acknowledgement invariant.
LEMMA AckInit == Init => AckInv
  BY DeliveryInit DEF Init, AckInv, AcksFollowResults, NoResultLost

\* journal.acknowledge: the agent stops repeating a result only when the panel has
\* recorded one, whatever answers are lost and whoever restarts.
THEOREM ResultsKept == Spec => []NoResultLost
<1>1. AckInv => NoResultLost
  BY DEF AckInv
<1> QED BY <1>1, AckInit, AckStep, PTL DEF Spec

SocketInv == TypeOK /\ LiveSocketRegistered

\* Every step keeps the live socket registered, until a send on it times out or an older socket's
\* handler registers over it.
LEMMA SocketStep == SocketInv /\ [Next]_vars => SocketInv'
<1> SUFFICES ASSUME SocketInv, [Next]_vars PROVE LiveSocketRegistered'
  BY TypeStep DEF SocketInv
<1>0. /\ LiveSocketRegistered /\ opened \in Nat /\ handlers \subseteq 1 .. opened
      /\ cut \in BOOLEAN /\ registered \in 0 .. opened
  BY TypeParts DEF SocketInv, PanelTypes, FlagTypes
<1> USE DEF LiveSocketRegistered, sockets
<1>k. ASSUME UNCHANGED <<registered, conn, handlers, cut>> PROVE LiveSocketRegistered'
  BY <1>0, <1>k
<1>1. ASSUME NEW k \in Command,
             StartPush(k) \/ LeaseExpires(k) \/ ReportPending(k) \/ HttpLease(k)
      PROVE  LiveSocketRegistered'
  BY <1>1, <1>k DEF StartPush, LeaseExpires, ReportPending, HttpLease, panel, agent, Calm
<1>2. ASSUME NEW k \in Command, HttpReportPending(k) PROVE LiveSocketRegistered'
  BY <1>2, <1>k DEF HttpReportPending
<1>3. CASE HttpReplies
  BY <1>3, <1>k DEF HttpReplies
<1>4. ASSUME NEW p \in pushes, PushSent(p) PROVE LiveSocketRegistered'
  BY <1>4, <1>k DEF PushSent, agent
<1>5. ASSUME NEW p \in pushes, PushRaises(p) PROVE LiveSocketRegistered'
  BY <1>0, <1>5 DEF PushRaises, FailPush, Unregister, agent, Calm
<1>6. ASSUME NEW p \in pushes, PushTimesOut(p) PROVE LiveSocketRegistered'
  BY <1>0, <1>6 DEF PushTimesOut, FailPush, Unregister, agent
<1>7. ASSUME NEW m \in wire, HandleReply(m) \/ ReceiveCall(m) \/ ReceiveAck(m)
      PROVE  LiveSocketRegistered'
  BY <1>7, <1>k DEF HandleReply, ReceiveCall, ReceiveAck, panel, agent, Calm
<1>8. ASSUME NEW s \in entering \cup accepting \cup handlers, AnswerAuth(s) \/ Register(s) \/ HandlerEnds(s)
      PROVE  LiveSocketRegistered'
  <2>1. CASE AnswerAuth(s)
    BY <1>k, <2>1 DEF AnswerAuth, agent
  <2>2. CASE Register(s)
    <3>1. /\ handlers' = handlers \cup {s} /\ registered' = s /\ conn' = conn
          /\ cut' = (cut \/ (registered = conn /\ conn \notin {0, s}))
      BY <2>2 DEF Register, agent
    <3>2. conn \in handlers => conn # 0
      BY <1>0
    <3> QED BY <1>0, <3>1, <3>2, Zenon
  <2>3. CASE HandlerEnds(s)
    BY <1>0, <2>3 DEF HandlerEnds, Unregister, agent
  <2> QED BY <1>8, <2>1, <2>2, <2>3
<1>9. ASSUME NEW t \in Thread, ThreadStep(t) PROVE LiveSocketRegistered'
  BY <1>9, <1>k DEF ThreadStep, Begin, Apply, Finish, Defer, panel, Calm
<1>10. CASE Connect
  BY <1>0, <1>10 DEF Connect
<1>12. CASE SocketBreaks \/ PanelRestart \/ AgentCrash
  BY <1>0, <1>12 DEF SocketBreaks, PanelRestart, AgentCrash, panel
<1>11. CASE Accepted \/ WorkerTakes \/ WorkerReplies \/ UNCHANGED vars
  BY <1>11, <1>k DEF Accepted, WorkerTakes, WorkerReplies, vars, panel, agent, Calm
<1> QED BY <1>1, <1>2, <1>3, <1>4, <1>5, <1>6, <1>7, <1>8, <1>9, <1>10, <1>11, <1>12 DEF Next

\* unregister() compares sockets: through any number of reconnects, and in whatever order handlers
\* answer, register and end, the registered live socket loses its registration only when a send on it
\* times out or the handler of an older socket, held up before register(), registers over it; no
\* handler that ends and no failed push of an old socket takes it away.
THEOREM LiveSocketStays == Spec => []LiveSocketRegistered
<1>1. Init => SocketInv
  BY TypeInit DEF Init, SocketInv, LiveSocketRegistered
<1>2. SocketInv => LiveSocketRegistered
  BY DEF SocketInv
<1> QED BY <1>1, <1>2, SocketStep, PTL DEF Spec
=============================================================================
