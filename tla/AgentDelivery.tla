---------------------------- MODULE AgentDelivery ----------------------------
(***************************************************************************)
(* How a queued command reaches one server's agent and how its result comes *)
(* back: WebSocket pushes and HTTP leases of the control plane              *)
(* (services/agent_ws.py, api/routes/agents.py, the lease operations of     *)
(* services/inventory.py) against the agent's receive queue, its two        *)
(* consumers and its on-disk journal (agent client.py and journal.py).      *)
(*                                                                         *)
(* Sockets are numbered in the order the agent opens them.  A socket is     *)
(* reliable until it breaks; what was under way on it is then lost.         *)
(***************************************************************************)
EXTENDS Integers, Sequences, FiniteSets

CONSTANTS
    Command,
    Resumable,     \* commands the agent may run again (lifecycle, HTTP-01, cleanup)
    QueueLimit,    \* maxsize of the agent's receive queue
    MaxFaults,     \* bound: breaks, crashes, restarts, losses, deferrals, early expiries
    MaxTimeouts,   \* bound: sends that time out on a socket that stays alive
    NoCommand

ASSUME DeliveryAssumption ==
    /\ Resumable \subseteq Command
    /\ QueueLimit \in Nat \ {0}
    /\ MaxFaults \in Nat
    /\ MaxTimeouts \in Nat
    /\ NoCommand \notin Command

VARIABLES
    row,         \* the agent_commands rows
    registered,  \* AgentConnectionManager._connections: the socket, or 0
    entering,    \* sockets whose handler has the auth message but has not answered it
    accepting,   \* those whose handler is sending the answer
    handlers,    \* those whose handler has registered them and reads their messages
    cut,         \* history: has the agent's open socket lost its registration?
    pushes,      \* dispatch_command calls between the lease and the send
    wire,        \* messages under way on the sockets
    conn,        \* the agent's open socket, or 0
    ready,       \* Agent.websocket is set: the panel's answer has come over it
    opened,      \* the number of sockets opened so far
    queue,       \* Agent.queue
    thread,      \* the consumers: the worker task and the HTTP session
    journal,     \* the journal's row: none, begun, or its result
    acked,       \* commands whose journal row is acknowledged
    effects,     \* how often the command's operation was carried out
    faults,      \* disturbances so far
    timeouts

sockets == <<registered, entering, accepting, handlers, cut>>
panel == <<row, sockets, pushes>>
agent == <<conn, ready, opened, queue, thread, journal, acked, effects>>
vars == <<panel, wire, agent, faults, timeouts>>

Thread == {"worker", "http"}
Result == {"ok", "error"}
Reply == Result \cup {"interrupted"}
Settled == {"succeeded", "failed"}

Idle == [pc |-> "idle", cmd |-> NoCommand, result |-> "error", attempt |-> 0]
At(pc, k, n) == [pc |-> pc, cmd |-> k, result |-> "error", attempt |-> n]
Busy(t) == thread[t].pc # "idle"
Running(t) == thread[t].pc \in {"run", "applied"}

CallTo(s, k, n) == [type |-> "call", socket |-> s, cmd |-> k, attempt |-> n]
Answer(s, k, r) == [type |-> "reply", socket |-> s, cmd |-> k, result |-> r]
Ack(s, k) == [type |-> "ack", socket |-> s, cmd |-> k]

\* Breaking a socket loses what is on its way to the agent; what is on its way
\* to the panel lives as long as the handler.
ToPanel == {m \in wire : m.type = "reply"}
Disturb == faults < MaxFaults /\ faults' = faults + 1
Calm == UNCHANGED <<faults, timeouts>>

(***************************************************************************)
(* The control plane.                                                      *)
(***************************************************************************)
\* Fault: an expired lease is not offered again.
LeaseFree_Fault(k) == row[k].status = "pending"
\* _command_is_lease_candidate: unsent, or leased with an expired lease.
LeaseFree(k) == row[k].status = "pending" \/ (row[k].status = "leased" /\ ~row[k].live)

Leased(k) == [row EXCEPT ![k] = [status |-> "leased", attempts |-> row[k].attempts + 1,
                                 live |-> TRUE]]

\* Fault: any failed push hands back whatever lease the command has.
ReleaseLease_Fault(k, attempts) ==
    IF row[k].status = "leased" THEN [row EXCEPT ![k].status = "pending", ![k].live = FALSE]
    ELSE row

\* release_command_lease: only the attempt that failed is handed back.
ReleaseLease(k, attempts) ==
    IF row[k].status = "leased" /\ row[k].attempts = attempts
    THEN [row EXCEPT ![k].status = "pending", ![k].live = FALSE]
    ELSE row

\* Fault: a handler that ends removes whatever connection is registered.
Unregister_Fault(s) == 0

\* unregister(): only the very same socket is removed.
Unregister(s) == IF registered = s THEN 0 ELSE registered

\* Fault: a result is only recorded while the command is leased.
ApplyResult_Fault(k, r) ==
    IF row[k].status # "leased" THEN row
    ELSE [row EXCEPT ![k].status = IF r = "ok" THEN "succeeded" ELSE "failed"]

\* _apply_command_result: a settled command ignores late and repeated results.
ApplyResult(k, r) ==
    IF row[k].status \in Settled THEN row
    ELSE [row EXCEPT ![k].status = IF r = "ok" THEN "succeeded" ELSE "failed"]

\* dispatch_command leases first and then awaits the send.
StartPush(k) ==
    /\ registered # 0
    /\ LeaseFree(k)
    /\ row' = Leased(k)
    /\ pushes' = pushes \cup {[cmd |-> k, attempt |-> row[k].attempts + 1, socket |-> registered]}
    /\ UNCHANGED <<sockets, wire, agent>> /\ Calm

\* The send returns; on a broken socket the message is lost in a buffer.
PushSent(p) ==
    /\ p \in pushes
    /\ pushes' = pushes \ {p}
    /\ \/ /\ p.socket = conn
          /\ wire' = wire \cup {CallTo(p.socket, p.cmd, p.attempt)} /\ UNCHANGED faults
       \/ p.socket # conn /\ Disturb /\ UNCHANGED wire
    /\ UNCHANGED <<row, sockets, agent, timeouts>>

\* The send raises: the connection is dropped and the attempt handed back.
FailPush(p) ==
    /\ p \in pushes
    /\ pushes' = pushes \ {p}
    /\ registered' = Unregister(p.socket)
    /\ row' = ReleaseLease(p.cmd, p.attempt)
    /\ UNCHANGED <<entering, accepting, handlers, agent>>

PushRaises(p) ==
    /\ p.socket # conn
    /\ FailPush(p)
    /\ UNCHANGED <<cut, wire>> /\ Calm

\* AgentSocket.send_json gives up after ten seconds; TimeoutError is an OSError.
\* The socket is alive, and the frame may still be in its buffer.
PushTimesOut(p) ==
    /\ p.socket = conn
    /\ timeouts < MaxTimeouts
    /\ timeouts' = timeouts + 1
    /\ FailPush(p)
    /\ cut' = (cut \/ registered = p.socket)
    /\ wire' \in {wire, wire \cup {CallTo(p.socket, p.cmd, p.attempt)}}
    /\ UNCHANGED faults

\* rpc_reply over a socket; the result is acknowledged in every case.
HandleReply(m) ==
    /\ m \in wire /\ m.type = "reply" /\ m.socket \in handlers
    /\ row' = ApplyResult(m.cmd, m.result)
    /\ wire' = (wire \ {m}) \cup (IF m.socket = conn THEN {Ack(m.socket, m.cmd)} ELSE {})
    /\ UNCHANGED <<sockets, pushes, agent>> /\ Calm

\* agent_websocket: the handler waits for the backup barrier, stores the registration and
\* awaits the send of the answer, over a socket that may have broken meanwhile.
AnswerAuth(s) ==
    /\ s \in entering
    /\ entering' = entering \ {s} /\ accepting' = accepting \cup {s}
    /\ UNCHANGED <<row, registered, handlers, cut, pushes, wire, agent>> /\ Calm

\* register(): the socket replaces whatever is registered, a newer one too.
Register(s) ==
    /\ s \in accepting
    /\ accepting' = accepting \ {s} /\ handlers' = handlers \cup {s}
    /\ registered' = s
    /\ cut' = (cut \/ (registered = conn /\ conn \notin {0, s}))
    /\ UNCHANGED <<row, entering, pushes, wire, agent>> /\ Calm

\* The handler of a broken socket notices and ends.
HandlerEnds(s) ==
    /\ s \in entering \cup accepting \cup handlers /\ s # conn
    /\ entering' = entering \ {s} /\ accepting' = accepting \ {s} /\ handlers' = handlers \ {s}
    /\ registered' = Unregister(s)
    /\ wire' = {m \in wire : m.socket # s}
    /\ UNCHANGED <<row, cut, pushes, agent>> /\ Calm

\* Is some delivery of k still on its way or with the agent?
Outstanding(k) ==
    \/ \E p \in pushes : p.cmd = k
    \/ \E m \in wire : m.cmd = k /\ m.type \in {"call", "reply"}
    \/ \E i \in 1 .. Len(queue) : queue[i].cmd = k
    \/ \E t \in Thread : Busy(t) /\ thread[t].cmd = k

\* timeout_ms passes.  While a delivery is outstanding that is a disturbance.
LeaseExpires(k) ==
    /\ row[k].status = "leased" /\ row[k].live
    /\ IF Outstanding(k) THEN Disturb ELSE UNCHANGED faults
    /\ row' = [row EXCEPT ![k].live = FALSE]
    /\ UNCHANGED <<sockets, pushes, wire, agent, timeouts>>

PanelRestart ==
    /\ Disturb
    /\ registered' = 0 /\ entering' = {} /\ accepting' = {} /\ handlers' = {} /\ cut' = FALSE
    /\ pushes' = {} /\ wire' = {} /\ conn' = 0 /\ ready' = FALSE
    /\ UNCHANGED <<row, opened, queue, thread, journal, acked, effects, timeouts>>

(***************************************************************************)
(* The agent's sockets.                                                    *)
(***************************************************************************)
\* websocket_session: the agent opens a socket and sends the auth message.
Connect ==
    /\ conn = 0 /\ ~Busy("http")
    /\ opened' = opened + 1 /\ conn' = opened + 1
    /\ entering' = entering \cup {opened + 1} /\ cut' = FALSE
    /\ UNCHANGED <<row, registered, accepting, handlers, pushes, ready, wire, queue, thread, journal,
                   acked, effects>> /\ Calm

\* The answer comes in, perhaps before the handler that sent it has gone on.
Accepted ==
    /\ conn \in accepting \cup handlers /\ ~ready
    /\ ready' = TRUE
    /\ UNCHANGED <<panel, wire, conn, opened, queue, thread, journal, acked, effects>> /\ Calm

\* The network fails, or the agent gives up waiting for the answer.
SocketBreaks ==
    /\ conn # 0 /\ Disturb
    /\ conn' = 0 /\ ready' = FALSE /\ wire' = ToPanel
    /\ UNCHANGED <<panel, opened, queue, thread, journal, acked, effects, timeouts>>

QueueHasRoom == Len(queue) < QueueLimit

\* websocket_receive: a full queue makes the receiver wait.
ReceiveCall(m) ==
    /\ m \in wire /\ m.type = "call" /\ m.socket = conn
    /\ ready /\ QueueHasRoom
    /\ queue' = Append(queue, [cmd |-> m.cmd, attempt |-> m.attempt])
    /\ wire' = wire \ {m}
    /\ UNCHANGED <<panel, conn, ready, opened, thread, journal, acked, effects>> /\ Calm

ReceiveAck(m) ==
    /\ m \in wire /\ m.type = "ack" /\ m.socket = conn
    /\ acked' = acked \cup {m.cmd}
    /\ wire' = wire \ {m}
    /\ UNCHANGED <<panel, conn, ready, opened, queue, thread, journal, effects>> /\ Calm

\* Fault: a failed command's result is not repeated.
Pending_Fault == {k \in Command : journal[k] = "ok"} \ acked
\* pending_results(): journalled and not yet acknowledged.
Pending == {k \in Command : journal[k] \in Result} \ acked

\* pending_results() are sent on connecting and with every heartbeat.
ReportPending(k) ==
    /\ ready /\ k \in Pending
    /\ Answer(conn, k, journal[k]) \notin wire
    /\ wire' = wire \cup {Answer(conn, k, journal[k])}
    /\ UNCHANGED <<panel, agent>> /\ Calm

(***************************************************************************)
(* Execution (Agent.execute, under execution_lock).                        *)
(***************************************************************************)
WorkerTakes ==
    /\ queue # <<>> /\ ~Busy("worker")
    /\ thread' = [thread EXCEPT !["worker"] = At("wait", Head(queue).cmd, Head(queue).attempt)]
    /\ queue' = Tail(queue)
    /\ UNCHANGED <<panel, wire, conn, ready, opened, journal, acked, effects>> /\ Calm

LockFree(t) == \A u \in Thread \ {t} : ~Running(u)

\* begin(): a new command, or an unfinished one that may be resumed.
MayRun(k) == journal[k] = "none" \/ (journal[k] = "begun" /\ k \in Resumable)

Begin(t) ==
    /\ thread[t].pc = "wait" /\ LockFree(t)
    /\ LET k == thread[t].cmd
       IN  \/ /\ MayRun(k)
              /\ journal' = [journal EXCEPT ![k] = "begun"]
              /\ thread' = [thread EXCEPT ![t].pc = "run"]
           \/ /\ ~MayRun(k)
              /\ thread' = [thread EXCEPT ![t].pc = "reply",
                              ![t].result = IF journal[k] \in Result THEN journal[k]
                                            ELSE "interrupted"]
              /\ UNCHANGED journal
    /\ UNCHANGED <<panel, wire, conn, ready, opened, queue, acked, effects>> /\ Calm

Apply(t) ==
    /\ thread[t].pc = "run"
    /\ thread' = [thread EXCEPT ![t].pc = "applied"]
    /\ effects' = [effects EXCEPT ![thread[t].cmd] = @ + 1]
    /\ UNCHANGED <<panel, wire, conn, ready, opened, queue, journal, acked>> /\ Calm

\* Fault: the result is sent without being journalled.
Journalled_Fault(k, r) == journal
Journalled(k, r) == [journal EXCEPT ![k] = r]

\* finish(): success, or an error or timeout at any point of the operation.
Finish(t, r) ==
    /\ Running(t)
    /\ r = "ok" => thread[t].pc = "applied"
    /\ journal' = Journalled(thread[t].cmd, r)
    /\ thread' = [thread EXCEPT ![t].pc = "reply", ![t].result = r]
    /\ UNCHANGED <<panel, wire, conn, ready, opened, queue, acked, effects>> /\ Calm

\* DeferredCommand: the lifecycle helper owns completion; no result for now.
Defer(t) ==
    /\ Running(t) /\ thread[t].cmd \in Resumable /\ Disturb
    /\ thread' = [thread EXCEPT ![t] = Idle]
    /\ UNCHANGED <<panel, wire, conn, ready, opened, queue, journal, acked, effects, timeouts>>

\* A reply without a socket is dropped; the journal keeps the result.
WorkerReplies ==
    /\ thread["worker"].pc = "reply"
    /\ wire' = IF ~ready THEN wire
               ELSE wire \cup {Answer(conn, thread["worker"].cmd, thread["worker"].result)}
    /\ thread' = [thread EXCEPT !["worker"] = Idle]
    /\ UNCHANGED <<panel, conn, ready, opened, queue, journal, acked, effects>> /\ Calm

\* The process dies: the journal and the host's state remain.
AgentCrash ==
    /\ Disturb
    /\ thread' = [t \in Thread |-> Idle] /\ queue' = <<>>
    /\ conn' = 0 /\ ready' = FALSE /\ wire' = ToPanel
    /\ UNCHANGED <<panel, opened, journal, acked, effects, timeouts>>

(***************************************************************************)
(* The HTTP session, which an "auto" agent enters while it has no socket.   *)
(* A lost request or response ends the session.                             *)
(***************************************************************************)
HttpFree == conn = 0 /\ ~Busy("http")

HttpLease(k) ==
    /\ HttpFree /\ LeaseFree(k)
    /\ row' = Leased(k)
    /\ \/ thread' = [thread EXCEPT !["http"] = At("wait", k, row[k].attempts + 1)] /\ Calm
       \/ Disturb /\ UNCHANGED <<thread, timeouts>>
    /\ UNCHANGED <<sockets, pushes, wire, conn, ready, opened, queue, journal, acked, effects>>

\* Posting a result: answered and acknowledged, or the answer or the request
\* itself is lost.
Post(k, r) ==
    \/ row' = ApplyResult(k, r) /\ acked' = acked \cup {k} /\ Calm
    \/ Disturb /\ row' = ApplyResult(k, r) /\ UNCHANGED <<acked, timeouts>>
    \/ Disturb /\ UNCHANGED <<row, acked, timeouts>>

HttpReplies ==
    /\ thread["http"].pc = "reply"
    /\ Post(thread["http"].cmd, thread["http"].result)
    /\ thread' = [thread EXCEPT !["http"] = Idle]
    /\ UNCHANGED <<sockets, pushes, wire, conn, ready, opened, queue, journal, effects>>

HttpReportPending(k) ==
    /\ HttpFree /\ k \in Pending
    /\ Post(k, journal[k])
    /\ UNCHANGED <<sockets, pushes, wire, conn, ready, opened, queue, thread, journal, effects>>

-----------------------------------------------------------------------------
Init ==
    /\ row = [k \in Command |-> [status |-> "pending", attempts |-> 0, live |-> FALSE]]
    /\ registered = 0 /\ entering = {} /\ accepting = {} /\ handlers = {} /\ cut = FALSE
    /\ pushes = {} /\ wire = {}
    /\ conn = 0 /\ ready = FALSE /\ opened = 0 /\ queue = <<>>
    /\ thread = [t \in Thread |-> Idle]
    /\ journal = [k \in Command |-> "none"]
    /\ acked = {} /\ effects = [k \in Command |-> 0]
    /\ faults = 0 /\ timeouts = 0

ThreadStep(t) == Begin(t) \/ Apply(t) \/ (\E r \in Result : Finish(t, r)) \/ Defer(t)

Next ==
    \/ \E k \in Command : StartPush(k) \/ LeaseExpires(k) \/ ReportPending(k)
                          \/ HttpLease(k) \/ HttpReportPending(k)
    \/ \E p \in pushes : PushSent(p) \/ PushRaises(p) \/ PushTimesOut(p)
    \/ \E m \in wire : HandleReply(m) \/ ReceiveCall(m) \/ ReceiveAck(m)
    \/ \E s \in entering \cup accepting \cup handlers : AnswerAuth(s) \/ Register(s) \/ HandlerEnds(s)
    \/ \E t \in Thread : ThreadStep(t)
    \/ Connect \/ Accepted \/ SocketBreaks \/ WorkerTakes \/ WorkerReplies \/ HttpReplies
    \/ PanelRestart \/ AgentCrash

Spec == Init /\ [][Next]_vars
-----------------------------------------------------------------------------
\* Every row, message, journal entry and consumer has the shape the code gives it.
TypeOK ==
    /\ row \in [Command -> [status : {"pending", "leased"} \cup Settled, attempts : Nat,
                            live : BOOLEAN]]
    /\ opened \in Nat /\ conn \in 0 .. opened /\ registered \in 0 .. opened
    /\ entering \cup accepting \cup handlers \subseteq 1 .. opened
    /\ cut \in BOOLEAN /\ ready \in BOOLEAN
    /\ pushes \subseteq [cmd : Command, attempt : Nat, socket : Nat]
    /\ wire \subseteq [type : {"call"}, socket : Nat, cmd : Command, attempt : Nat]
                     \cup [type : {"reply"}, socket : Nat, cmd : Command, result : Reply]
                     \cup [type : {"ack"}, socket : Nat, cmd : Command]
    /\ queue \in Seq([cmd : Command, attempt : Nat]) /\ Len(queue) <= QueueLimit
    /\ thread \in [Thread -> [pc : {"idle", "wait", "run", "applied", "reply"},
                              cmd : Command \cup {NoCommand}, result : Reply, attempt : Nat]]
    /\ \A t \in Thread : Busy(t) => thread[t].cmd \in Command
    /\ journal \in [Command -> {"none", "begun"} \cup Result]
    /\ acked \subseteq Command
    /\ effects \in [Command -> Nat]
    /\ faults \in Nat /\ timeouts \in Nat

\* journal.begin and execution_lock: whatever is redelivered over either
\* transport, before or after a crash, a command that may not be resumed is
\* carried out at most once.
AtMostOnce == \A k \in Command \ Resumable : effects[k] <= 1

Executing(k) == \E t \in Thread : Running(t) /\ thread[t].cmd = k

\* What the panel records is what happened: succeeded means the journal says so
\* and the operation was carried out; failed means the journal says so, or the
\* execution was cut short and can never go on.
OutcomeAgrees ==
    \A k \in Command :
        /\ row[k].status = "succeeded" => journal[k] = "ok" /\ effects[k] > 0
        /\ row[k].status = "failed" =>
            \/ journal[k] = "error"
            \/ journal[k] = "begun" /\ k \notin Resumable /\ ~Executing(k)

\* release_command_lease compares attempts: while the HTTP session holds the
\* current attempt of a command, a stale failed push does not offer it again.
HttpLeaseHonoured ==
    \A k \in Command :
        Busy("http") /\ thread["http"].cmd = k /\ thread["http"].attempt = row[k].attempts
        => row[k].status # "pending"

\* pending_results(): no result is dropped before the panel has recorded one.
NoResultLost == \A k \in acked : row[k].status \in Settled

\* unregister() compares sockets: once the live socket is registered, only a send on it that
\* times out, or the handler of an older socket that registers late, takes the registration away;
\* no handler that ends and no push that fails does.
LiveSocketRegistered == conn \in handlers /\ ~cut => registered = conn

\* The promise of RemoteCall, with rows and effects as its state.
Promise == INSTANCE RemoteCall WITH
    Call <- Command,
    acted <- {k \in Command : effects[k] > 0},
    outcome <- [k \in Command |-> IF row[k].status \in Settled THEN row[k].status ELSE "open"]
KeepsPromise == Promise!Spec

-----------------------------------------------------------------------------
\* Both event loops keep running and a lease whose delivery is gone expires.
\* Breaks, crashes, losses and timeouts are never required.
Fairness ==
    /\ \A k \in Command :
        /\ WF_vars(StartPush(k)) /\ WF_vars(LeaseExpires(k) /\ ~Outstanding(k))
        /\ WF_vars(ReportPending(k)) /\ WF_vars(HttpReportPending(k))
    /\ WF_vars(\E p \in pushes : PushSent(p) \/ PushRaises(p))
    /\ WF_vars(\E m \in wire : HandleReply(m))
    /\ WF_vars(\E m \in wire : ReceiveCall(m)) /\ WF_vars(\E m \in wire : ReceiveAck(m))
    /\ WF_vars(\E s \in entering : AnswerAuth(s)) /\ WF_vars(\E s \in accepting : Register(s))
    /\ WF_vars(\E s \in entering \cup accepting \cup handlers : HandlerEnds(s))
    /\ WF_vars(Connect) /\ WF_vars(Accepted) /\ WF_vars(WorkerTakes) /\ WF_vars(WorkerReplies) /\ WF_vars(HttpReplies)
    /\ \A t \in Thread : /\ WF_vars(Begin(t))
                         /\ WF_vars(\E r \in Result : Finish(t, r))

FairSpec == Spec /\ Fairness

\* docs/architecture.md, "Agent WebSocket RPC": queued work and expired leases are
\* dispatched to connected agents, so every command gets its result in the end.
EveryCommandSettles == \A k \in Command : <>(row[k].status \in Settled)

\* Every command gets its result in the end, or the agent stays for ever on a socket that has lost
\* its registration: all else, broken sockets, crashes, restarts, late answers and handlers, only
\* delays it (dispatch, lease expiry, the agent's fallback to HTTP).
CommandsSettle == \A k \in Command : <>(row[k].status \in Settled) \/ <>[](conn # 0 /\ cut)

\* A journalled result is repeated until it is acknowledged.
ResultsAcknowledged == \A k \in Command : journal[k] \in Result ~> k \in acked
=============================================================================
