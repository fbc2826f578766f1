---------------------------- MODULE Http01Leases ----------------------------
(***************************************************************************)
(* HTTP-01 challenge responses on a validation node                        *)
(* (certificate_remote.py on the panel, http01.py on the agent).  The panel *)
(* leases a response to the node with one command and takes it back with    *)
(* others; the node serves it until it is released or expires.  Commands    *)
(* are run at most once each, in any order and as late as one likes; the    *)
(* panel and the agent restart at any point, and a command the agent was    *)
(* running then is answered as failed (AgentDelivery).                     *)
(*                                                                         *)
(* A resumed ACME order uses its tokens again, and the file of a token has  *)
(* the same content whichever lease wrote it.                              *)
(***************************************************************************)
EXTENDS Naturals, Sequences, FiniteSets

CONSTANTS
    Profile, Token,
    Webroot,      \* the profiles validated through a webroot; the others standalone
    TTL,          \* certificate_remote: expires_at of a new lease
    Horizon,      \* http01: the longest lease a node accepts
    Keep,         \* http01: how long a released lease is remembered after its expiry
    MaxActive,    \* http01: leases a node holds at a time
    MaxLease, MaxTime, MaxFaults   \* bounds: leases, clock, restarts and failed steps

VARIABLES
    now,
    job,        \* panel: the obtain() of each profile
    leases,     \* panel: certificate_http_leases, in order of creation
    commands,   \* panel: the commands of the leases
    taken,      \* agent: commands it has begun
    checked,    \* agent: commands validated and waiting for the lock
    row,        \* agent: http01_leases
    file,       \* agent: the challenge files
    op,         \* agent: what runs under the lock
    listener,   \* agent: the standalone listener is up
    faults

panel == <<job, leases, commands>>
agent == <<taken, checked, row, file, op, listener>>
vars == <<now, panel, agent, faults>>

LeaseId == 1..MaxLease
CommandId == 1..Len(commands)
Idle == [kind |-> "none", cmd |-> 0, lease |-> 0, pc |-> "none", todo |-> {}, rel |-> 0, bad |-> FALSE]

Created(l) == l <= Len(leases)
Mode(l) == IF leases[l].profile \in Webroot THEN "webroot" ELSE "standalone"
Tokens(l) == leases[l].tokens
Expired(l) == leases[l].expires <= now

(***************************************************************************)
(* The panel.                                                              *)
(***************************************************************************)
Pending(p) == {l \in 1..Len(leases) : leases[l].profile = p /\ ~leases[l].released}

\* The ACME client of a job asks for its responses.
present(p) ==
    /\ job[p].pc = "idle"
    /\ job' = [job EXCEPT ![p] = [pc |-> "drain", lease |-> 0]]
    /\ UNCHANGED <<now, leases, commands, agent, faults>>

Drained(p) ==
    /\ job[p].pc = "drain" /\ Pending(p) = {}
    /\ job' = [job EXCEPT ![p].pc = "create"]
    /\ UNCHANGED <<now, leases, commands, agent, faults>>

\* The lease and its command are one transaction.
CreateLease(p, tokens) ==
    /\ job[p].pc = "create" /\ Len(leases) < MaxLease /\ now + TTL < MaxTime
    /\ leases' = Append(leases, [profile |-> p, tokens |-> tokens, expires |-> now + TTL,
                                 present |-> Len(commands) + 1, cleanup |-> 0,
                                 requested |-> FALSE, released |-> FALSE])
    /\ commands' = Append(commands, [method |-> "PUT", lease |-> Len(leases) + 1, status |-> "pending"])
    /\ job' = [job EXCEPT ![p] = [pc |-> "confirm", lease |-> Len(leases) + 1]]
    /\ UNCHANGED <<now, agent, faults>>

confirmed(c) == commands[c].status = "succeeded"

Presented(p) ==
    /\ job[p].pc = "confirm" /\ confirmed(leases[job[p].lease].present)
    /\ job' = [job EXCEPT ![p].pc = "validate"]
    /\ UNCHANGED <<now, leases, commands, agent, faults>>

\* Fault: only a lease whose presentation was confirmed is cleaned up.
Requested_Fault(which) ==
    [l \in DOMAIN leases |->
        IF l \in which /\ ~leases[l].released
        THEN [leases[l] EXCEPT !.requested = confirmed(leases[l].present)]
        ELSE leases[l]]

Requested(which) ==
    [l \in DOMAIN leases |->
        IF l \in which /\ ~leases[l].released THEN [leases[l] EXCEPT !.requested = TRUE] ELSE leases[l]]

\* The finally of obtain: it returned, failed, timed out or was cancelled.
obtain_ends(p) ==
    /\ job[p].pc # "idle"
    /\ leases' = Requested(Pending(p))
    /\ job' = [job EXCEPT ![p] = [pc |-> "idle", lease |-> 0]]
    /\ UNCHANGED <<now, commands, agent, faults>>

\* The panel stops; recover requests every cleanup before anything else runs.
PanelRestarts ==
    /\ faults < MaxFaults /\ faults' = faults + 1
    /\ leases' = Requested(DOMAIN leases)
    /\ job' = [p \in Profile |-> [pc |-> "idle", lease |-> 0]]
    /\ UNCHANGED <<now, commands, agent>>

drain(l) ==
    LET previous == leases[l].cleanup
        ended == previous # 0 /\ confirmed(previous) IN
    /\ Created(l) /\ leases[l].requested /\ ~leases[l].released
    /\ previous # 0 => commands[previous].status # "pending"
    /\ leases' = [leases EXCEPT ![l] = IF ended THEN [@ EXCEPT !.released = TRUE]
                                       ELSE [@ EXCEPT !.cleanup = Len(commands) + 1]]
    /\ commands' = IF ended THEN commands
                   ELSE Append(commands, [method |-> "DELETE", lease |-> l, status |-> "pending"])
    /\ UNCHANGED <<now, job, agent, faults>>

(***************************************************************************)
(* The agent, outside the lock.                                            *)
(***************************************************************************)
\* A presentation that has expired is refused before it waits for the lock.
Take(c) ==
    LET put == commands[c].method = "PUT"
        expires == leases[commands[c].lease].expires
        valid == (put => now < expires) /\ expires <= now + Horizon IN
    /\ c \notin taken /\ commands[c].status = "pending"
    /\ taken' = taken \cup {c}
    /\ checked' = IF valid THEN checked \cup {c} ELSE checked
    /\ commands' = IF valid THEN commands ELSE [commands EXCEPT ![c].status = "failed"]
    /\ UNCHANGED <<now, job, leases, row, file, op, listener, faults>>

Answer(c, status) == commands' = [commands EXCEPT ![c].status = status]

\* Everything volatile is gone; what the agent was running or held is answered as failed.
AgentRestarts ==
    /\ faults < MaxFaults /\ faults' = faults + 1
    /\ op' = Idle /\ listener' = FALSE /\ checked' = {}
    /\ commands' = [c \in CommandId |->
                       IF c \in checked \/ c = op.cmd THEN [commands[c] EXCEPT !.status = "failed"] ELSE commands[c]]
    /\ UNCHANGED <<now, job, leases, taken, row, file>>

(***************************************************************************)
(* The agent, under the lock.                                              *)
(***************************************************************************)
Held == {l \in LeaseId : row[l] \in {"preparing", "ready", "releasing"}}
Needed(r, l) == Created(l) /\ Mode(l) = "standalone" /\ r[l] \in {"preparing", "ready"} /\ ~Expired(l)
Listens(r) == listener' = (\E l \in LeaseId : Needed(r, l))

Enter(c, kind, todo) ==
    /\ op = Idle
    /\ checked' = checked \ {c}
    /\ op' = [kind |-> kind, cmd |-> c, lease |-> IF c = 0 THEN 0 ELSE commands[c].lease,
              pc |-> IF todo = {} THEN "guard" ELSE "sweep", todo |-> todo, rel |-> 0, bad |-> FALSE]
    /\ UNCHANGED <<now, panel, taken, row, file, listener, faults>>

ExpiredHeld == {l \in Held : Expired(l)}

PresentEnters(c) ==
    /\ c \in checked /\ commands[c].method = "PUT"
    /\ Enter(c, "present", ExpiredHeld)

ReleaseEnters(c) ==
    /\ c \in checked /\ commands[c].method = "DELETE"
    /\ Enter(c, "release", {commands[c].lease})

run == ExpiredHeld # {} /\ Enter(0, "run", ExpiredHeld)

\* The released leases that are old enough to forget.
Forgotten(r) ==
    [l \in LeaseId |-> IF r[l] = "released" /\ leases[l].expires + Keep < now THEN "absent" ELSE r[l]]

run_idle ==
    /\ op = Idle /\ ExpiredHeld = {}
    /\ row' = Forgotten(row) /\ Listens(row)
    /\ <<row, listener>>' # <<row, listener>>
    /\ UNCHANGED <<now, panel, taken, checked, file, op, faults>>

\* _release, first transaction: a lease that is not known is recorded as released.
\* Fault: nothing is recorded of a lease that is not known.
Tombstone_Fault(l) == IF row[l] = "absent" THEN "absent" ELSE row[l]

Tombstone(l) == IF row[l] = "absent" THEN "released" ELSE row[l]

Releasing(l) == op.pc \in {"sweep", "undo"} /\ l \in op.todo

ReleaseDone(l, bad) ==
    op' = [op EXCEPT !.todo = @ \ {l}, !.rel = 0, !.bad = @ \/ bad,
                     !.pc = IF op.pc = "sweep" /\ op.todo = {l} THEN "guard" ELSE @]

ReleaseMarks(l) ==
    /\ Releasing(l) /\ op.rel = 0
    /\ IF row[l] \in {"absent", "released"}
       THEN row' = [row EXCEPT ![l] = Tombstone(l)] /\ ReleaseDone(l, FALSE)
       ELSE row' = [row EXCEPT ![l] = "releasing"] /\ op' = [op EXCEPT !.rel = l]
    /\ UNCHANGED <<now, panel, taken, checked, file, listener, faults>>

\* The files are removed one by one, and the lease is released after the last.
ReleaseRemoves(l, t) ==
    /\ Releasing(l) /\ op.rel = l
    /\ Mode(l) = "webroot" /\ t \in Tokens(l) \cap file
    /\ file' = file \ {t}
    /\ UNCHANGED <<now, panel, taken, checked, row, op, listener, faults>>

ReleaseEnds(l) ==
    /\ Releasing(l) /\ op.rel = l
    /\ Mode(l) = "webroot" => Tokens(l) \cap file = {}
    /\ row' = [row EXCEPT ![l] = "released"] /\ ReleaseDone(l, FALSE)
    /\ UNCHANGED <<now, panel, taken, checked, file, listener, faults>>

\* A challenge file was changed outside its lease: nothing of it is removed.
ReleaseFails(l) ==
    /\ Releasing(l) /\ op.rel = l
    /\ Mode(l) = "webroot" /\ Tokens(l) \subseteq file
    /\ faults < MaxFaults /\ faults' = faults + 1
    /\ ReleaseDone(l, TRUE)
    /\ UNCHANGED <<now, panel, taken, checked, row, file, listener>>

Refuse == Answer(op.cmd, "failed") /\ op' = Idle

\* The end of release, and of a turn of run; a failure leaves the listener alone.
ReleaseAnswers ==
    /\ op.kind = "release" /\ op.pc = "guard" /\ op' = Idle
    /\ Answer(op.cmd, IF op.bad THEN "failed" ELSE "succeeded")
    /\ IF op.bad THEN UNCHANGED listener ELSE Listens(row)
    /\ UNCHANGED <<now, job, leases, taken, checked, row, file, faults>>

run_ends ==
    /\ op.kind = "run" /\ op.pc = "guard" /\ op' = Idle
    /\ row' = Forgotten(row)
    /\ IF op.bad THEN UNCHANGED listener ELSE Listens(row)
    /\ UNCHANGED <<now, panel, taken, checked, file, faults>>

MayPresent(l) ==
    /\ ~op.bad
    /\ Forgotten(row)[l] \notin {"released", "releasing"}
    /\ Cardinality(Held \ {l}) < MaxActive
    /\ \A k \in Held \ {l} : Tokens(l) \cap Tokens(k) = {}
    /\ Mode(l) = "webroot" /\ Forgotten(row)[l] = "absent" => Tokens(l) \cap file = {}

PresentRefused ==
    /\ op.kind = "present" /\ op.pc = "guard" /\ ~MayPresent(op.lease)
    /\ row' = Forgotten(row)
    /\ Refuse
    /\ UNCHANGED <<now, job, leases, taken, checked, file, listener, faults>>

PresentPrepares ==
    /\ op.kind = "present" /\ op.pc = "guard" /\ MayPresent(op.lease)
    /\ row' = [Forgotten(row) EXCEPT ![op.lease] = IF @ = "absent" THEN "preparing" ELSE @]
    /\ op' = [op EXCEPT !.pc = "write"]
    /\ UNCHANGED <<now, panel, taken, checked, file, listener, faults>>

PresentWrites(t) ==
    /\ op.pc = "write" /\ Mode(op.lease) = "webroot"
    /\ t \in Tokens(op.lease) \ file
    /\ file' = file \cup {t}
    /\ UNCHANGED <<now, panel, taken, checked, row, op, listener, faults>>

PresentReady ==
    /\ op.pc = "write" /\ (Mode(op.lease) = "webroot" => Tokens(op.lease) \subseteq file)
    /\ row' = [row EXCEPT ![op.lease] = "ready"] /\ Listens(row)
    /\ Answer(op.cmd, "succeeded") /\ op' = Idle
    /\ UNCHANGED <<now, job, leases, taken, checked, file, faults>>

\* A write or the listener failed: the lease is released again.
PresentFails ==
    /\ op.pc = "write" /\ faults < MaxFaults /\ faults' = faults + 1
    /\ op' = [op EXCEPT !.pc = "undo", !.todo = {op.lease}]
    /\ UNCHANGED <<now, panel, taken, checked, row, file, listener>>

PresentUndone ==
    /\ op.pc = "undo" /\ op.todo = {}
    /\ Refuse
    /\ IF op.bad THEN UNCHANGED listener ELSE Listens(row)
    /\ UNCHANGED <<now, job, leases, taken, checked, row, file, faults>>

\* What a request for one of the lease's tokens finds, once the listener is up.
Responds(l) ==
    IF Mode(l) = "webroot" THEN Tokens(l) \subseteq file ELSE row[l] = "ready" /\ ~Expired(l)

(***************************************************************************)
(* Time.  Nothing waits for the lock until its lease has been forgotten:    *)
(* the lock is held for one handler, and Keep is a day.                    *)
(***************************************************************************)
Tick ==
    /\ now < MaxTime
    /\ \A c \in checked \cup (IF op.kind = "present" THEN {op.cmd} ELSE {}) :
          now < leases[commands[c].lease].expires + Keep
    /\ now' = now + 1
    /\ UNCHANGED <<panel, agent, faults>>

Init ==
    /\ now = 0 /\ faults = 0
    /\ job = [p \in Profile |-> [pc |-> "idle", lease |-> 0]]
    /\ leases = <<>> /\ commands = <<>> /\ taken = {} /\ checked = {}
    /\ row = [l \in LeaseId |-> "absent"] /\ file = {} /\ op = Idle /\ listener = FALSE

Panel ==
    \/ \E p \in Profile : present(p) \/ Drained(p) \/ Presented(p) \/ obtain_ends(p)
    \/ \E p \in Profile, tokens \in (SUBSET Token) \ {{}} : CreateLease(p, tokens)
    \/ \E l \in LeaseId : drain(l)

Handler ==
    \/ \E c \in CommandId : Take(c) \/ PresentEnters(c) \/ ReleaseEnters(c)
    \/ run \/ run_idle \/ run_ends \/ ReleaseAnswers
    \/ \E l \in LeaseId : ReleaseMarks(l) \/ ReleaseEnds(l) \/ ReleaseFails(l)
    \/ \E l \in LeaseId, t \in Token : ReleaseRemoves(l, t)
    \/ PresentRefused \/ PresentPrepares \/ PresentReady \/ PresentFails \/ PresentUndone
    \/ \E t \in Token : PresentWrites(t)

Next == Panel \/ Handler \/ PanelRestarts \/ AgentRestarts \/ Tick

Spec == Init /\ [][Next]_vars

(***************************************************************************)
(* What the node promises.                                                 *)
(***************************************************************************)
\* Once the node's release of a lease has been recorded by the panel, no presentation that comes
\* late brings its responses back (_release's record of an unknown lease, present's refusals).
ReleasedStaysGone ==
    \A l \in DOMAIN leases : leases[l].released =>
        row[l] \in {"released", "absent"} /\ ~(op.lease = l /\ op.pc \in {"write", "undo"})

\* While the CA validates a lease the node confirmed, its responses are there until it expires:
\* no expiry, release or failed presentation of another lease takes them away (_release, _expire).
ValidatedIsServed ==
    \A p \in Profile : job[p].pc = "validate" /\ ~Expired(job[p].lease) =>
        row[job[p].lease] = "ready" /\ Responds(job[p].lease)

\* A challenge file on disk always belongs to a lease that will still remove it, whatever the
\* restart or failure between its lines (present's and _release's write order).
FilesOwned ==
    \A t \in file : \E l \in Held : Mode(l) = "webroot" /\ t \in Tokens(l)

\* What the panel believes of a lease holds on the node.
LeasesHonest == ReleasedStaysGone /\ ValidatedIsServed /\ FilesOwned

\* The node confirms in the end that each lease was released, whether or not the presentation
\* ever arrived, failed or was cut short (obtain's finally, request_cleanup, _drain).
CleanupConfirmed ==
    \A l \in LeaseId : Created(l) ~> (Created(l) /\ leases[l].released)

=============================================================================
