---------------------------- MODULE TrafficLedger ----------------------------
(***************************************************************************)
(* What a server and its users are charged for: the agent's telemetry       *)
(* reports, the cumulative totals, cycle baselines and daily rows of a      *)
(* server (server_traffic.py), the ledgers of the subscription users it     *)
(* serves (inventory.py), and the resets that begin a new cycle.            *)
(*                                                                         *)
(* A counter is one direction of one Xray tag, of the host's network or of  *)
(* one user; the code adds up tags and directions, which are charged        *)
(* independently.  A tag that Xray does not list counts as zero.            *)
(*                                                                         *)
(* A report is recorded in one transaction, and so is a reset.              *)
(***************************************************************************)
EXTENDS Integers, FiniteSets

CONSTANTS
    Tag,        \* counters of Xray's inbounds and outbounds
    Nic,        \* counters of the host
    User,       \* counters of subscription users in Xray
    None,
    MonthStart, \* first ticks of the months
    Day,        \* ticks of a day; one tick is five minutes
    ResetDay,   \* the values of traffic_reset_day and reset_day; 0 is never
    MaxTime, MaxMoves, MaxReports   \* bounds: clock, bytes of a counter, reports on their way

Counter == Tag \cup Nic
Source == {"xray", "system"}
SourceOf(c) == IF c \in Tag THEN "xray" ELSE "system"

ASSUME LedgerAssumption ==
    /\ Tag \cap Nic = {} /\ User \cap Counter = {} /\ None \notin Nat
    /\ MonthStart \subseteq Nat /\ 0 \in MonthStart /\ Day \in Nat \ {0}
    /\ ResetDay \subseteq Nat /\ 0 \in ResetDay
    /\ MaxTime \in Nat /\ MaxMoves \in Nat /\ MaxReports \in Nat

\* A month has a day, a day more than one tick, and the calendar goes on after the bound of the clock.
ASSUME CalendarAssumption ==
    /\ Day > 1 /\ MaxTime > 0
    /\ \A s, m \in MonthStart : s < m => s + Day <= m
    /\ \A t \in 0 .. MaxTime : \E s, m \in MonthStart : t < s /\ s < m

Report == [at : Nat, answered : BOOLEAN, count : [Counter -> Nat], user : [User -> Nat \cup {None}],
           boot : Nat, moved : [Counter \cup User -> Nat]]

VARIABLES
    now,        \* the clock; agent and panel agree on it
    stamped,    \* whether this agent's reports say when they were made
    count, user, boot,         \* the node: its counters and its boot time
    moved,      \* the bytes that really went through each counter
    net,        \* reports on their way
    total, baseline, dated,    \* server_traffic, and what its daily rows add up to
    seen, seenBoot, lastAt,    \* counters, boot and last_reported_at of server_traffic; 0 is null
    baselineAt, day, lastReset,   \* baseline_at; traffic_reset_day, last_traffic_reset_at
    ledger,     \* subscription_traffic_ledger
    userDay, userReset,        \* reset_day, last_traffic_reset_at of the user
    latest,     \* the newest telemetry snapshot
    known, mark,  \* bytes as of the last recorded report, and as of the last one before the cycle
    made, astray  \* when the newest recorded report was made; what was charged in a wrong order

node == <<count, user, boot, moved>>
rows == <<total, baseline, dated, seen, seenBoot, lastAt>>
cycle == <<baselineAt, day, lastReset>>
users == <<ledger, userDay, userReset>>
history == <<known, mark, made, astray>>
vars == <<now, stamped, node, net, rows, cycle, users, latest, history>>

(***************************************************************************)
(* The node.                                                               *)
(***************************************************************************)
Moves(c) ==
    /\ moved[c] < MaxMoves
    /\ moved' = [moved EXCEPT ![c] = @ + 1]
    /\ count' = IF c \in Counter THEN [count EXCEPT ![c] = @ + 1] ELSE count
    /\ user' = IF c \in User THEN [user EXCEPT ![c] = IF @ = None THEN 1 ELSE @ + 1] ELSE user
    /\ UNCHANGED <<now, stamped, boot, net, rows, cycle, users, latest, history>>

\* Xray starts again: its counters begin at zero, those of users when they are needed.
XrayRestarts ==
    /\ count' = [c \in Counter |-> IF c \in Tag THEN 0 ELSE count[c]]
    /\ user' = [u \in User |-> None]
    /\ UNCHANGED <<now, stamped, boot, moved, net, rows, cycle, users, latest, history>>

HostReboots ==
    /\ boot < now /\ boot' = now
    /\ count' = [c \in Counter |-> 0] /\ user' = [u \in User |-> None]
    /\ UNCHANGED <<now, stamped, moved, net, rows, cycle, users, latest, history>>

\* A network device goes, and with it the bytes it had counted.
NicVanishes(c) ==
    /\ count[c] > 0 /\ count' = [count EXCEPT ![c] = 0]
    /\ UNCHANGED <<now, stamped, boot, user, moved, net, rows, cycle, users, latest, history>>

\* stats is null when Xray does not answer.
telemetry(answered) ==
    [at |-> now, answered |-> answered, count |-> count, user |-> user, boot |-> boot, moved |-> moved]

collect_telemetry(answered) ==
    /\ now < MaxTime /\ now' = now + 1 /\ Cardinality(net) < MaxReports
    /\ net' = net \cup {telemetry(answered)}
    /\ UNCHANGED <<stamped, node, rows, cycle, users, latest, history>>

ReportLost(r) ==
    /\ net' = net \ {r}
    /\ UNCHANGED <<now, stamped, node, rows, cycle, users, latest, history>>

(***************************************************************************)
(* record_telemetry: the server's rows, the users' ledgers, the snapshot.   *)
(***************************************************************************)
\* A counter that shows less than before has begun anew.
Increase(old, value) == IF value >= old THEN value - old ELSE value

SameHost(r) == seenBoot = r.boot /\ \A c \in Nic : r.count[c] >= seen[c]

Delta(c, r) ==
    IF c \in Tag THEN Increase(seen[c], r.count[c])
    ELSE IF lastAt["system"] # 0 /\ SameHost(r) THEN r.count[c] - seen[c] ELSE 0

Recorded(source, r, at) == at > lastAt[source] /\ (source = "xray" => r.answered)

\* Fault: a report made before the reset is charged to the new cycle when it comes late.
BeforeCycle_Fault(source, at) == baselineAt # 0 /\ lastAt[source] = 0

BeforeCycle(source, at) == baselineAt # 0 /\ (at <= baselineAt \/ lastAt[source] = 0)

record(r, at) ==
    LET new(c) == Recorded(SourceOf(c), r, at)
        before(c) == BeforeCycle(SourceOf(c), at)
        dates(c) == lastAt[SourceOf(c)] # 0
    IN
    /\ total' = [c \in Counter |-> total[c] + IF new(c) THEN Delta(c, r) ELSE 0]
    /\ baseline' = [c \in Counter |-> baseline[c] + IF new(c) /\ before(c) THEN Delta(c, r) ELSE 0]
    /\ dated' = [c \in Counter |-> dated[c] + IF new(c) /\ dates(c) THEN Delta(c, r) ELSE 0]
    /\ seen' = [c \in Counter |-> IF new(c) THEN r.count[c] ELSE seen[c]]
    /\ seenBoot' = IF Recorded("system", r, at) THEN r.boot ELSE seenBoot
    /\ lastAt' = [s \in Source |-> IF Recorded(s, r, at) THEN at ELSE lastAt[s]]

\* Fault: an older report is recorded like any other.
Listed_Fault(u, r, at) == r.answered /\ r.user[u] # None

Listed(u, r, at) ==
    r.answered /\ r.user[u] # None /\ (ledger[u].kept => at > ledger[u].at)

\* The first report of a user is charged in full: Increase(0, value).
Charged(u, r, at) ==
    [kept |-> TRUE, at |-> at, last |-> r.user[u],
     total |-> ledger[u].total + Increase(ledger[u].last, r.user[u])]

RecordUsers(r, at) ==
    ledger' = [u \in User |-> IF Listed(u, r, at) THEN Charged(u, r, at) ELSE ledger[u]]

\* What the ledgers may charge for: bytes as of the reports they have recorded.
Known(r, at) ==
    /\ known' = [c \in Counter \cup User |->
           IF IF c \in User THEN Listed(c, r, at) ELSE Recorded(SourceOf(c), r, at)
           THEN r.moved[c] ELSE known[c]]
    /\ mark' = [c \in Counter \cup User |->
           IF c \in Counter /\ Recorded(SourceOf(c), r, at)
              /\ baselineAt # 0 /\ (r.at <= baselineAt \/ lastAt[SourceOf(c)] = 0)
           THEN r.moved[c] ELSE mark[c]]
    /\ made' = IF r.at > made THEN r.at ELSE made
    /\ astray' = astray \cup (IF ~stamped /\ r.at < made THEN {"total", "cycle", "user"} ELSE {})
                       \cup (IF ~stamped /\ r.at <= baselineAt THEN {"cycle"} ELSE {})

\* A report without a stamp, and the agent stamps none, is dated when it is recorded.  Any report may
\* be recorded late or again: nothing orders a request that timed out, or a message of a socket that
\* was replaced, before the reports that the agent made after it.
record_telemetry(r) ==
    LET at == IF stamped THEN r.at ELSE now IN
    /\ IF stamped THEN now' = now ELSE now < MaxTime /\ now' = now + 1
    /\ record(r, at) /\ RecordUsers(r, at) /\ Known(r, at)
    /\ latest' = IF at >= latest.at THEN [at |-> at, user |-> IF r.answered THEN r.user ELSE [u \in User |-> None]]
                 ELSE latest
    /\ net' \in {net, net \ {r}}
    /\ UNCHANGED <<stamped, node, cycle, userDay, userReset>>

(***************************************************************************)
(* The cycles of the server.                                               *)
(***************************************************************************)
First(t) == CHOOSE s \in MonthStart : s <= t /\ \A m \in MonthStart : m <= t => m <= s
NextFirst(t) == CHOOSE s \in MonthStart : s > t /\ \A m \in MonthStart : m > t => s <= m

\* Midnight of the day of the month, or of its last day.
Midnight(t, d) ==
    IF First(t) + Day * d <= NextFirst(t) THEN First(t) + Day * (d - 1) ELSE NextFirst(t) - Day

boundary(t, d) == Midnight(t, d) + 1

ResetCycle ==
    /\ baseline' = total /\ baselineAt' = now /\ lastReset' = now
    /\ mark' = [c \in Counter \cup User |-> IF c \in Counter THEN known[c] ELSE mark[c]]
    /\ astray' = astray \ {"cycle"}
    /\ UNCHANGED <<now, stamped, node, net, total, dated, seen, seenBoot, lastAt, day, users, latest, known, made>>

reset == lastReset # now /\ ResetCycle

Due(t) == day > 0 /\ t >= boundary(t, day) /\ lastReset < Midnight(t, day)

reset_due == Due(now) /\ ResetCycle

update(d) ==
    /\ d # day /\ day' = d
    /\ UNCHANGED <<now, stamped, node, net, rows, baselineAt, lastReset, users, latest, history>>

\* Fault: a reset between midnight and five past counts for the month before.
NextReset_Fault(t) ==
    IF lastReset >= boundary(t, day) THEN boundary(NextFirst(t), day) ELSE boundary(t, day)

\* next_reset_at of read.
NextReset(t) ==
    IF lastReset >= Midnight(t, day) THEN boundary(NextFirst(t), day) ELSE boundary(t, day)

(***************************************************************************)
(* The cycles of a user.                                                   *)
(***************************************************************************)
Baseline(u) ==
    IF latest.user[u] # None THEN [kept |-> TRUE, total |-> 0, last |-> latest.user[u], at |-> latest.at]
    ELSE [ledger[u] EXCEPT !.kept = TRUE, !.total = 0]

ResetUsers ==
    /\ ledger' = [u \in User |-> Baseline(u)] /\ userReset' = now
    /\ mark' = [c \in Counter \cup User |-> IF c \in User THEN known[c] ELSE mark[c]]
    /\ astray' = astray \ {"user"}
    /\ UNCHANGED <<now, stamped, node, net, rows, cycle, userDay, latest, known, made>>

reset_subscription_traffic == userReset # now /\ ResetUsers

\* The last boundary there was, in this month or the one before.
UserBoundary(t) ==
    IF t >= Midnight(t, userDay) THEN Midnight(t, userDay) ELSE Midnight(First(t) - 1, userDay)

reset_due_subscription_traffic ==
    /\ userDay > 0 /\ (now >= Midnight(now, userDay) \/ First(now) > 0)
    /\ UserBoundary(now) > 1 /\ userReset < UserBoundary(now)
    /\ ResetUsers

Tick ==
    /\ now < MaxTime /\ now' = now + 1
    /\ UNCHANGED <<stamped, node, net, rows, cycle, users, latest, history>>

Init ==
    /\ now = 1 /\ stamped \in BOOLEAN
    /\ count = [c \in Counter |-> 0] /\ user = [u \in User |-> None] /\ boot = 0
    /\ moved = [c \in Counter \cup User |-> 0] /\ net = {}
    /\ total = [c \in Counter |-> 0] /\ baseline = total /\ dated = total
    /\ seen = [c \in Counter |-> 0] /\ seenBoot = 0 /\ lastAt = [s \in Source |-> 0]
    /\ baselineAt = 0 /\ lastReset = 1
    /\ day \in ResetDay /\ userDay \in ResetDay /\ userReset = 0
    /\ ledger = [u \in User |-> [kept |-> FALSE, total |-> 0, last |-> 0, at |-> 0]]
    /\ latest = [at |-> 0, user |-> [u \in User |-> None]]
    /\ known = [c \in Counter \cup User |-> 0] /\ mark = known /\ made = 0 /\ astray = {}

Next ==
    \/ \E c \in Counter \cup User : Moves(c)
    \/ XrayRestarts \/ HostReboots \/ \E c \in Nic : NicVanishes(c)
    \/ \E answered \in BOOLEAN : collect_telemetry(answered)
    \/ \E r \in net : ReportLost(r) \/ record_telemetry(r)
    \/ reset \/ reset_due \/ \E d \in ResetDay : update(d)
    \/ reset_subscription_traffic \/ reset_due_subscription_traffic
    \/ Tick

Spec == Init /\ [][Next]_vars

(***************************************************************************)
(* What the ledgers promise.                                               *)
(***************************************************************************)
\* Every variable has its type.
TypeOK ==
    /\ now \in Nat /\ stamped \in BOOLEAN /\ boot \in Nat /\ net \subseteq Report
    /\ count \in [Counter -> Nat] /\ user \in [User -> Nat \cup {None}] /\ moved \in [Counter \cup User -> Nat]
    /\ total \in [Counter -> Nat] /\ baseline \in [Counter -> Nat] /\ dated \in [Counter -> Nat]
    /\ seen \in [Counter -> Nat] /\ seenBoot \in Nat /\ lastAt \in [Source -> Nat]
    /\ baselineAt \in Nat /\ day \in ResetDay /\ lastReset \in Nat
    /\ ledger \in [User -> [kept : BOOLEAN, total : Nat, last : Nat, at : Nat]]
    /\ userDay \in ResetDay /\ userReset \in Nat
    /\ latest \in [at : Nat, user : [User -> Nat \cup {None}]]
    /\ known \in [Counter \cup User -> Nat] /\ mark \in [Counter \cup User -> Nat]
    /\ made \in Nat /\ astray \subseteq {"total", "cycle", "user"}

\* Nobody is charged for more than was moved: restarts, reboots and reports that come late, twice
\* or not at all never count a byte again (record, _record_subscription_traffic_ledger), unless a
\* report without a stamp was recorded after one that was made later.
NeverOvercharged ==
    /\ \A c \in Counter : dated[c] <= total[c] /\ ("total" \notin astray => total[c] <= moved[c])
    /\ \A u \in User : "user" \notin astray => ledger[u].total <= moved[u]

\* A cycle of a server is charged only for what was moved after the last report made before it began,
\* and a late one of those adds to the history alone (_reset, baseline_at); unless that report had no
\* stamp, or one without a stamp was overtaken in this cycle.  A user's cycle is charged for what was
\* moved since the last report recorded before it began (_subscription_traffic_baseline).
CycleIsNew ==
    /\ "cycle" \notin astray => \A c \in Counter : total[c] - baseline[c] <= known[c] - mark[c]
    /\ "user" \notin astray => \A u \in User : ledger[u].total <= known[u] - mark[u]

\* "Duplicate and older reports do not book a second delta" (docs/server-traffic.md:40): a server is
\* charged for no more than was moved, whatever order its reports come in.
OlderBookNothing == \A c \in Counter : total[c] <= moved[c]

\* The next reset that is shown is when the worker next resets, unless somebody does it by hand:
\* in short months too, and when a reset was made on the very day (read_in_session, reset_due).
NextResetHonest ==
    day > 0 => \A t \in now .. NextReset(now) : Due(t) <=> t >= NextReset(now)
=============================================================================
