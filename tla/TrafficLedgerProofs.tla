------------------------- MODULE TrafficLedgerProofs -------------------------
(***************************************************************************)
(* Proofs about TrafficLedger for any counters, users, reports and times:   *)
(* nobody is charged for more than was moved, a cycle is charged only for   *)
(* what was moved after it began, and the next reset is when it is shown.   *)
(*                                                                         *)
(* The argument is the same for a tag, a network counter and a user.  What  *)
(* the ledger last saw of a counter stands for a report that was made when  *)
(* the bytes known so far had been moved; between two reports, or between a *)
(* report and now, a counter can only be charged for less than was moved.   *)
(***************************************************************************)
EXTENDS TrafficLedger, WellFoundedInduction, TLAPS

All == Counter \cup User

\* A counter that is not there shows zero.
Shown(value) == IF value = None THEN 0 ELSE value
Now(c) == IF c \in User THEN Shown(user[c]) ELSE count[c]
In(r, c) == IF c \in User THEN Shown(r.user[c]) ELSE r.count[c]
\* What the ledgers last saw of it, and when.
Seen(c) == IF c \in User THEN ledger[c].last ELSE seen[c]
At(c) == IF c \in User THEN ledger[c].at ELSE lastAt[SourceOf(c)]

\* A report that the ledger of this counter may yet record in the order in which reports were made.
Pending(r, c) == IF stamped THEN r.at > At(c) ELSE r.at >= made

\* Reports are made one after the other, everything recorded is older than now, and stamps keep the order.
Times ==
    /\ now >= 1
    /\ \A r \in net : 1 <= r.at /\ r.at < now
    /\ \A r, s \in net : r.at = s.at => r = s
    /\ stamped => astray = {}
    /\ \A s \in Source : lastAt[s] < now
    /\ latest.at < now /\ \A u \in User : ledger[u].at <= latest.at

\* From what the ledger saw, and from every report on its way, a counter has not grown by more than was moved.
Growth ==
    \A c \in All :
        /\ known[c] + Increase(Seen(c), Now(c)) <= moved[c]
        /\ \A r \in net : r.moved[c] + Increase(In(r, c), Now(c)) <= moved[c]

\* Nor from one report to a later one, nor from what the ledger saw to a report it may yet record.
Between ==
    \A c \in All : \A r \in net :
        /\ \A s \in net : r.at < s.at => r.moved[c] + Increase(In(r, c), In(s, c)) <= s.moved[c]
        /\ Pending(r, c) => known[c] + Increase(Seen(c), In(r, c)) <= r.moved[c]

\* What the server is charged for was known; its cycle, since the last report before it began.
ServerCharged ==
    \A c \in Counter :
        /\ dated[c] <= total[c]
        /\ "total" \notin astray => total[c] <= known[c]
        /\ "cycle" \notin astray => total[c] - baseline[c] <= known[c] - mark[c]
        /\ lastAt[SourceOf(c)] = 0 => total[c] = baseline[c]
        /\ baselineAt # 0 /\ lastAt[SourceOf(c)] <= baselineAt => total[c] = baseline[c]

\* The same for users.  A ledger that was never written is empty, and the newest snapshot, which
\* a reset takes its baseline from, agrees with the ledger.
UsersCharged ==
    \A u \in User :
        /\ "user" \notin astray => ledger[u].total <= known[u] - mark[u]
        /\ ~ledger[u].kept => ledger[u].at = 0
        /\ latest.user[u] # None =>
               ledger[u].kept /\ ledger[u].last = latest.user[u] /\ ledger[u].at = latest.at
        /\ \A r \in net : stamped /\ r.at = latest.at =>
               latest.user[u] = IF r.answered THEN r.user[u] ELSE None

LedgerInv == TypeOK /\ Times /\ Growth /\ Between /\ ServerCharged /\ UsersCharged

(***************************************************************************)
(* Types.                                                                  *)
(***************************************************************************)
NodeTyped ==
    /\ boot \in Nat /\ count \in [Counter -> Nat] /\ user \in [User -> Nat \cup {None}]
    /\ moved \in [Counter \cup User -> Nat]

RowsTyped ==
    /\ total \in [Counter -> Nat] /\ baseline \in [Counter -> Nat] /\ dated \in [Counter -> Nat]
    /\ seen \in [Counter -> Nat] /\ seenBoot \in Nat /\ lastAt \in [Source -> Nat]

LedgerType == [kept : BOOLEAN, total : Nat, last : Nat, at : Nat]
UsersTyped ==
    /\ ledger \in [User -> LedgerType]
    /\ latest \in [at : Nat, user : [User -> Nat \cup {None}]]

CycleTyped ==
    /\ baselineAt \in Nat /\ day \in ResetDay /\ lastReset \in Nat
    /\ userDay \in ResetDay /\ userReset \in Nat

HistoryTyped ==
    /\ known \in [Counter \cup User -> Nat] /\ mark \in [Counter \cup User -> Nat]
    /\ made \in Nat /\ astray \subseteq {"total", "cycle", "user"}

\* TypeOK is the conjunction of these parts.
LEMMA TypeParts ==
  TypeOK <=> /\ now \in Nat /\ stamped \in BOOLEAN /\ net \subseteq Report
             /\ NodeTyped /\ RowsTyped /\ UsersTyped /\ CycleTyped /\ HistoryTyped
  BY DEF TypeOK, NodeTyped, RowsTyped, UsersTyped, CycleTyped, HistoryTyped, LedgerType

\* A counter grows by a natural number.
LEMMA IncreaseTyped ==
  ASSUME NEW x \in Nat, NEW y \in Nat
  PROVE  Increase(x, y) \in Nat
  BY DEF Increase

\* A source is charged for at most the increase of its counters: host counters for all of it or for nothing.
LEMMA DeltaBounded ==
  ASSUME TypeOK, NEW c \in Counter, NEW r \in Report
  PROVE  Delta(c, r) \in Nat /\ Delta(c, r) <= Increase(seen[c], r.count[c])
<1>1. seen[c] \in Nat /\ r.count[c] \in Nat
  BY DEF TypeOK, Report
<1>2. CASE c \in Tag
  BY <1>1, <1>2 DEF Delta, Increase
<1>3. CASE c \notin Tag
  <2>1. c \in Nic
    BY <1>3 DEF Counter
  <2>2. SameHost(r) => r.count[c] >= seen[c]
    BY <2>1 DEF SameHost
  <2> QED BY <1>1, <1>3, <2>2 DEF Delta, Increase
<1> QED BY <1>2, <1>3

\* Recording a report keeps the types.
LEMMA RecordTyped ==
  ASSUME TypeOK, NEW r \in net, NEW at \in Nat, record(r, at), RecordUsers(r, at), Known(r, at)
  PROVE  RowsTyped' /\ ledger' \in [User -> LedgerType] /\ HistoryTyped'
<1>0. r \in Report /\ r.at \in Nat /\ \A c \in Counter \cup User : r.moved[c] \in Nat
  BY DEF TypeOK, Report
<1>1. RowsTyped'
  <2>1. \A c \in Counter : /\ Delta(c, r) \in Nat /\ r.count[c] \in Nat
                           /\ total[c] \in Nat /\ baseline[c] \in Nat /\ dated[c] \in Nat /\ seen[c] \in Nat
    BY <1>0, DeltaBounded DEF TypeOK, Report
  <2>2. total' \in [Counter -> Nat]
    BY <2>1 DEF record
  <2>3. baseline' \in [Counter -> Nat]
    BY <2>1 DEF record
  <2>4. dated' \in [Counter -> Nat]
    BY <2>1 DEF record
  <2>5. seen' \in [Counter -> Nat]
    BY <2>1 DEF record
  <2>6. seenBoot' \in Nat
    BY <1>0 DEF record, TypeOK, Report
  <2>7. lastAt' \in [Source -> Nat]
    BY DEF record, TypeOK
  <2> QED BY <2>2, <2>3, <2>4, <2>5, <2>6, <2>7 DEF RowsTyped
<1>2. ledger' \in [User -> LedgerType]
  <2>1. ASSUME NEW u \in User
        PROVE  (IF Listed(u, r, at) THEN Charged(u, r, at) ELSE ledger[u]) \in LedgerType
    <3>1. ledger[u] \in LedgerType
      BY DEF TypeOK, LedgerType
    <3>2. CASE Listed(u, r, at)
      <4>1. r.user[u] \in Nat
        BY <1>0, <3>2 DEF Listed, Report
      <4>2. ledger[u].total + Increase(ledger[u].last, r.user[u]) \in Nat
        <5>1. ledger[u].total \in Nat /\ ledger[u].last \in Nat
          BY <3>1 DEF LedgerType
        <5>2. Increase(ledger[u].last, r.user[u]) \in Nat
          BY <4>1, <5>1, IncreaseTyped
        <5> QED BY <5>1, <5>2
      <4>3. Charged(u, r, at) \in LedgerType
        BY <4>1, <4>2 DEF Charged, LedgerType
      <4> QED BY <3>2, <4>3
    <3> QED BY <3>1, <3>2
  <2> QED BY <2>1 DEF RecordUsers
<1>3. HistoryTyped'
  <2>1. \A c \in Counter \cup User : known[c] \in Nat /\ mark[c] \in Nat
    BY DEF TypeOK
  <2>2. known' \in [Counter \cup User -> Nat]
    BY <1>0, <2>1 DEF Known
  <2>3. mark' \in [Counter \cup User -> Nat]
    BY <1>0, <2>1 DEF Known
  <2>4. made' \in Nat
    BY <1>0 DEF Known, TypeOK
  <2>5. astray' \subseteq {"total", "cycle", "user"}
    BY DEF Known, TypeOK
  <2> QED BY <2>2, <2>3, <2>4, <2>5 DEF HistoryTyped
<1> QED BY <1>1, <1>2, <1>3

\* The baseline a reset gives a user's ledger.
LEMMA BaselineTyped ==
  ASSUME TypeOK, NEW u \in User
  PROVE  Baseline(u) \in LedgerType
<1>1. ledger[u] \in LedgerType
  BY DEF TypeOK, LedgerType
<1>2. latest.at \in Nat /\ latest.user[u] \in Nat \cup {None}
  BY DEF TypeOK
<1> QED BY <1>1, <1>2 DEF Baseline, LedgerType

\* Every step keeps the types.
LEMMA TypeStep == TypeOK /\ [Next]_vars => TypeOK'
<1> SUFFICES ASSUME TypeOK, [Next]_vars PROVE TypeOK'
  OBVIOUS
<1>0. /\ now \in Nat /\ stamped \in BOOLEAN /\ net \subseteq Report
      /\ NodeTyped /\ RowsTyped /\ UsersTyped /\ CycleTyped /\ HistoryTyped
  BY TypeParts
<1>a. /\ UNCHANGED node => NodeTyped' 
      /\ UNCHANGED rows => RowsTyped'
      /\ UNCHANGED <<cycle, userDay, userReset>> => CycleTyped'
      /\ UNCHANGED <<ledger, latest>> => UsersTyped'
      /\ UNCHANGED history => HistoryTyped'
  BY <1>0 DEF NodeTyped, RowsTyped, CycleTyped, UsersTyped, HistoryTyped, node, rows, cycle, history
<1>b. now' \in Nat /\ stamped' = stamped /\ net' \subseteq Report
      /\ NodeTyped' /\ RowsTyped' /\ UsersTyped' /\ CycleTyped' /\ HistoryTyped' => TypeOK'
  <2>1. stamped' = stamped => stamped' \in BOOLEAN
    BY <1>0
  <2> QED BY <2>1 DEF TypeOK, NodeTyped, RowsTyped, UsersTyped, CycleTyped, HistoryTyped, LedgerType
<1> USE LedgerAssumption
<1>1. ASSUME NEW c \in Counter \cup User, Moves(c) PROVE TypeOK'
  <2>1. moved' \in [Counter \cup User -> Nat] /\ boot' \in Nat
    BY <1>0, <1>1 DEF Moves, NodeTyped
  <2>2. count' \in [Counter -> Nat]
    BY <1>0, <1>1 DEF Moves, NodeTyped
  <2>3. user' \in [User -> Nat \cup {None}]
    BY <1>0, <1>1 DEF Moves, NodeTyped
  <2> QED BY <1>0, <1>a, <1>b, <1>1, <2>1, <2>2, <2>3 DEF Moves, NodeTyped, users
<1>2. ASSUME XrayRestarts PROVE TypeOK'
  <2>1. NodeTyped'
    BY <1>0, <1>2 DEF XrayRestarts, NodeTyped
  <2> QED BY <1>0, <1>a, <1>b, <1>2, <2>1 DEF XrayRestarts, users
<1>3. ASSUME HostReboots PROVE TypeOK'
  <2>1. NodeTyped'
    BY <1>0, <1>3 DEF HostReboots, NodeTyped
  <2> QED BY <1>0, <1>a, <1>b, <1>3, <2>1 DEF HostReboots, users
<1>4. ASSUME NEW c \in Nic, NicVanishes(c) PROVE TypeOK'
  <2>1. NodeTyped'
    BY <1>0, <1>4 DEF NicVanishes, NodeTyped
  <2> QED BY <1>0, <1>a, <1>b, <1>4, <2>1 DEF NicVanishes, users
<1>5. ASSUME NEW answered \in BOOLEAN, collect_telemetry(answered) PROVE TypeOK'
  <2>1. telemetry(answered) \in Report
    BY <1>0 DEF telemetry, Report, NodeTyped
  <2>2. net' \subseteq Report /\ now' \in Nat
    BY <1>0, <1>5, <2>1 DEF collect_telemetry
  <2> QED BY <1>0, <1>a, <1>b, <1>5, <2>2 DEF collect_telemetry, users
<1>6. ASSUME NEW r \in net, ReportLost(r) PROVE TypeOK'
  BY <1>0, <1>a, <1>b, <1>6 DEF ReportLost, users
<1>7. ASSUME NEW r \in net, record_telemetry(r) PROVE TypeOK'
  <2> DEFINE at == IF stamped THEN r.at ELSE now
             newest == IF r.answered THEN r.user ELSE [u \in User |-> None]
  <2>1. at \in Nat /\ r \in Report
    BY <1>0 DEF Report
  <2>2. /\ record(r, at) /\ RecordUsers(r, at) /\ Known(r, at)
        /\ latest' = IF at >= latest.at THEN [at |-> at, user |-> newest] ELSE latest
        /\ UNCHANGED <<stamped, node, cycle, userDay, userReset>>
    BY <1>7 DEF record_telemetry
  <2>3. now' \in Nat
    BY <1>0, <1>7 DEF record_telemetry
  <2>4. net' \subseteq Report
    BY <1>0, <1>7 DEF record_telemetry
  <2> HIDE DEF at
  <2>5. RowsTyped' /\ ledger' \in [User -> LedgerType] /\ HistoryTyped'
    BY <2>1, <2>2, RecordTyped
  <2>6. newest \in [User -> Nat \cup {None}]
    BY <2>1 DEF Report
  <2> HIDE DEF newest
  <2>7. latest' \in [at : Nat, user : [User -> Nat \cup {None}]]
    BY <1>0, <2>1, <2>2, <2>6 DEF UsersTyped
  <2> QED BY <1>a, <1>b, <2>2, <2>3, <2>4, <2>5, <2>7 DEF UsersTyped
<1>8. ASSUME ResetCycle PROVE TypeOK'
  <2>1. RowsTyped' /\ CycleTyped' /\ HistoryTyped'
    BY <1>0, <1>8 DEF ResetCycle, RowsTyped, CycleTyped, HistoryTyped, users
  <2> QED BY <1>0, <1>a, <1>b, <1>8, <2>1 DEF ResetCycle, users
<1>9. ASSUME NEW d \in ResetDay, update(d) PROVE TypeOK'
  <2>1. CycleTyped'
    BY <1>0, <1>9 DEF update, CycleTyped, users
  <2> QED BY <1>0, <1>a, <1>b, <1>9, <2>1 DEF update, users
<1>10. ASSUME ResetUsers PROVE TypeOK'
  <2>1. ledger' \in [User -> LedgerType]
    BY <1>10, BaselineTyped DEF ResetUsers
  <2>2. UsersTyped' /\ CycleTyped' /\ HistoryTyped'
    BY <1>0, <1>10, <2>1 DEF ResetUsers, UsersTyped, CycleTyped, HistoryTyped, cycle
  <2> QED BY <1>0, <1>a, <1>b, <1>10, <2>2 DEF ResetUsers
<1>11. ASSUME Tick PROVE TypeOK'
  BY <1>0, <1>a, <1>b, <1>11 DEF Tick, users
<1>12. CASE UNCHANGED vars
  BY <1>0, <1>a, <1>b, <1>12 DEF vars, users
<1> QED BY <1>1, <1>2, <1>3, <1>4, <1>5, <1>6, <1>7, <1>8, <1>9, <1>10, <1>11, <1>12
         DEF Next, reset, reset_due, reset_subscription_traffic, reset_due_subscription_traffic

(***************************************************************************)
(* Charges.                                                                *)
(***************************************************************************)
\* What the invariant compares are natural numbers.
LEMMA ValuesTyped ==
  ASSUME TypeOK
  PROVE  /\ \A c \in All : /\ Now(c) \in Nat /\ Seen(c) \in Nat /\ At(c) \in Nat
                           /\ known[c] \in Nat /\ mark[c] \in Nat /\ moved[c] \in Nat
         /\ \A r \in net : r.at \in Nat /\ \A c \in All : In(r, c) \in Nat /\ r.moved[c] \in Nat
         /\ \A c \in Counter : /\ SourceOf(c) \in Source /\ c \notin User
                               /\ total[c] \in Nat /\ baseline[c] \in Nat /\ dated[c] \in Nat
<1>1. \A c \in Counter : SourceOf(c) \in Source /\ c \notin User
  BY LedgerAssumption DEF SourceOf, Source
<1>2. ASSUME NEW c \in All
      PROVE  Now(c) \in Nat /\ Seen(c) \in Nat /\ At(c) \in Nat
  <2>1. CASE c \in User
    BY <2>1 DEF TypeOK, Now, Shown, Seen, At
  <2>2. CASE c \notin User
    BY <1>1, <2>2 DEF TypeOK, Now, Seen, At, All
  <2> QED BY <2>1, <2>2
<1>3. ASSUME NEW r \in net
      PROVE  r.at \in Nat /\ \A c \in All : In(r, c) \in Nat /\ r.moved[c] \in Nat
  BY <1>3 DEF TypeOK, Report, In, Shown, All
<1>4. \A c \in All : known[c] \in Nat /\ mark[c] \in Nat /\ moved[c] \in Nat
  BY DEF TypeOK, All
<1>5. \A c \in Counter : total[c] \in Nat /\ baseline[c] \in Nat /\ dated[c] \in Nat
  BY DEF TypeOK
<1> QED BY <1>1, <1>2, <1>3, <1>4, <1>5

\* How Increase follows a counter that grows or begins anew.
LEMMA IncreaseFollows ==
  ASSUME NEW x \in Nat, NEW y \in Nat, NEW d \in Nat
  PROVE  /\ Increase(x, y + d) <= Increase(x, y) + d
         /\ Increase(x, 0) = 0 /\ Increase(x, x) = 0
  BY DEF Increase

\* The node: a counter grows by what was moved, or begins anew.
LEMMA NodeKeepsInv ==
  ASSUME LedgerInv, TypeOK', UNCHANGED <<now, stamped, net, rows, cycle, users, latest, known, mark, made, astray>>,
         \A c \in All : \/ Now(c)' = Now(c) /\ moved'[c] = moved[c]
                        \/ Now(c)' = Now(c) + 1 /\ moved'[c] = moved[c] + 1
                        \/ Now(c)' = 0 /\ moved'[c] = moved[c]
  PROVE  LedgerInv'
<1> USE DEF rows, cycle, users
<1>1. \A c \in All : Seen(c)' = Seen(c) /\ At(c)' = At(c)
  BY DEF Seen, At
<1>2. Times' /\ ServerCharged' /\ UsersCharged'
  <2>1. Times'
    BY DEF LedgerInv, Times
  <2>2. ServerCharged'
    BY DEF LedgerInv, ServerCharged
  <2>3. UsersCharged'
    BY DEF LedgerInv, UsersCharged
  <2> QED BY <2>1, <2>2, <2>3
<1>3. Growth'
  <2>1. ASSUME NEW c \in All, NEW x \in Nat, NEW m \in Nat, m + Increase(x, Now(c)) <= moved[c]
        PROVE  m + Increase(x, Now(c)') <= moved'[c]
    <3>1. Now(c) \in Nat /\ moved[c] \in Nat
      BY ValuesTyped DEF LedgerInv
    <3>2. Increase(x, Now(c)) \in Nat /\ Increase(x, Now(c) + 1) <= Increase(x, Now(c)) + 1 /\ Increase(x, 0) = 0
      <4>1. 1 \in Nat
        OBVIOUS
      <4> QED BY <3>1, <4>1, IncreaseTyped, IncreaseFollows
    <3>3. Increase(x, Now(c) + 1) \in Nat
      <4>1. Now(c) + 1 \in Nat
        BY <3>1
      <4> QED BY <4>1, IncreaseTyped
    <3>4. CASE Now(c)' = Now(c) /\ moved'[c] = moved[c]
      BY <2>1, <3>4
    <3>5. CASE Now(c)' = Now(c) + 1 /\ moved'[c] = moved[c] + 1
      <4>1. Increase(x, Now(c)') = Increase(x, Now(c) + 1)
        BY <3>5
      <4> QED BY <2>1, <3>1, <3>2, <3>3, <3>5, <4>1
    <3>6. CASE Now(c)' = 0 /\ moved'[c] = moved[c]
      BY <2>1, <3>1, <3>2, <3>6
    <3> QED BY <3>4, <3>5, <3>6
  <2>2. \A c \in All : known[c] + Increase(Seen(c), Now(c)') <= moved'[c]
    BY <2>1, ValuesTyped DEF LedgerInv, Growth
  <2>3. \A c \in All : \A r \in net : r.moved[c] + Increase(In(r, c), Now(c)') <= moved'[c]
    BY <2>1, ValuesTyped DEF LedgerInv, Growth
  <2> QED BY <1>1, <2>2, <2>3 DEF Growth, In, Shown
<1>4. Between'
  BY <1>1 DEF LedgerInv, Between, Pending, In, Shown
<1> QED BY <1>2, <1>3, <1>4 DEF LedgerInv

\* A new report shows the node as it is.
LEMMA CollectKeepsInv ==
  ASSUME LedgerInv, TypeOK', NEW answered \in BOOLEAN, collect_telemetry(answered)
  PROVE  LedgerInv'
<1> DEFINE n == telemetry(answered)
<1>1. /\ net' = net \cup {n} /\ now' = now + 1 /\ now \in Nat
      /\ UNCHANGED <<stamped, node, rows, cycle, users, latest, known, mark, made, astray>>
  BY DEF collect_telemetry, history, LedgerInv, TypeOK
<1>2. n.at = now /\ n.moved = moved /\ n.count = count /\ n.user = user
  BY DEF telemetry
<1>3. \A c \in All : In(n, c) = Now(c)
  BY <1>2 DEF In, Now
<1> HIDE DEF n
<1>4. \A c \in All : Seen(c)' = Seen(c) /\ At(c)' = At(c) /\ Now(c)' = Now(c)
  BY <1>1 DEF Seen, At, Now, Shown, rows, users, node
<1>5. Times'
  BY <1>1, <1>2, ValuesTyped DEF LedgerInv, TypeOK, Times, rows, users
<1>6. Growth'
  <2>1. \A c \in All : moved[c] + Increase(Now(c), Now(c)) <= moved[c]
    BY ValuesTyped, IncreaseFollows DEF LedgerInv
  <2> QED BY <1>1, <1>2, <1>3, <1>4, <2>1 DEF LedgerInv, Growth, node, In, Shown
<1>7. Between'
  <2>1. ASSUME NEW c \in All, NEW r \in net', NEW s \in net', r.at < s.at
        PROVE  r.moved[c] + Increase(In(r, c), In(s, c)) <= s.moved[c]
    <3>1. r \in net
      BY <1>1, <1>2, <2>1, ValuesTyped DEF LedgerInv, Times
    <3>2. CASE s \in net
      BY <2>1, <3>1, <3>2 DEF LedgerInv, Between
    <3>3. CASE s = n
      BY <1>2, <1>3, <3>1, <3>3 DEF LedgerInv, Growth
    <3> QED BY <1>1, <3>2, <3>3
  <2>2. ASSUME NEW c \in All, NEW r \in net', Pending(r, c)
        PROVE  known[c] + Increase(Seen(c), In(r, c)) <= r.moved[c]
    <3>1. CASE r \in net
      BY <2>2, <3>1 DEF LedgerInv, Between
    <3>2. CASE r = n
      BY <1>2, <1>3, <3>2 DEF LedgerInv, Growth
    <3> QED BY <1>1, <3>1, <3>2
  <2> QED BY <1>1, <1>4, <2>1, <2>2 DEF Between, Pending, In, Shown
<1>8. ServerCharged'
  BY <1>1 DEF LedgerInv, ServerCharged, rows, cycle
<1>9. UsersCharged'
  <2>1. n.at # latest.at
    BY <1>1, <1>2 DEF LedgerInv, Times, TypeOK
  <2> QED BY <1>1, <2>1 DEF LedgerInv, UsersCharged, users
<1> QED BY <1>5, <1>6, <1>7, <1>8, <1>9 DEF LedgerInv

\* A report that is recorded is what the ledgers have seen last, and what they charge is at most what was
\* moved since; one that is not leaves them alone.
New(c, r, at) == IF c \in User THEN Listed(c, r, at) ELSE Recorded(SourceOf(c), r, at)

\* What recording a report makes of the counters the ledgers have seen.
LEMMA RecordSeen ==
  ASSUME LedgerInv, NEW r \in net, NEW at \in Nat, at >= 1, at = IF stamped THEN r.at ELSE now,
         record(r, at), RecordUsers(r, at), Known(r, at), NEW c \in All
  PROVE  IF New(c, r, at)
         THEN /\ Seen(c)' = In(r, c) /\ At(c)' = at /\ known'[c] = r.moved[c]
              /\ at > At(c)
         ELSE Seen(c)' = Seen(c) /\ At(c)' = At(c) /\ known'[c] = known[c]
<1>1. CASE c \in User
  <2>1. ledger'[c] = IF Listed(c, r, at) THEN Charged(c, r, at) ELSE ledger[c]
    BY <1>1 DEF RecordUsers
  <2>2. known'[c] = IF Listed(c, r, at) THEN r.moved[c] ELSE known[c]
    BY <1>1 DEF Known
  <2>3. CASE Listed(c, r, at)
    <3>1. Seen(c)' = In(r, c) /\ At(c)' = at
      BY <1>1, <2>1, <2>3 DEF Seen, At, In, Shown, Charged, Listed
    <3>2. at > At(c)
      <4>1. CASE ledger[c].kept
        BY <1>1, <2>3, <4>1 DEF Listed, At
      <4>2. CASE ~ledger[c].kept
        BY <1>1, <4>2 DEF At, LedgerInv, UsersCharged
      <4> QED BY <4>1, <4>2
    <3> QED BY <1>1, <2>2, <2>3, <3>1, <3>2 DEF New
  <2>4. CASE ~Listed(c, r, at)
    BY <1>1, <2>1, <2>2, <2>4 DEF New, Seen, At
  <2> QED BY <2>3, <2>4
<1>2. CASE c \notin User
  <2> DEFINE s == SourceOf(c)
  <2>1. c \in Counter /\ s \in Source
    BY <1>2, ValuesTyped DEF All, LedgerInv
  <2>2. /\ seen'[c] = (IF Recorded(s, r, at) THEN r.count[c] ELSE seen[c])
        /\ lastAt'[s] = (IF Recorded(s, r, at) THEN at ELSE lastAt[s])
    BY <2>1 DEF record
  <2>3. known'[c] = IF Recorded(s, r, at) THEN r.moved[c] ELSE known[c]
    BY <1>2, <2>1 DEF Known
  <2>4. Recorded(s, r, at) => at > lastAt[s]
    BY DEF Recorded
  <2> QED BY <1>2, <2>2, <2>3, <2>4 DEF New, Seen, At, In
<1> QED BY <1>1, <1>2

\* Recording a report keeps the order of times.
LEMMA RecordKeepsTimes ==
  ASSUME LedgerInv, NEW r \in net, record_telemetry(r)
  PROVE  Times'
<1> DEFINE at == IF stamped THEN r.at ELSE now
<1>1. /\ at \in Nat /\ at >= 1 /\ at < now' /\ now' \in Nat /\ now <= now' /\ now \in Nat
      /\ net' \subseteq net
  BY ValuesTyped DEF LedgerInv, Times, TypeOK, record_telemetry
<1>2. /\ record(r, at) /\ RecordUsers(r, at)
      /\ latest' = IF at >= latest.at THEN [at |-> at, user |-> IF r.answered THEN r.user ELSE [u \in User |-> None]]
                   ELSE latest
  BY DEF record_telemetry
<1> HIDE DEF at
<1>3. latest.at \in Nat /\ \A u \in User : ledger[u].at \in Nat
  BY DEF LedgerInv, TypeOK
<1>4. latest'.at = IF at >= latest.at THEN at ELSE latest.at
  BY <1>2
<1>5. \A s \in Source : lastAt'[s] < now'
  BY <1>1, <1>2 DEF record, LedgerInv, Times, TypeOK
<1>6. \A u \in User : ledger'[u].at = at \/ ledger'[u].at = ledger[u].at
  BY <1>2 DEF RecordUsers, Charged
<1>7. latest'.at < now' /\ \A u \in User : ledger'[u].at <= latest'.at
  BY <1>1, <1>3, <1>4, <1>6 DEF LedgerInv, Times
<1>8. \A s \in net' : 1 <= s.at /\ s.at < now'
  BY <1>1, ValuesTyped DEF LedgerInv, Times
<1>9. stamped' => astray' = {}
  BY DEF record_telemetry, Known, LedgerInv, Times
<1> QED BY <1>1, <1>5, <1>7, <1>8, <1>9 DEF LedgerInv, Times

\* Recording a report keeps the growth of counters bounded by what was moved.
LEMMA RecordKeepsGrowth ==
  ASSUME LedgerInv, NEW r \in net, record_telemetry(r)
  PROVE  Growth' /\ Between'
<1> DEFINE at == IF stamped THEN r.at ELSE now
<1>1. /\ at \in Nat /\ at >= 1 /\ net' \subseteq net
      /\ record(r, at) /\ RecordUsers(r, at) /\ Known(r, at)
      /\ UNCHANGED <<stamped, node>>
  BY ValuesTyped DEF LedgerInv, Times, TypeOK, record_telemetry
<1>2. ASSUME NEW c \in All
      PROVE  IF New(c, r, at)
             THEN Seen(c)' = In(r, c) /\ At(c)' = at /\ known'[c] = r.moved[c]
             ELSE Seen(c)' = Seen(c) /\ At(c)' = At(c) /\ known'[c] = known[c]
  BY <1>1, RecordSeen
<1>3. \A c \in All : Now(c)' = Now(c)
  BY <1>1 DEF Now, Shown, node
<1>4. Growth'
  <2>1. \A c \in All : known'[c] + Increase(Seen(c)', Now(c)) <= moved[c]
    BY <1>2 DEF LedgerInv, Growth
  <2> QED BY <1>1, <1>3, <2>1 DEF LedgerInv, Growth, node, In, Shown
<1>5. ASSUME NEW s \in net', NEW c \in All, Pending(s, c)', New(c, r, at)
      PROVE  s = r \/ r.at < s.at
  <2>1. s \in net /\ s.at \in Nat /\ r.at \in Nat /\ made \in Nat
    BY <1>1, <1>5, ValuesTyped DEF LedgerInv, TypeOK
  <2>2. CASE stamped
    BY <1>1, <1>2, <1>5, <2>1, <2>2 DEF Pending
  <2>3. CASE ~stamped
    <3>1. s.at >= made' /\ made' >= r.at
      BY <1>1, <1>5, <2>1, <2>3 DEF Pending, Known
    <3>2. made' \in Nat
      BY <1>1, <2>1 DEF Known
    <3>3. s.at = r.at \/ r.at < s.at
      BY <2>1, <3>1, <3>2
    <3> QED BY <2>1, <3>3 DEF LedgerInv, Times
  <2> QED BY <2>2, <2>3
<1>6. Between'
  <2>1. ASSUME NEW c \in All, NEW s \in net', NEW t \in net', s.at < t.at
        PROVE  s.moved[c] + Increase(In(s, c), In(t, c)) <= t.moved[c]
    BY <1>1, <2>1 DEF LedgerInv, Between
  <2>2. ASSUME NEW c \in All, NEW s \in net', Pending(s, c)'
        PROVE  known'[c] + Increase(Seen(c)', In(s, c)) <= s.moved[c]
    <3>1. CASE New(c, r, at)
      <4>1. s \in net /\ Seen(c)' = In(r, c) /\ known'[c] = r.moved[c]
        BY <1>1, <1>2, <3>1
      <4>2. CASE s = r
        <5>1. In(r, c) \in Nat /\ r.moved[c] \in Nat
          BY ValuesTyped DEF LedgerInv
        <5>2. Increase(In(r, c), In(r, c)) = 0
          BY <5>1, IncreaseFollows
        <5> QED BY <4>1, <4>2, <5>1, <5>2
      <4>3. CASE r.at < s.at
        BY <4>1, <4>3 DEF LedgerInv, Between
      <4> QED BY <1>5, <2>2, <3>1, <4>2, <4>3
    <3>2. CASE ~New(c, r, at)
      <4>1. Pending(s, c)
        <5>1. stamped' = stamped /\ At(c)' = At(c)
          BY <1>1, <1>2, <3>2
        <5>2. s.at \in Nat /\ r.at \in Nat /\ made \in Nat
          BY <1>1, ValuesTyped DEF LedgerInv, TypeOK
        <5>3. made' \in Nat /\ made' >= made
          BY <1>1, <5>2 DEF Known
        <5> QED BY <2>2, <5>1, <5>2, <5>3 DEF Pending
      <4> QED BY <1>1, <1>2, <3>2, <4>1 DEF LedgerInv, Between
    <3> QED BY <3>1, <3>2
  <2> QED BY <2>1, <2>2 DEF Between, In, Shown
<1> QED BY <1>4, <1>6

\* Recording a report charges the server's counters for no more than was moved since the last one, and
\* the cycle for nothing if the report is from before it.
LEMMA RecordKeepsServer ==
  ASSUME LedgerInv, NEW r \in net, record_telemetry(r)
  PROVE  ServerCharged'
<1> DEFINE at == IF stamped THEN r.at ELSE now
<1>1. /\ at \in Nat /\ at >= 1 /\ r \in Report
      /\ record(r, at) /\ RecordUsers(r, at) /\ Known(r, at) /\ baselineAt' = baselineAt /\ baselineAt \in Nat
  BY ValuesTyped DEF LedgerInv, Times, TypeOK, record_telemetry, cycle
<1> HIDE DEF at
<1>2. SUFFICES ASSUME NEW c \in Counter
      PROVE  /\ dated'[c] <= total'[c]
             /\ "total" \notin astray' => total'[c] <= known'[c]
             /\ "cycle" \notin astray' => total'[c] - baseline'[c] <= known'[c] - mark'[c]
             /\ lastAt'[SourceOf(c)] = 0 => total'[c] = baseline'[c]
             /\ baselineAt # 0 /\ lastAt'[SourceOf(c)] <= baselineAt => total'[c] = baseline'[c]
  BY <1>1 DEF ServerCharged
<1> DEFINE src == SourceOf(c)
           d == Delta(c, r)
           before == BeforeCycle(src, at)
<1>3. /\ c \in All /\ c \notin User /\ src \in Source /\ total[c] \in Nat /\ baseline[c] \in Nat /\ dated[c] \in Nat
      /\ known[c] \in Nat /\ mark[c] \in Nat /\ r.moved[c] \in Nat /\ lastAt[src] \in Nat
  BY ValuesTyped DEF All, LedgerInv, TypeOK
<1>4. d \in Nat /\ d <= Increase(seen[c], r.count[c])
  BY <1>1, DeltaBounded DEF LedgerInv
<1>5. /\ dated[c] <= total[c]
      /\ "total" \notin astray => total[c] <= known[c]
      /\ "cycle" \notin astray => total[c] - baseline[c] <= known[c] - mark[c]
      /\ lastAt[src] = 0 => total[c] = baseline[c]
      /\ baselineAt # 0 /\ lastAt[src] <= baselineAt => total[c] = baseline[c]
  BY DEF LedgerInv, ServerCharged
<1>6. CASE Recorded(src, r, at)
  <2>1. /\ total'[c] = total[c] + d
        /\ baseline'[c] = baseline[c] + (IF before THEN d ELSE 0)
        /\ dated'[c] = dated[c] + (IF lastAt[src] # 0 THEN d ELSE 0)
        /\ lastAt'[src] = at
    BY <1>1, <1>3, <1>6 DEF record
  <2> DEFINE marks == baselineAt # 0 /\ (r.at <= baselineAt \/ lastAt[src] = 0)
  <2>2. known'[c] = r.moved[c] /\ mark'[c] = IF marks THEN r.moved[c] ELSE mark[c]
    BY <1>1, <1>3, <1>6 DEF Known, All
  <2>8. /\ ~stamped /\ r.at < made => {"total", "cycle"} \subseteq astray'
        /\ ~stamped /\ r.at <= baselineAt => "cycle" \in astray'
        /\ astray \subseteq astray'
    BY <1>1 DEF Known
  <2>9. r.at \in Nat /\ made \in Nat /\ (stamped => at = r.at)
    BY <1>1 DEF LedgerInv, TypeOK, Report, at
  <2>3. ASSUME "total" \notin astray' \/ "cycle" \notin astray'
        PROVE  known[c] + d <= r.moved[c]
    <3>1. Pending(r, c)
      <4>1. stamped => at > At(c)
        BY <1>1, <1>3, <1>6 DEF Recorded, At
      <4> QED BY <2>3, <2>8, <2>9, <4>1 DEF Pending
    <3>2. known[c] + Increase(seen[c], r.count[c]) <= r.moved[c]
      BY <1>3, <3>1 DEF LedgerInv, Between, Seen, In
    <3>3. Increase(seen[c], r.count[c]) \in Nat
      BY <1>1, IncreaseTyped DEF LedgerInv, TypeOK, Report
    <3> HIDE DEF d
    <3> QED BY <1>3, <1>4, <3>2, <3>3
  <2>4. at > lastAt[src]
    BY <1>6 DEF Recorded
  <2>5. before <=> baselineAt # 0 /\ (at <= baselineAt \/ lastAt[src] = 0)
    BY DEF BeforeCycle
  <2> HIDE DEF d, before, marks
  <2>10. "total" \notin astray' => total'[c] <= known'[c]
    BY <1>3, <1>4, <1>5, <2>1, <2>2, <2>3, <2>8
  <2>11. dated'[c] <= total'[c]
    BY <1>3, <1>4, <1>5, <2>1
  <2>12. before => total[c] = baseline[c]
    BY <1>1, <1>3, <1>5, <2>4, <2>5
  <2>13. before => total'[c] = baseline'[c]
    BY <1>3, <1>4, <2>1, <2>12
  <2>14. baselineAt # 0 /\ at <= baselineAt => before
    BY <2>5
  <2>15. "cycle" \notin astray' => total'[c] - baseline'[c] <= known'[c] - mark'[c]
    <3> SUFFICES ASSUME "cycle" \notin astray'
                 PROVE  total'[c] - baseline'[c] <= known'[c] - mark'[c]
      OBVIOUS
    <3>1. known[c] + d <= r.moved[c] /\ total[c] - baseline[c] <= known[c] - mark[c]
      BY <1>5, <2>3, <2>8
    <3>2. marks => before
      BY <2>5, <2>8, <2>9 DEF marks
    <3>3. CASE marks
      BY <1>3, <1>4, <2>1, <2>2, <2>13, <3>2, <3>3
    <3>4. CASE ~marks /\ before
      BY <1>3, <1>4, <2>1, <2>2, <3>1, <3>4
    <3>5. CASE ~marks /\ ~before
      BY <1>3, <1>4, <2>1, <2>2, <3>1, <3>5
    <3> QED BY <3>3, <3>4, <3>5
  <2> QED BY <1>1, <2>1, <2>4, <2>10, <2>11, <2>13, <2>14, <2>15
<1>7. CASE ~Recorded(src, r, at)
  <2>1. /\ total'[c] = total[c] /\ baseline'[c] = baseline[c] /\ dated'[c] = dated[c]
        /\ lastAt'[src] = lastAt[src]
    BY <1>1, <1>3, <1>7 DEF record
  <2>2. known'[c] = known[c] /\ mark'[c] = mark[c]
    BY <1>1, <1>3, <1>7 DEF Known, All
  <2>3. astray \subseteq astray'
    BY <1>1 DEF Known
  <2> QED BY <1>5, <2>1, <2>2, <2>3
<1> QED BY <1>6, <1>7

\* Recording a report charges a user for no more than was moved since the ledger was last written.
LEMMA RecordKeepsUsers ==
  ASSUME LedgerInv, NEW r \in net, record_telemetry(r)
  PROVE  UsersCharged'
<1> DEFINE at == IF stamped THEN r.at ELSE now
<1>1. /\ at \in Nat /\ at >= 1 /\ r \in Report /\ net' \subseteq net /\ now \in Nat
      /\ record(r, at) /\ RecordUsers(r, at) /\ Known(r, at) /\ stamped' = stamped
  BY ValuesTyped DEF LedgerInv, Times, TypeOK, record_telemetry
<1>2. latest' = IF at >= latest.at THEN [at |-> at, user |-> IF r.answered THEN r.user ELSE [u \in User |-> None]]
                ELSE latest
  BY DEF record_telemetry
<1>3. stamped => at = r.at
  OBVIOUS
<1>4. ~stamped => at > latest.at
  BY <1>1 DEF LedgerInv, Times, TypeOK
<1>5. latest.at \in Nat
  BY DEF LedgerInv, TypeOK
<1>6. ASSUME NEW u \in User
      PROVE  /\ New(u, r, at) <=> Listed(u, r, at)
             /\ Listed(u, r, at) => at > ledger[u].at
  BY <1>1, RecordSeen DEF New, All, At
<1> HIDE DEF at
<1>7. SUFFICES ASSUME NEW u \in User
      PROVE  /\ "user" \notin astray' => ledger'[u].total <= known'[u] - mark'[u]
             /\ ~ledger'[u].kept => ledger'[u].at = 0
             /\ latest'.user[u] # None =>
                    ledger'[u].kept /\ ledger'[u].last = latest'.user[u] /\ ledger'[u].at = latest'.at
             /\ \A s \in net : stamped /\ s.at = latest'.at =>
                    latest'.user[u] = IF s.answered THEN s.user[u] ELSE None
  BY <1>1 DEF UsersCharged
<1>8. /\ "user" \notin astray => ledger[u].total <= known[u] - mark[u]
      /\ (~ledger[u].kept => ledger[u].at = 0)
      /\ latest.user[u] # None => ledger[u].kept /\ ledger[u].last = latest.user[u] /\ ledger[u].at = latest.at
      /\ \A s \in net : stamped /\ s.at = latest.at => latest.user[u] = IF s.answered THEN s.user[u] ELSE None
      /\ ledger[u].at <= latest.at
  BY DEF LedgerInv, UsersCharged, Times
<1>9. /\ ledger[u].total \in Nat /\ ledger[u].last \in Nat /\ ledger[u].at \in Nat
      /\ known[u] \in Nat /\ mark[u] \in Nat /\ r.moved[u] \in Nat /\ mark'[u] = mark[u]
  <2>1. u \in All /\ u \notin Counter
    BY LedgerAssumption DEF All
  <2> QED BY <1>1, <2>1, ValuesTyped DEF Known, LedgerInv, TypeOK
<1>10. latest'.at = IF at >= latest.at THEN at ELSE latest.at
  BY <1>2
<1>11. latest'.user[u] = IF at >= latest.at THEN IF r.answered THEN r.user[u] ELSE None ELSE latest.user[u]
  BY <1>2
<1>12. \A s \in net : stamped /\ s.at = latest'.at => latest'.user[u] = IF s.answered THEN s.user[u] ELSE None
  <2>1. CASE at >= latest.at
    <3>1. ASSUME NEW s \in net, stamped, s.at = latest'.at PROVE s = r
      BY <1>3, <1>10, <2>1, <3>1 DEF LedgerInv, Times
    <3> QED BY <1>11, <2>1, <3>1
  <2>2. CASE ~(at >= latest.at)
    BY <1>8, <1>10, <1>11, <2>2
  <2> QED BY <2>1, <2>2
<1>15. /\ astray \subseteq astray' /\ (~stamped /\ r.at < made => "user" \in astray')
       /\ r.at \in Nat /\ made \in Nat
  BY <1>1 DEF Known, LedgerInv, TypeOK, Report
<1>13. CASE Listed(u, r, at)
  <2>1. /\ ledger'[u].kept /\ ledger'[u].at = at /\ ledger'[u].last = r.user[u]
        /\ ledger'[u].total = ledger[u].total + Increase(ledger[u].last, r.user[u])
    BY <1>1, <1>13 DEF RecordUsers, Charged
  <2>2. r.user[u] \in Nat /\ r.user[u] # None /\ r.answered
    BY <1>1, <1>13 DEF Listed, Report
  <2>3. known'[u] = r.moved[u]
    BY <1>1, <1>13 DEF Known
  <2>4. ASSUME "user" \notin astray' PROVE known[u] + Increase(ledger[u].last, r.user[u]) <= r.moved[u]
    <3>1. Pending(r, u)
      BY <1>3, <1>6, <1>13, <1>15, <2>4 DEF Pending, At
    <3> QED BY <2>2, <3>1 DEF LedgerInv, Between, Seen, In, Shown, All
  <2>5. ASSUME "user" \notin astray' PROVE ledger'[u].total <= known'[u] - mark'[u]
    <3>1. Increase(ledger[u].last, r.user[u]) \in Nat
      BY <1>9, <2>2, IncreaseTyped
    <3> QED BY <1>8, <1>9, <1>15, <2>1, <2>3, <2>4, <2>5, <3>1
  <2>6. CASE at >= latest.at
    BY <1>10, <1>11, <1>12, <2>1, <2>2, <2>5, <2>6
  <2>7. CASE ~(at >= latest.at)
    <3>1. latest.user[u] = None
      BY <1>1, <1>5, <1>6, <1>8, <1>13, <2>7
    <3> QED BY <1>11, <1>12, <2>1, <2>5, <2>7, <3>1
  <2> QED BY <2>6, <2>7
<1>14. CASE ~Listed(u, r, at)
  <2>1. ledger'[u] = ledger[u] /\ known'[u] = known[u]
    BY <1>1, <1>14 DEF RecordUsers, Known
  <2>5. "user" \notin astray' => ledger'[u].total <= known'[u] - mark'[u]
    BY <1>8, <1>9, <1>15, <2>1
  <2>2. CASE at >= latest.at /\ r.answered /\ r.user[u] # None
    <3>1. ledger[u].kept /\ at <= ledger[u].at
      <4>1. ~(ledger[u].kept => at > ledger[u].at)
        BY <1>14, <2>2, Zenon DEF Listed
      <4> QED BY <1>1, <1>9, <4>1
    <3>2. at = latest.at /\ ledger[u].at = latest.at
      <4>1. at >= latest.at /\ at <= ledger[u].at /\ ledger[u].at <= latest.at
        BY <1>8, <2>2, <3>1, Zenon
      <4>2. at \in Nat /\ latest.at \in Nat /\ ledger[u].at \in Nat
        BY <1>1, <1>5, <1>9, Zenon
      <4> QED BY <4>1, <4>2
    <3>3. stamped
      BY <1>1, <1>4, <1>5, <3>2
    <3>4. latest.user[u] = r.user[u]
      BY <1>3, <1>8, <2>2, <3>2, <3>3
    <3> QED BY <1>8, <1>9, <1>10, <1>11, <1>12, <2>1, <2>2, <2>5, <3>2, <3>4
  <2>3. CASE at >= latest.at /\ ~(r.answered /\ r.user[u] # None)
    <3>1. latest'.user[u] = None
      BY <1>11, <2>3
    <3> QED BY <1>8, <1>9, <1>12, <2>1, <2>5, <3>1
  <2>4. CASE ~(at >= latest.at)
    BY <1>8, <1>9, <1>10, <1>11, <1>12, <2>1, <2>4, <2>5
  <2> QED BY <2>2, <2>3, <2>4
<1> QED BY <1>13, <1>14

\* A reset of the server's cycle begins it where the totals are.
LEMMA ResetCycleKeepsInv ==
  ASSUME LedgerInv, TypeOK', ResetCycle
  PROVE  LedgerInv'
<1>1. /\ baseline' = total /\ UNCHANGED <<now, stamped, node, net, total, dated, seen, lastAt, users, latest, known, made>>
      /\ astray' = astray \ {"cycle"} /\ \A c \in Counter : mark'[c] = known[c]
      /\ \A u \in User : mark'[u] = mark[u]
  BY LedgerAssumption DEF ResetCycle
<1>2. \A c \in All : Seen(c)' = Seen(c) /\ At(c)' = At(c) /\ Now(c)' = Now(c)
  BY <1>1 DEF Seen, At, Now, Shown, users, node
<1>3. Times'
  BY <1>1 DEF LedgerInv, Times, users
<1>4. Growth' /\ Between'
  BY <1>1, <1>2 DEF LedgerInv, Growth, Between, Pending, In, Shown, node
<1>5. ServerCharged'
  BY <1>1, ValuesTyped DEF LedgerInv, ServerCharged, All
<1>6. UsersCharged'
  BY <1>1 DEF LedgerInv, UsersCharged, users
<1> QED BY <1>3, <1>4, <1>5, <1>6 DEF LedgerInv

\* A reset of a user's cycle keeps what the ledger has seen: the newest snapshot, if it names the user, is
\* the report that the ledger recorded last.
LEMMA ResetUsersKeepsInv ==
  ASSUME LedgerInv, TypeOK', ResetUsers
  PROVE  LedgerInv'
<1>1. /\ UNCHANGED <<now, stamped, node, net, rows, cycle, latest, known, made>>
      /\ astray' = astray \ {"user"} /\ \A c \in Counter : mark'[c] = mark[c]
      /\ \A u \in User : mark'[u] = known[u] /\ ledger'[u] = Baseline(u)
  BY LedgerAssumption DEF ResetUsers
<1>2. \A u \in User : /\ ledger'[u].kept /\ ledger'[u].total = 0
                      /\ ledger'[u].last = ledger[u].last /\ ledger'[u].at = ledger[u].at
  <2>1. ASSUME NEW u \in User
        PROVE  /\ Baseline(u).kept /\ Baseline(u).total = 0
               /\ Baseline(u).last = ledger[u].last /\ Baseline(u).at = ledger[u].at
    <3>1. ledger[u] \in LedgerType
      BY DEF LedgerInv, TypeOK, LedgerType
    <3>2. CASE latest.user[u] # None
      BY <3>2 DEF Baseline, LedgerInv, UsersCharged
    <3>3. CASE latest.user[u] = None
      BY <3>1, <3>3 DEF Baseline, LedgerType
    <3> QED BY <3>2, <3>3
  <2> QED BY <1>1, <2>1
<1>3. \A c \in All : Seen(c)' = Seen(c) /\ At(c)' = At(c) /\ Now(c)' = Now(c)
  BY <1>1, <1>2 DEF Seen, At, Now, Shown, rows, node
<1>4. Times'
  BY <1>1, <1>2 DEF LedgerInv, Times, rows
<1>5. Growth' /\ Between'
  BY <1>1, <1>3 DEF LedgerInv, Growth, Between, Pending, In, Shown, node
<1>6. ServerCharged'
  BY <1>1 DEF LedgerInv, ServerCharged, rows, cycle
<1>7. UsersCharged'
  BY <1>1, <1>2, ValuesTyped DEF LedgerInv, UsersCharged, All
<1> QED BY <1>4, <1>5, <1>6, <1>7 DEF LedgerInv

\* The ledger's invariant is inductive.
LEMMA LedgerStep == LedgerInv /\ [Next]_vars => LedgerInv'
<1> SUFFICES ASSUME LedgerInv, [Next]_vars PROVE LedgerInv'
  OBVIOUS
<1>0. TypeOK'
  BY TypeStep DEF LedgerInv
<1>1. NodeTyped
  BY TypeParts DEF LedgerInv
<1>2. ASSUME NEW c \in Counter \cup User, Moves(c) PROVE LedgerInv'
  <2>1. \A d \in All : /\ moved'[d] = moved[d] + (IF d = c THEN 1 ELSE 0)
                       /\ Now(d)' = Now(d) + (IF d = c THEN 1 ELSE 0)
    <3>1. \A d \in All : moved'[d] = moved[d] + (IF d = c THEN 1 ELSE 0)
      BY <1>1, <1>2 DEF Moves, NodeTyped, All
    <3>2. ASSUME NEW d \in User PROVE Now(d)' = Now(d) + (IF d = c THEN 1 ELSE 0)
      <4>1. user'[d] = IF d = c THEN IF user[d] = None THEN 1 ELSE user[d] + 1 ELSE user[d]
        BY <1>1, <1>2 DEF Moves, NodeTyped
      <4>2. user[d] \in Nat \cup {None} /\ None \notin Nat
        BY <1>1, LedgerAssumption DEF NodeTyped
      <4> QED BY <4>1, <4>2 DEF Now, Shown
    <3>3. ASSUME NEW d \in All, d \notin User PROVE Now(d)' = Now(d) + (IF d = c THEN 1 ELSE 0)
      <4>1. d \in Counter /\ count[d] \in Nat
        BY <1>1, <3>3 DEF NodeTyped, All
      <4>2. count'[d] = IF d = c THEN count[d] + 1 ELSE count[d]
        BY <1>1, <1>2, <4>1 DEF Moves, NodeTyped
      <4> QED BY <3>3, <4>1, <4>2 DEF Now
    <3> QED BY <3>1, <3>2, <3>3
  <2>2. \A d \in All : moved[d] \in Nat /\ Now(d) \in Nat
    BY ValuesTyped DEF LedgerInv
  <2>3. \A d \in All : \/ Now(d)' = Now(d) /\ moved'[d] = moved[d]
                       \/ Now(d)' = Now(d) + 1 /\ moved'[d] = moved[d] + 1
    BY <2>1, <2>2
  <2> QED BY <1>0, <1>2, <2>3, NodeKeepsInv DEF Moves, history
<1>3. ASSUME XrayRestarts PROVE LedgerInv'
  <2>1. \A d \in All : moved'[d] = moved[d] /\ (Now(d)' = 0 \/ Now(d)' = Now(d))
    BY <1>3 DEF XrayRestarts, Now, Shown, All
  <2> QED BY <1>0, <1>3, <2>1, NodeKeepsInv DEF XrayRestarts, history
<1>4. ASSUME HostReboots PROVE LedgerInv'
  <2>1. \A d \in All : moved'[d] = moved[d] /\ (Now(d)' = 0 \/ Now(d)' = Now(d))
    BY <1>4 DEF HostReboots, Now, Shown, All
  <2> QED BY <1>0, <1>4, <2>1, NodeKeepsInv DEF HostReboots, history
<1>5. ASSUME NEW c \in Nic, NicVanishes(c) PROVE LedgerInv'
  <2>1. \A d \in All : moved'[d] = moved[d] /\ (Now(d)' = 0 \/ Now(d)' = Now(d))
    BY <1>1, <1>5 DEF NicVanishes, Now, Shown, All, NodeTyped
  <2> QED BY <1>0, <1>5, <2>1, NodeKeepsInv DEF NicVanishes, history
<1>6. ASSUME NEW answered \in BOOLEAN, collect_telemetry(answered) PROVE LedgerInv'
  BY <1>0, <1>6, CollectKeepsInv
<1>7. ASSUME now' \in Nat, now' >= now, net' \subseteq net,
             UNCHANGED <<stamped, node, rows, baselineAt, users, latest, known, mark, made, astray>>
      PROVE  LedgerInv'
  <2>1. \A c \in All : Seen(c)' = Seen(c) /\ At(c)' = At(c) /\ Now(c)' = Now(c)
    BY <1>7 DEF Seen, At, Now, Shown, rows, users, node
  <2>2. Times'
    <3>1. now \in Nat /\ latest.at \in Nat /\ (\A s \in Source : lastAt[s] \in Nat) /\ \A r \in net : r.at \in Nat
      BY ValuesTyped DEF LedgerInv, TypeOK
    <3> QED BY <1>7, <3>1 DEF LedgerInv, Times, rows, users
  <2>3. Growth' /\ Between'
    BY <1>7, <2>1 DEF LedgerInv, Growth, Between, Pending, In, Shown, node
  <2>4. ServerCharged'
    BY <1>7 DEF LedgerInv, ServerCharged, rows
  <2>5. UsersCharged'
    BY <1>7 DEF LedgerInv, UsersCharged, users
  <2> QED BY <1>0, <2>2, <2>3, <2>4, <2>5 DEF LedgerInv
<1>8. now \in Nat
  BY DEF LedgerInv, TypeOK
<1>9. ASSUME NEW r \in net, ReportLost(r) PROVE LedgerInv'
  BY <1>7, <1>8, <1>9 DEF ReportLost, cycle, history
<1>10. ASSUME NEW r \in net, record_telemetry(r) PROVE LedgerInv'
  BY <1>0, <1>10, RecordKeepsTimes, RecordKeepsGrowth, RecordKeepsServer, RecordKeepsUsers DEF LedgerInv
<1>11. ASSUME ResetCycle PROVE LedgerInv'
  BY <1>0, <1>11, ResetCycleKeepsInv
<1>12. ASSUME ResetUsers PROVE LedgerInv'
  BY <1>0, <1>12, ResetUsersKeepsInv
<1>13. ASSUME NEW d \in ResetDay, update(d) PROVE LedgerInv'
  BY <1>7, <1>8, <1>13 DEF update, history
<1>14. ASSUME Tick PROVE LedgerInv'
  BY <1>7, <1>8, <1>14 DEF Tick, cycle, history
<1>15. CASE UNCHANGED vars
  BY <1>7, <1>8, <1>15 DEF vars, cycle, history
<1> QED BY <1>2, <1>3, <1>4, <1>5, <1>6, <1>9, <1>10, <1>11, <1>12, <1>13, <1>14, <1>15
         DEF Next, reset, reset_due, reset_subscription_traffic, reset_due_subscription_traffic

\* Nothing has been moved, reported or charged at the beginning.
LEMMA LedgerInit == Init => LedgerInv
<1> SUFFICES ASSUME Init PROVE LedgerInv
  OBVIOUS
<1>1. TypeOK
  <2>1. stamped \in BOOLEAN
    BY DEF Init
  <2>2. /\ now \in Nat /\ net \subseteq Report /\ boot \in Nat /\ seenBoot \in Nat /\ baselineAt \in Nat
        /\ lastReset \in Nat /\ userReset \in Nat /\ day \in ResetDay /\ userDay \in ResetDay
    BY DEF Init
  <2>3. /\ count \in [Counter -> Nat] /\ user \in [User -> Nat \cup {None}] /\ moved \in [Counter \cup User -> Nat]
        /\ total \in [Counter -> Nat] /\ baseline \in [Counter -> Nat] /\ dated \in [Counter -> Nat]
        /\ seen \in [Counter -> Nat] /\ lastAt \in [Source -> Nat]
        /\ known \in [Counter \cup User -> Nat] /\ mark \in [Counter \cup User -> Nat]
    BY DEF Init
  <2>4. ledger \in [User -> LedgerType]
    BY DEF Init, LedgerType
  <2>5. latest \in [at : Nat, user : [User -> Nat \cup {None}]]
    BY DEF Init
  <2>6. made \in Nat /\ astray \subseteq {"total", "cycle", "user"}
    BY DEF Init
  <2> QED BY <2>1, <2>2, <2>3, <2>4, <2>5, <2>6 DEF TypeOK, LedgerType
<1>2. Times
  BY DEF Init, Times, Source
<1>3. Growth
  <2>1. \A c \in All : known[c] = 0 /\ moved[c] = 0 /\ Seen(c) = 0 /\ Now(c) = 0
    BY DEF Init, All, Seen, Now, Shown
  <2>2. Increase(0, 0) = 0 /\ net = {}
    BY DEF Increase, Init
  <2> QED BY <2>1, <2>2 DEF Growth
<1>4. Between
  BY DEF Init, Between
<1>5. ServerCharged
  BY ValuesTyped DEF Init, ServerCharged
<1>6. UsersCharged
  BY DEF Init, UsersCharged
<1> QED BY <1>1, <1>2, <1>3, <1>4, <1>5, <1>6 DEF LedgerInv

\* Every variable has its type.
THEOREM LedgerTyped == Spec => []TypeOK
<1>1. LedgerInv => TypeOK
  BY DEF LedgerInv
<1> QED BY <1>1, LedgerInit, LedgerStep, PTL DEF Spec

\* Nobody is charged for more than was moved, however often Xray and the host restart and however late,
\* often or rarely reports come in (record, _record_subscription_traffic_ledger), as long as no report
\* without a stamp is recorded after one that was made later.
THEOREM NobodyOvercharged == Spec => []NeverOvercharged
<1>1. ASSUME LedgerInv PROVE NeverOvercharged
  <2>1. \A c \in All : known[c] \in Nat /\ mark[c] \in Nat /\ moved[c] \in Nat /\ known[c] <= moved[c]
    <3>1. ASSUME NEW c \in All
          PROVE  known[c] \in Nat /\ mark[c] \in Nat /\ moved[c] \in Nat /\ known[c] <= moved[c]
      <4>1. Seen(c) \in Nat /\ Now(c) \in Nat /\ known[c] \in Nat /\ mark[c] \in Nat /\ moved[c] \in Nat
        BY <1>1, ValuesTyped DEF LedgerInv
      <4>2. Increase(Seen(c), Now(c)) \in Nat
        BY <4>1, IncreaseTyped
      <4>3. known[c] + Increase(Seen(c), Now(c)) <= moved[c]
        BY <1>1 DEF LedgerInv, Growth
      <4> QED BY <4>1, <4>2, <4>3
    <3> QED BY <3>1
  <2>2. \A c \in Counter : dated[c] <= total[c] /\ ("total" \notin astray => total[c] <= moved[c])
    BY <1>1, <2>1, ValuesTyped DEF LedgerInv, ServerCharged, All
  <2>3. ASSUME NEW u \in User, "user" \notin astray PROVE ledger[u].total <= moved[u]
    <3>1. ledger[u].total \in Nat /\ ledger[u].total <= known[u] - mark[u]
      BY <1>1, <2>3 DEF LedgerInv, UsersCharged, TypeOK
    <3> QED BY <2>1, <3>1 DEF All
  <2> QED BY <2>2, <2>3 DEF NeverOvercharged
<1> QED BY <1>1, LedgerInit, LedgerStep, PTL DEF Spec

\* A cycle is charged only for what was moved after the last report from before it (_reset, baseline_at,
\* _subscription_traffic_baseline): with stamps, however late that report is recorded; without, as long
\* as no report made before the reset is recorded after it.
THEOREM CycleCharged == Spec => []CycleIsNew
<1>1. LedgerInv => CycleIsNew
  BY DEF LedgerInv, ServerCharged, UsersCharged, CycleIsNew
<1> QED BY <1>1, LedgerInit, LedgerStep, PTL DEF Spec
(***************************************************************************)
(* The calendar.                                                           *)
(***************************************************************************)
\* A nonempty set of naturals has a least element.
LEMMA LeastNat ==
  ASSUME NEW S, S \subseteq Nat, S # {}
  PROVE  \E x \in S : \A y \in S : x <= y
<1> DEFINE Less == {p \in Nat \X Nat : p[1] < p[2]}
<1>1. Less = OpToRel(<, Nat)
  BY Zenon DEF OpToRel
<1>2. IsWellFoundedOn(Less, Nat)
  BY <1>1, NatLessThanWellFounded, Zenon
<1> HIDE DEF Less
<1>3. PICK x \in S : \A y \in S : <<y, x>> \notin Less
  BY <1>2, WFMin, Zenon
<1>4. ASSUME NEW y \in S PROVE x <= y
  <2>1. ~(y < x)
    BY <1>3 DEF Less
  <2> QED BY <2>1
<1> QED BY <1>4

\* A time lies in a month, which begins with the last first there was.
LEMMA FirstIs ==
  ASSUME NEW t \in Nat
  PROVE  First(t) \in MonthStart /\ First(t) <= t /\ \A m \in MonthStart : m <= t => m <= First(t)
<1> DEFINE Bounds == {b \in Nat : \A m \in MonthStart : m <= t => m <= b}
<1>1. MonthStart \subseteq Nat /\ 0 \in MonthStart
  BY LedgerAssumption
<1>2. t \in Bounds
  OBVIOUS
<1>3. PICK b \in Bounds : \A c \in Bounds : b <= c
  BY <1>2, LeastNat
<1>4. b \in Nat /\ b <= t /\ \A m \in MonthStart : m <= t => m <= b
  BY <1>2, <1>3
<1>5. ASSUME b \notin MonthStart PROVE FALSE
  <2>1. b > 0 /\ b - 1 \in Nat
    BY <1>1, <1>4, <1>5
  <2>2. \A m \in MonthStart : m <= t => m <= b - 1
    BY <1>1, <1>4, <1>5
  <2>3. b - 1 \in Bounds
    BY <2>1, <2>2
  <2> QED BY <1>3, <1>4, <2>3
<1> HIDE DEF Bounds
<1>6. \E s \in MonthStart : s <= t /\ \A m \in MonthStart : m <= t => m <= s
  BY <1>4, <1>5
<1> QED BY <1>6 DEF First

\* The next month begins with the first one that is later.
LEMMA NextFirstIs ==
  ASSUME NEW t \in Nat, \E m \in MonthStart : m > t
  PROVE  NextFirst(t) \in MonthStart /\ NextFirst(t) > t /\ \A m \in MonthStart : m > t => NextFirst(t) <= m
<1> DEFINE Later == {m \in MonthStart : m > t}
<1>1. Later \subseteq Nat /\ Later # {}
  BY LedgerAssumption
<1>2. PICK s \in Later : \A m \in Later : s <= m
  BY <1>1, LeastNat
<1>3. \E s1 \in MonthStart : s1 > t /\ \A m \in MonthStart : m > t => s1 <= m
  BY <1>2
<1> QED BY <1>3 DEF NextFirst

\* All times of a month have the same first and the same next first.
LEMMA SameMonth ==
  ASSUME NEW s \in MonthStart, NEW m \in MonthStart, s < m,
         \A l \in MonthStart : l > s => m <= l,
         NEW t \in Nat, s <= t, t < m
  PROVE  First(t) = s /\ NextFirst(t) = m
<1>0. MonthStart \subseteq Nat
  BY LedgerAssumption
<1> DEFINE f == First(t)  n == NextFirst(t)
<1>a. s \in Nat /\ m \in Nat
  BY <1>0
<1>1. f = s
  <2>1. f \in MonthStart /\ f <= t /\ \A l \in MonthStart : l <= t => l <= f
    BY FirstIs
  <2> HIDE DEF f
  <2>2. f \in Nat /\ s <= f
    BY <1>0, <2>1
  <2>3. ~(f > s)
    BY <1>a, <2>1, <2>2
  <2> QED BY <1>a, <2>2, <2>3
<1>3. n = m
  <2>0. m > t
    BY <1>a
  <2>1. n \in MonthStart /\ n > t /\ \A l \in MonthStart : l > t => n <= l
    BY <2>0, NextFirstIs
  <2> HIDE DEF n
  <2>2. n \in Nat /\ n <= m
    BY <1>0, <2>0, <2>1
  <2>3. m <= n
    BY <1>a, <2>1, <2>2
  <2> QED BY <1>a, <2>2, <2>3
<1> QED BY <1>1, <1>3

\* Midnight of a day of the month lies in the month, at least a day before the next one.
LEMMA MidnightInMonth ==
  ASSUME NEW t \in Nat, NEW d \in Nat, d > 0, \E m \in MonthStart : m > t
  PROVE  Midnight(t, d) \in Nat /\ First(t) <= Midnight(t, d) /\ Midnight(t, d) + Day <= NextFirst(t)
<1>1. /\ First(t) \in Nat /\ NextFirst(t) \in Nat /\ Day \in Nat
      /\ First(t) + Day <= NextFirst(t)
  <2> DEFINE f == First(t)  n == NextFirst(t)
  <2>1. f \in MonthStart /\ f <= t /\ n \in MonthStart /\ n > t
    BY FirstIs, NextFirstIs
  <2> HIDE DEF f, n
  <2>2. f \in Nat /\ n \in Nat /\ Day \in Nat /\ f < n
    BY <2>1, LedgerAssumption
  <2>3. f + Day <= n
    BY <2>1, <2>2, CalendarAssumption
  <2> QED BY <2>2, <2>3 DEF f, n
<1>2. Day * (d - 1) \in Nat /\ Day * d \in Nat /\ Day * d = Day * (d - 1) + Day
  <2>1. \A x, y \in Nat : x * y \in Nat
    OBVIOUS
  <2>2. d - 1 \in Nat
    OBVIOUS
  <2>3. Day * d = Day * (d - 1) + Day
    BY <1>1
  <2> QED BY <1>1, <2>1, <2>2, <2>3
<1>3. CASE First(t) + Day * d <= NextFirst(t)
  <2>1. Midnight(t, d) = First(t) + Day * (d - 1)
    BY <1>3 DEF Midnight
  <2> QED BY <1>1, <1>2, <1>3, <2>1
<1>4. CASE ~(First(t) + Day * d <= NextFirst(t))
  <2>1. Midnight(t, d) = NextFirst(t) - Day
    BY <1>4 DEF Midnight
  <2> QED BY <1>1, <2>1
<1> QED BY <1>3, <1>4

\* The clock stays within its bound, and the last reset was not later than now.
ClockInv == TypeOK /\ now <= MaxTime /\ lastReset <= now

\* Every step keeps the clock so.
LEMMA ClockStep == ClockInv /\ [Next]_vars => ClockInv'
<1> SUFFICES ASSUME ClockInv, [Next]_vars PROVE (now <= MaxTime /\ lastReset <= now)'
  BY TypeStep DEF ClockInv
<1>0. now \in Nat /\ lastReset \in Nat /\ MaxTime \in Nat /\ now <= MaxTime /\ lastReset <= now
  BY LedgerAssumption DEF ClockInv, TypeOK
<1>1. CASE Tick \/ \E answered \in BOOLEAN : collect_telemetry(answered)
  BY <1>0, <1>1 DEF Tick, collect_telemetry, cycle
<1>2. ASSUME NEW r \in net, record_telemetry(r) PROVE (now <= MaxTime /\ lastReset <= now)'
  BY <1>0, <1>2 DEF record_telemetry, cycle
<1>3. CASE ResetCycle
  BY <1>0, <1>3 DEF ResetCycle
<1>4. CASE UNCHANGED <<now, lastReset>>
  BY <1>0, <1>4
<1>5. ASSUME NEW c \in Counter \cup User, Moves(c) PROVE UNCHANGED <<now, lastReset>>
  BY <1>5 DEF Moves, cycle
<1>6. CASE XrayRestarts \/ HostReboots \/ \E c \in Nic : NicVanishes(c)
  BY <1>4, <1>6 DEF XrayRestarts, HostReboots, NicVanishes, cycle
<1>7. ASSUME NEW r \in net, ReportLost(r) PROVE UNCHANGED <<now, lastReset>>
  BY <1>7 DEF ReportLost, cycle, history
<1>8. ASSUME NEW d \in ResetDay, update(d) PROVE UNCHANGED <<now, lastReset>>
  BY <1>8 DEF update, history
<1>9. CASE ResetUsers \/ UNCHANGED vars
  BY <1>4, <1>9 DEF ResetUsers, vars, cycle
<1> QED BY <1>1, <1>2, <1>3, <1>4, <1>5, <1>6, <1>7, <1>8, <1>9
        DEF Next, reset, reset_due, reset_subscription_traffic, reset_due_subscription_traffic

\* Whatever the day of the month and however short the month, the reset is due from the time that is
\* shown and not before.
LEMMA ClockShowsReset == ClockInv => NextResetHonest
<1> SUFFICES ASSUME ClockInv, day > 0, NEW t \in now .. NextReset(now)
             PROVE  Due(t) <=> t >= NextReset(now)
  BY DEF NextResetHonest
<1>0. /\ now \in Nat /\ lastReset \in Nat /\ MaxTime \in Nat /\ day \in Nat /\ Day \in Nat /\ Day > 1
      /\ now \in 0 .. MaxTime /\ lastReset <= now /\ MonthStart \subseteq Nat
  BY LedgerAssumption, CalendarAssumption DEF ClockInv, TypeOK
<1>1. PICK s1, m1 \in MonthStart : now < s1 /\ s1 < m1
  BY <1>0, CalendarAssumption
<1> DEFINE F == First(now)  N == NextFirst(now)  M == Midnight(now, day)
<1>2. /\ F \in MonthStart /\ N \in MonthStart /\ F \in Nat /\ N \in Nat /\ F <= now /\ now < N
      /\ \A l \in MonthStart : l > F => N <= l
  <2>1. F \in MonthStart /\ F <= now /\ \A l \in MonthStart : l <= now => l <= F
    BY <1>0, FirstIs
  <2>2. N \in MonthStart /\ N > now /\ \A l \in MonthStart : l > now => N <= l
    BY <1>0, <1>1, NextFirstIs
  <2> HIDE DEF F, N, M
  <2>3. \A l \in MonthStart : l > F => N <= l
    BY <1>0, <2>1, <2>2
  <2> QED BY <1>0, <2>1, <2>2, <2>3
<1>3. M \in Nat /\ F <= M /\ M + Day <= N
  BY <1>0, <1>1, MidnightInMonth
<1>4. ASSUME NEW x \in Nat, now <= x, x < N PROVE Midnight(x, day) = M
  <2>1. F <= x /\ F < N
    BY <1>0, <1>2, <1>4
  <2>2. First(x) = F /\ NextFirst(x) = N
    BY <1>2, <1>4, <2>1, SameMonth
  <2> QED BY <2>2 DEF Midnight
<1>5. t \in Int /\ now <= t /\ t <= NextReset(now) /\ t \in Nat
  BY <1>0
<1> HIDE DEF F, M
<1>6. CASE lastReset < M
  <2>1. NextReset(now) = M + 1
    BY <1>0, <1>3, <1>6 DEF NextReset, boundary, M
  <2>2. Midnight(t, day) = M
    BY <1>0, <1>2, <1>3, <1>4, <1>5, <2>1
  <2> QED BY <1>0, <1>3, <1>6, <2>1, <2>2 DEF Due, boundary
<1>7. CASE ~(lastReset < M)
  <2> DEFINE N2 == NextFirst(N)  M2 == Midnight(N, day)
  <2>1. N <= s1 /\ \E m \in MonthStart : m > N
    BY <1>0, <1>1, <1>2, NextFirstIs
  <2>2. N2 \in MonthStart /\ N2 \in Nat /\ N < N2 /\ \A l \in MonthStart : l > N => N2 <= l
    BY <1>0, <1>2, <2>1, NextFirstIs
  <2>3. M2 \in Nat /\ N <= M2 /\ M2 + Day <= N2
    <3>1. N <= N /\ N < N2
      BY <1>2, <2>2
    <3>2. First(N) = N
      BY <1>2, <2>2, <3>1, SameMonth
    <3> QED BY <1>0, <1>2, <2>1, <3>2, MidnightInMonth
  <2>4. NextReset(now) = M2 + 1
    BY <1>0, <1>3, <1>7 DEF NextReset, boundary, M
  <2>5. ASSUME NEW x \in Nat, N <= x, x < N2 PROVE Midnight(x, day) = M2
    <3>1. First(x) = N /\ NextFirst(x) = N2
      BY <1>2, <2>2, <2>5, SameMonth
    <3>2. N <= N
      BY <1>2
    <3>3. First(N) = N
      BY <1>2, <2>2, <3>2, SameMonth
    <3> QED BY <3>1, <3>3 DEF Midnight
  <2> HIDE DEF N2, M2
  <2>6. CASE t < N
    <3>1. Midnight(t, day) = M
      BY <1>4, <1>5, <2>6
    <3> QED BY <1>0, <1>2, <1>3, <1>5, <1>7, <2>3, <2>4, <2>6, <3>1 DEF Due, boundary
  <2>7. CASE N <= t
    <3>1. Midnight(t, day) = M2
      BY <1>0, <1>5, <2>2, <2>3, <2>4, <2>5, <2>7
    <3> QED BY <1>0, <1>2, <2>3, <2>4, <3>1 DEF Due, boundary
  <2> QED BY <1>2, <1>5, <2>6, <2>7
<1> QED BY <1>6, <1>7

\* The next reset that read_in_session shows is when reset_due resets, in months of any length and with
\* resets at any time in between.
THEOREM NextResetShown == Spec => []NextResetHonest
<1>1. Init => ClockInv
  <2>1. Init => TypeOK
    BY LedgerInit DEF LedgerInv
  <2> QED BY <2>1, LedgerAssumption, CalendarAssumption DEF Init, ClockInv
<1> QED BY <1>1, ClockStep, ClockShowsReset, PTL DEF Spec
=============================================================================
