------------------------ MODULE NotificationsProofs ------------------------
(***************************************************************************)
(* Proofs about Notifications for any deliveries, chats, settings, retry    *)
(* requests and times: what a row shows is the result of the attempt that   *)
(* owns it, a chat is never written to too soon, and no message is sent     *)
(* twice without consent.                                                  *)
(*                                                                         *)
(* The parts of the inductive invariant are operators of the tables they    *)
(* read, because a retry or a claim first recovers the tables and then      *)
(* changes what it recovered, in one transaction.                          *)
(***************************************************************************)
EXTENDS Notifications, SequenceTheorems, TLAPS

Shows == {"sending", "accepted", "failed", "unknown"}
Sending == {"check", "connect", "response", "receipt"}
Retry == [delivery : Delivery, seen : 1 .. MaxAttempts, confirmed : BOOLEAN]
Chats == [busy : Attempt \cup {NoAttempt}, next : Nat]

\* The tables have the shape the code gives them.
Typed(R, A, T) ==
    /\ R \in [Delivery -> Row]
    /\ A \in [Delivery -> Seq(AttemptRow)]
    /\ \A d \in Delivery : Len(A[d]) <= MaxAttempts
    /\ T \in [Chat -> Chats]

\* RowFollowsAttempt, of any rows and attempts.
Follows(R, A) ==
    \A d \in Delivery :
        R[d].state \in Shows =>
            /\ Len(A[d]) > 0
            /\ A[d][Len(A[d])].state = R[d].state
            /\ A[d][Len(A[d])].generation = R[d].generation

\* ChatSpacing, of any attempts.
Spaced(A) ==
    \A d, e \in Delivery : \A i \in 1 .. Len(A[d]), j \in 1 .. Len(A[e]) :
        <<d, i>> # <<e, j>> /\ A[d][i].chat = A[e][j].chat /\ A[d][i].started <= A[e][j].started =>
            /\ A[d][i].started + Interval <= A[e][j].started
            /\ A[d][i].state \in {"sending", "unknown"} => A[d][i].deadline <= A[e][j].started

\* The throttle of a chat knows of each attempt when the next may start, and names the one that may
\* still arrive; only an attempt past its deadline was recovered.
Throttled(A, T, now) ==
    \A d \in Delivery : \A i \in 1 .. Len(A[d]) :
        /\ A[d][i].started + Interval <= T[A[d][i].chat].next
        /\ A[d][i].state \in {"sending", "unknown"} /\ now < A[d][i].deadline =>
              T[A[d][i].chat].busy = <<d, i>>
        /\ A[d][i].recovered => A[d][i].deadline <= now

\* A recovered attempt is unknown, unless its receipt came in late.
Resolved(A) ==
    \A d \in Delivery : \A i \in 1 .. Len(A[d]) :
        A[d][i].recovered => A[d][i].state = "unknown" \/ A[d][i].late

\* The worker holds the last attempt of a delivery.  It has posted nothing before it connects, and
\* a failure proves that nothing arrives; an attempt that was never claimed was never posted.
Placed(A, W, G) ==
    /\ W.pc \in Sending =>
          \E d \in Delivery : Len(A[d]) > 0 /\ W.at = <<d, Len(A[d])>>
    /\ W.pc \in {"check", "connect"} => G[W.at] = "none"
    /\ W.pc = "receipt" /\ W.outcome.state = "failed" => G[W.at] \in {"none", "rejected"}
    /\ W.outcome.retryable => W.outcome.state = "failed"
    /\ \A d \in Delivery : \A i \in 1 .. MaxAttempts : i > Len(A[d]) => G[<<d, i>>] = "none"

\* An attempt that arrived or still may, counting one that is about to be posted.
Exposed(W, G, d, i) ==
    \/ G[<<d, i>>] \in {"posted", "delivered"}
    \/ W.at = <<d, i>> /\ W.pc \in {"check", "connect"}

\* An administrator consented to a second message after one of the attempts i .. k.
Covered(Q, d, i, k) ==
    \E q \in Request :
        Q[q] # NoRequest /\ Q[q].delivery = d /\ Q[q].confirmed /\ Q[q].seen \in i .. k

\* A delivery with an exposed attempt waits for consent, and every later attempt had it.
Consented(R, A, Q, W, G) ==
    \A d \in Delivery : \A i \in 1 .. Len(A[d]) : Exposed(W, G, d, i) =>
        /\ Covered(Q, d, i, Len(A[d]))
           \/ (i = Len(A[d]) /\ R[d].state \in {"sending", "unknown", "accepted"})
        /\ \A j \in i + 1 .. Len(A[d]) : Covered(Q, d, i, j - 1)

Store(R, A, T, now) ==
    Typed(R, A, T) /\ Follows(R, A) /\ Spaced(A) /\ Throttled(A, T, now) /\ Resolved(A)
Sends(R, A, Q, W, G) == Placed(A, W, G) /\ Consented(R, A, Q, W, G)

\* What is not in the tables.
Around ==
    /\ clock \in Nat
    /\ settings \in [enabled : BOOLEAN, chat : Chat \cup {NoChat}, token : BOOLEAN]
    /\ settings.enabled => Configured
    /\ eligible \subseteq Delivery
    /\ requests \in [Request -> Retry \cup {NoRequest}]
    /\ worker \in [pc : Place, at : Attempt \cup {NoAttempt}, outcome : Outcome]
    /\ telegram \in [Attempt -> {"none", "posted", "delivered", "rejected"}]

NotifyInv ==
    /\ Around
    /\ Store(rows, attempts, throttle, clock)
    /\ Sends(rows, attempts, requests, worker, telegram)

-----------------------------------------------------------------------------
\* A function on 1 .. n is a sequence of length n.
LEMMA SeqFrom ==
    ASSUME NEW S, NEW n \in Nat, NEW f \in [1 .. n -> S]
    PROVE  f \in Seq(S) /\ Len(f) = n /\ DOMAIN f = 1 .. n
BY SeqDef, LenProperties

\* What is in a table of attempts.
LEMMA AttemptOf ==
    ASSUME NEW A \in [Delivery -> Seq(AttemptRow)], NEW d \in Delivery
    PROVE  /\ Len(A[d]) \in Nat
           /\ \A i \in 1 .. Len(A[d]) : A[d][i] \in AttemptRow
BY ElementOfSeq, LenProperties

\* Recovery keeps the attempts, and resolves the expired ones as unknown.
LEMMA RecoveredAttemptsAre ==
    ASSUME Around, Typed(rows, attempts, throttle)
    PROVE  /\ RecoveredAttempts \in [Delivery -> Seq(AttemptRow)]
           /\ \A d \in Delivery : Len(RecoveredAttempts[d]) = Len(attempts[d])
           /\ \A d \in Delivery : \A n \in 1 .. Len(attempts[d]) :
                /\ attempts[d][n] \in AttemptRow /\ RecoveredAttempts[d][n] \in AttemptRow
                /\ Expired(attempts[d][n]) =>
                      RecoveredAttempts[d][n] =
                        [attempts[d][n] EXCEPT !.state = "unknown", !.finished = clock, !.recovered = TRUE]
                /\ ~Expired(attempts[d][n]) => RecoveredAttempts[d][n] = attempts[d][n]
<1> DEFINE One(a) == IF Expired(a)
                     THEN [a EXCEPT !.state = "unknown", !.finished = clock, !.recovered = TRUE]
                     ELSE a
           F(d) == [n \in 1 .. Len(attempts[d]) |-> One(attempts[d][n])]
<1>1. \A a \in AttemptRow : One(a) \in AttemptRow
  BY DEF AttemptRow, Around
<1>2. ASSUME NEW d \in Delivery
      PROVE  /\ F(d) \in Seq(AttemptRow) /\ Len(F(d)) = Len(attempts[d])
             /\ \A n \in 1 .. Len(attempts[d]) :
                  attempts[d][n] \in AttemptRow /\ F(d)[n] = One(attempts[d][n])
  <2>1. /\ Len(attempts[d]) \in Nat
        /\ \A n \in 1 .. Len(attempts[d]) : attempts[d][n] \in AttemptRow
    BY AttemptOf DEF Typed
  <2>2. F(d) \in [1 .. Len(attempts[d]) -> AttemptRow]
    BY <1>1, <2>1
  <2>3. F(d) \in Seq(AttemptRow) /\ Len(F(d)) = Len(attempts[d])
    <3> HIDE DEF F
    <3> QED BY <2>1, <2>2, SeqFrom
  <2> QED BY <2>1, <2>3
<1>3. RecoveredAttempts = [d \in Delivery |-> F(d)]
  BY DEF RecoveredAttempts
<1>4. ASSUME NEW d \in Delivery PROVE RecoveredAttempts[d] = F(d)
  BY <1>3
<1>5. RecoveredAttempts \in [Delivery -> Seq(AttemptRow)]
  <2> HIDE DEF F
  <2> QED BY <1>2, <1>3
<1>6. ASSUME NEW d \in Delivery, NEW n \in 1 .. Len(attempts[d])
      PROVE  /\ attempts[d][n] \in AttemptRow /\ RecoveredAttempts[d][n] = One(attempts[d][n])
             /\ RecoveredAttempts[d][n] \in AttemptRow
  <2> HIDE DEF F, One
  <2> QED BY <1>1, <1>2, <1>4
<1>7. ASSUME NEW d \in Delivery PROVE Len(RecoveredAttempts[d]) = Len(attempts[d])
  <2> HIDE DEF F
  <2> QED BY <1>2, <1>4
<1> QED BY <1>5, <1>6, <1>7

\* Recovery changes a row only to show that its last attempt is unknown.
LEMMA RecoveredRowIs ==
    ASSUME Around, Typed(rows, attempts, throttle), NEW d \in Delivery
    PROVE  /\ RecoveredRow(d) \in Row /\ RecoveredRows[d] = RecoveredRow(d)
           /\ \/ RecoveredRow(d) = rows[d]
              \/ RecoveredRow(d) = [rows[d] EXCEPT !.state = "unknown", !.next = 0]
           /\ RecoveredRow(d) # rows[d] =>
                /\ Len(attempts[d]) > 0 /\ Expired(attempts[d][Len(attempts[d])])
                /\ rows[d].generation = attempts[d][Len(attempts[d])].generation
           /\ Len(attempts[d]) > 0 /\ Expired(attempts[d][Len(attempts[d])])
              /\ rows[d].generation = attempts[d][Len(attempts[d])].generation =>
                RecoveredRow(d) = [rows[d] EXCEPT !.state = "unknown", !.next = 0]
<1>1. rows[d] \in Row /\ Len(attempts[d]) \in Nat
  BY AttemptOf DEF Typed
<1>2. [rows[d] EXCEPT !.state = "unknown", !.next = 0] \in Row
  BY <1>1 DEF Row, RowState
<1>3. RecoveredRows[d] = RecoveredRow(d)
  BY DEF RecoveredRows
<1>4. (\E n \in 1 .. Len(attempts[d]) :
          Expired(attempts[d][n]) /\ Current(rows[d], Len(attempts[d]), n, attempts[d][n]))
      <=> /\ Len(attempts[d]) > 0 /\ Expired(attempts[d][Len(attempts[d])])
          /\ rows[d].generation = attempts[d][Len(attempts[d])].generation
  BY <1>1 DEF Current
<1> QED BY <1>1, <1>2, <1>3, <1>4 DEF RecoveredRow

\* Recovery puts off no message, and frees a chat only at the deadline of the attempt it names.
LEMMA RecoveredChatIs ==
    ASSUME Around, Typed(rows, attempts, throttle), NEW c \in Chat
    PROVE  /\ RecoveredChat(c) \in Chats /\ RecoveredChats[c] = RecoveredChat(c)
           /\ throttle[c].next \in Nat /\ RecoveredChat(c).next >= throttle[c].next
           /\ RecoveredChat(c).busy # throttle[c].busy => Deadline(throttle[c].busy) <= clock
<1>1. throttle[c] \in Chats /\ clock \in Nat
  BY DEF Typed, Around
<1>2. Later(throttle[c].next, clock) \in Nat /\ Later(throttle[c].next, clock) >= throttle[c].next
  BY <1>1 DEF Later, Chats
<1> QED BY <1>1, <1>2 DEF RecoveredChat, RecoveredChats, Chats

\* An attempt that is resolved as unknown keeps the rest.
LEMMA ExpiredFields ==
    ASSUME NEW a \in AttemptRow, NEW now,
           NEW b, b = [a EXCEPT !.state = "unknown", !.finished = now, !.recovered = TRUE]
    PROVE  /\ b.chat = a.chat /\ b.chat \in Chat /\ b.started = a.started /\ b.started \in Nat
           /\ b.deadline = a.deadline /\ b.deadline \in Nat /\ b.generation = a.generation
           /\ b.state = "unknown"
BY DEF AttemptRow

\* Recovery keeps what the tables say.
LEMMA RecoveryKeepsStore ==
    ASSUME Around, Store(rows, attempts, throttle, clock)
    PROVE  Store(RecoveredRows, RecoveredAttempts, RecoveredChats, clock)
<1>0. Typed(rows, attempts, throttle)
  BY DEF Store
<1>a. /\ RecoveredAttempts \in [Delivery -> Seq(AttemptRow)]
      /\ \A d \in Delivery : Len(RecoveredAttempts[d]) = Len(attempts[d])
  BY <1>0, RecoveredAttemptsAre
<1>b. ASSUME NEW d \in Delivery, NEW n \in 1 .. Len(attempts[d])
      PROVE  /\ attempts[d][n] \in AttemptRow /\ RecoveredAttempts[d][n] \in AttemptRow
             /\ Expired(attempts[d][n]) =>
                  RecoveredAttempts[d][n] =
                    [attempts[d][n] EXCEPT !.state = "unknown", !.finished = clock, !.recovered = TRUE]
             /\ ~Expired(attempts[d][n]) => RecoveredAttempts[d][n] = attempts[d][n]
  BY <1>0, RecoveredAttemptsAre
<1>c. ASSUME NEW d \in Delivery, NEW n \in 1 .. Len(attempts[d])
      PROVE  /\ RecoveredAttempts[d][n].chat = attempts[d][n].chat
             /\ RecoveredAttempts[d][n].chat \in Chat
             /\ RecoveredAttempts[d][n].started = attempts[d][n].started
             /\ RecoveredAttempts[d][n].started \in Nat
             /\ RecoveredAttempts[d][n].deadline = attempts[d][n].deadline
             /\ RecoveredAttempts[d][n].deadline \in Nat
             /\ RecoveredAttempts[d][n].generation = attempts[d][n].generation
             /\ RecoveredAttempts[d][n].state \in {"sending", "unknown"} =>
                  attempts[d][n].state \in {"sending", "unknown"}
             /\ RecoveredAttempts[d][n].recovered =>
                  attempts[d][n].recovered \/ attempts[d][n].deadline <= clock
  <2>1. CASE Expired(attempts[d][n])
    <3>1. RecoveredAttempts[d][n] =
            [attempts[d][n] EXCEPT !.state = "unknown", !.finished = clock, !.recovered = TRUE]
      BY <1>b, <2>1
    <3>2. attempts[d][n].state = "sending" /\ attempts[d][n].deadline <= clock
      BY <2>1 DEF Expired
    <3>3. PICK a \in AttemptRow : a = attempts[d][n]
      BY <1>b
    <3>4. PICK b : b = RecoveredAttempts[d][n]
      OBVIOUS
    <3>5. b = [a EXCEPT !.state = "unknown", !.finished = clock, !.recovered = TRUE]
      BY <3>1, <3>3, <3>4
    <3>6. /\ b.chat = a.chat /\ b.chat \in Chat /\ b.started = a.started /\ b.started \in Nat
          /\ b.deadline = a.deadline /\ b.deadline \in Nat /\ b.generation = a.generation
          /\ b.state = "unknown"
      BY <3>5, ExpiredFields, ZenonT(60)
    <3> QED BY <3>2, <3>3, <3>4, <3>6
  <2>2. CASE ~Expired(attempts[d][n])
    BY <1>b, <2>2 DEF AttemptRow
  <2> QED BY <2>1, <2>2
<1>d. ASSUME NEW d \in Delivery PROVE Len(attempts[d]) \in Nat
  BY <1>0, AttemptOf DEF Typed
<1>1. Typed(RecoveredRows, RecoveredAttempts, RecoveredChats)
  <2>1. RecoveredRows \in [Delivery -> Row]
    BY <1>0, RecoveredRowIs DEF RecoveredRows
  <2>2. RecoveredChats \in [Chat -> Chats]
    BY <1>0, RecoveredChatIs DEF RecoveredChats
  <2> QED BY <1>0, <1>a, <2>1, <2>2 DEF Typed
<1>2. Follows(RecoveredRows, RecoveredAttempts)
  <2> SUFFICES ASSUME NEW d \in Delivery, RecoveredRows[d].state \in Shows
               PROVE  /\ Len(RecoveredAttempts[d]) > 0
                      /\ RecoveredAttempts[d][Len(RecoveredAttempts[d])].state = RecoveredRows[d].state
                      /\ RecoveredAttempts[d][Len(RecoveredAttempts[d])].generation
                            = RecoveredRows[d].generation
    BY DEF Follows
  <2> DEFINE k == Len(attempts[d])
  <2>1. k \in Nat /\ Len(RecoveredAttempts[d]) = k /\ RecoveredRows[d] = RecoveredRow(d)
        /\ rows[d] \in Row
    BY <1>0, <1>a, <1>d, RecoveredRowIs DEF Typed
  <2>2. CASE RecoveredRow(d) # rows[d]
    <3>1. /\ k > 0 /\ Expired(attempts[d][k]) /\ rows[d].generation = attempts[d][k].generation
          /\ RecoveredRow(d) = [rows[d] EXCEPT !.state = "unknown", !.next = 0]
      BY <1>0, <2>2, RecoveredRowIs
    <3>2. k \in 1 .. Len(attempts[d])
      BY <2>1, <3>1
    <3>3. attempts[d][k] \in AttemptRow /\ RecoveredAttempts[d][k] =
            [attempts[d][k] EXCEPT !.state = "unknown", !.finished = clock, !.recovered = TRUE]
      BY <1>b, <3>1, <3>2
    <3> QED BY <2>1, <3>1, <3>3 DEF Row, AttemptRow
  <2>3. CASE RecoveredRow(d) = rows[d]
    <3>1. k > 0 /\ attempts[d][k].state = rows[d].state
          /\ attempts[d][k].generation = rows[d].generation
      BY <2>1, <2>3 DEF Store, Follows
    <3>2. k \in 1 .. Len(attempts[d])
      BY <2>1, <3>1
    <3>3. CASE Expired(attempts[d][k])
      <4>1. rows[d] = [rows[d] EXCEPT !.state = "unknown", !.next = 0]
        BY <1>0, <2>3, <3>1, <3>3, RecoveredRowIs
      <4>2. rows[d].state = "unknown"
        BY <2>1, <4>1 DEF Row
      <4> QED BY <3>1, <3>3, <4>2 DEF Expired
    <3>4. CASE ~Expired(attempts[d][k])
      <4>1. RecoveredAttempts[d][k] = attempts[d][k]
        BY <1>b, <3>2, <3>4
      <4> QED BY <2>1, <2>3, <3>1, <4>1
    <3> QED BY <3>3, <3>4
  <2> QED BY <2>2, <2>3
<1>3. Spaced(RecoveredAttempts)
  <2> SUFFICES ASSUME NEW d \in Delivery, NEW e \in Delivery,
                      NEW i \in 1 .. Len(attempts[d]), NEW j \in 1 .. Len(attempts[e]),
                      <<d, i>> # <<e, j>>, RecoveredAttempts[d][i].chat = RecoveredAttempts[e][j].chat,
                      RecoveredAttempts[d][i].started <= RecoveredAttempts[e][j].started
               PROVE  /\ RecoveredAttempts[d][i].started + Interval <= RecoveredAttempts[e][j].started
                      /\ RecoveredAttempts[d][i].state \in {"sending", "unknown"} =>
                            RecoveredAttempts[d][i].deadline <= RecoveredAttempts[e][j].started
    BY <1>a DEF Spaced
  <2>1. attempts[d][i].chat = attempts[e][j].chat /\ attempts[d][i].started <= attempts[e][j].started
    BY <1>c
  <2>2. /\ attempts[d][i].started + Interval <= attempts[e][j].started
        /\ attempts[d][i].state \in {"sending", "unknown"} =>
              attempts[d][i].deadline <= attempts[e][j].started
    BY <2>1 DEF Store, Spaced
  <2> QED BY <1>c, <2>2
<1>4. Throttled(RecoveredAttempts, RecoveredChats, clock)
  <2> SUFFICES ASSUME NEW d \in Delivery, NEW i \in 1 .. Len(attempts[d])
               PROVE  LET a == RecoveredAttempts[d][i]
                      IN  /\ a.started + Interval <= RecoveredChats[a.chat].next
                          /\ a.state \in {"sending", "unknown"} /\ clock < a.deadline =>
                                RecoveredChats[a.chat].busy = <<d, i>>
                          /\ a.recovered => a.deadline <= clock
    BY <1>a DEF Throttled
  <2> DEFINE c == attempts[d][i].chat
  <2>1. /\ attempts[d][i].started + Interval <= throttle[c].next
        /\ attempts[d][i].state \in {"sending", "unknown"} /\ clock < attempts[d][i].deadline =>
              throttle[c].busy = <<d, i>>
        /\ attempts[d][i].recovered => attempts[d][i].deadline <= clock
    BY DEF Store, Throttled
  <2>2. c \in Chat
    BY <1>c
  <2>3. /\ RecoveredChats[c] = RecoveredChat(c) /\ RecoveredChat(c).next \in Nat
        /\ throttle[c].next \in Nat /\ RecoveredChat(c).next >= throttle[c].next
        /\ RecoveredChat(c).busy # throttle[c].busy => Deadline(throttle[c].busy) <= clock
    BY <1>0, <2>2, RecoveredChatIs DEF Chats
  <2>4. throttle[c].busy = <<d, i>> => Deadline(throttle[c].busy) = attempts[d][i].deadline
    BY DEF Deadline
  <2>5. clock \in Nat /\ Interval \in Nat
    BY NotificationAssumption DEF Around
  <2> HIDE DEF c
  <2>6. RecoveredAttempts[d][i].chat = c
    BY <1>c DEF c
  <2>7. attempts[d][i].started + Interval <= RecoveredChat(c).next
    <3>1. /\ attempts[d][i].started \in Nat /\ RecoveredChat(c).next >= throttle[c].next
          /\ attempts[d][i].started + Interval <= throttle[c].next
          /\ throttle[c].next \in Nat /\ RecoveredChat(c).next \in Nat
      BY <1>c, <2>1, <2>3 DEF c
    <3> QED BY <2>5, <3>1
  <2>8. ASSUME attempts[d][i].state \in {"sending", "unknown"}, clock < attempts[d][i].deadline
        PROVE  RecoveredChat(c).busy = <<d, i>>
    <3>1. throttle[c].busy = <<d, i>>
      BY <2>1, <2>8
    <3>2. Deadline(throttle[c].busy) = attempts[d][i].deadline
      BY <2>4, <3>1
    <3>3. attempts[d][i].deadline \in Nat
      BY <1>c
    <3>4. ~(attempts[d][i].deadline <= clock)
      BY <2>5, <2>8, <3>3
    <3> QED BY <2>3, <3>1, <3>2, <3>4
  <2> QED BY <1>c, <2>1, <2>3, <2>5, <2>6, <2>7, <2>8
<1>5. Resolved(RecoveredAttempts)
  <2> SUFFICES ASSUME NEW d \in Delivery, NEW i \in 1 .. Len(attempts[d]), RecoveredAttempts[d][i].recovered
               PROVE  RecoveredAttempts[d][i].state = "unknown" \/ RecoveredAttempts[d][i].late
    BY <1>a DEF Resolved
  <2>1. CASE Expired(attempts[d][i])
    <3>1. attempts[d][i] \in AttemptRow /\ RecoveredAttempts[d][i] =
            [attempts[d][i] EXCEPT !.state = "unknown", !.finished = clock, !.recovered = TRUE]
      BY <1>b, <2>1
    <3> QED BY <3>1 DEF AttemptRow
  <2>2. CASE ~Expired(attempts[d][i])
    <3>1. RecoveredAttempts[d][i] = attempts[d][i]
      BY <1>b, <2>2
    <3> QED BY <3>1 DEF Store, Resolved
  <2> QED BY <2>1, <2>2
<1> QED BY <1>1, <1>2, <1>3, <1>4, <1>5 DEF Store

\* Nor does it change who waits for consent.
LEMMA RecoveryKeepsSends ==
    ASSUME Around, Typed(rows, attempts, throttle),
           Sends(rows, attempts, requests, worker, telegram)
    PROVE  Sends(RecoveredRows, RecoveredAttempts, requests, worker, telegram)
<1>1. \A d \in Delivery : Len(RecoveredAttempts[d]) = Len(attempts[d])
  BY RecoveredAttemptsAre
<1>2. ASSUME NEW d \in Delivery
      PROVE  rows[d].state \in {"sending", "unknown", "accepted"} =>
                RecoveredRows[d].state \in {"sending", "unknown", "accepted"}
  <2>1. rows[d] \in Row
    BY DEF Typed
  <2>2. [rows[d] EXCEPT !.state = "unknown", !.next = 0].state = "unknown"
    BY <2>1 DEF Row
  <2> QED BY <2>2, RecoveredRowIs
<1> HIDE DEF Exposed, Covered
<1>3. Placed(RecoveredAttempts, worker, telegram)
  BY <1>1 DEF Sends, Placed
<1>4. Consented(RecoveredRows, RecoveredAttempts, requests, worker, telegram)
  BY <1>1, <1>2 DEF Sends, Consented
<1> QED BY <1>3, <1>4 DEF Sends

-----------------------------------------------------------------------------
\* A row may be given up, or change while nothing of it shows.
LEMMA RowsKeepStore ==
    ASSUME NEW R, NEW A, NEW T, NEW now, Store(R, A, T, now), NEW R2 \in [Delivery -> Row],
           \A d \in Delivery : R2[d] = R[d] \/ R2[d].state \notin Shows
    PROVE  Store(R2, A, T, now)
<1>1. Typed(R2, A, T)
  BY DEF Store, Typed
<1>2. Follows(R2, A)
  BY DEF Store, Follows
<1> QED BY <1>1, <1>2 DEF Store

\* A row that does not wait for consent may change.
LEMMA RowsKeepSends ==
    ASSUME NEW R, NEW A, NEW Q, NEW W, NEW G, Sends(R, A, Q, W, G), NEW R2,
           \A d \in Delivery : R2[d] = R[d] \/ R[d].state \notin {"sending", "unknown", "accepted"}
    PROVE  Sends(R2, A, Q, W, G)
<1>1. Consented(R2, A, Q, W, G)
  <2> HIDE DEF Exposed, Covered
  <2> QED BY DEF Sends, Consented
<1> QED BY <1>1 DEF Sends

\* Consent is not needed for less.
LEMMA LessExposed ==
    ASSUME NEW R, NEW A, NEW Q, NEW W, NEW G, Consented(R, A, Q, W, G), NEW W2, NEW G2,
           \A d \in Delivery : \A i \in 1 .. Len(A[d]) : Exposed(W2, G2, d, i) => Exposed(W, G, d, i)
    PROVE  Consented(R, A, Q, W2, G2)
<1> HIDE DEF Exposed, Covered
<1> QED BY DEF Consented

\* The worker is between two deliveries, or at its start.
LEMMA WorkerIdles ==
    ASSUME NEW R, NEW A, NEW Q, NEW W, NEW G, Sends(R, A, Q, W, G), NEW W2,
           W2.pc \notin Sending, W2.outcome.retryable => W2.outcome.state = "failed"
    PROVE  Sends(R, A, Q, W2, G)
<1>1. Placed(A, W2, G)
  BY DEF Sends, Placed, Sending
<1>2. Consented(R, A, Q, W, G)
  BY DEF Sends
<1>3. \A d \in Delivery : \A i \in 1 .. Len(A[d]) : Exposed(W2, G, d, i) => Exposed(W, G, d, i)
  BY DEF Exposed, Sending
<1>4. Consented(R, A, Q, W2, G)
  BY <1>2, <1>3, LessExposed
<1> QED BY <1>1, <1>4 DEF Sends

\* The beginning of a tick, and a step of it outside a send.
LEMMA WorkerMoves ==
    ASSUME Around
    PROVE  /\ AtStart \in [pc : Place, at : Attempt \cup {NoAttempt}, outcome : Outcome]
           /\ AtStart.pc \notin Sending /\ ~AtStart.outcome.retryable
           /\ \A place \in Place : [worker EXCEPT !.pc = place] \in
                [pc : Place, at : Attempt \cup {NoAttempt}, outcome : Outcome]
           /\ \A place : [worker EXCEPT !.pc = place].pc = place
           /\ \A place : [worker EXCEPT !.pc = place].outcome = worker.outcome
           /\ \A place : [worker EXCEPT !.pc = place].at = worker.at
BY DEF Around, AtStart, Place, Outcome, Unknown, Sending

\* Time passes, and no attempt gets a later deadline.
LEMMA TickKeeps == ASSUME NotifyInv, Tick PROVE NotifyInv'
<1>1. Around'
  BY DEF NotifyInv, Around, Tick, Configured
<1>2. Throttled(attempts, throttle, clock + 1)
  <2> SUFFICES ASSUME NEW d \in Delivery, NEW i \in 1 .. Len(attempts[d])
               PROVE  /\ attempts[d][i].started + Interval <= throttle[attempts[d][i].chat].next
                      /\ attempts[d][i].state \in {"sending", "unknown"}
                         /\ clock + 1 < attempts[d][i].deadline =>
                            throttle[attempts[d][i].chat].busy = <<d, i>>
                      /\ attempts[d][i].recovered => attempts[d][i].deadline <= clock + 1
    BY DEF Throttled
  <2>1. attempts[d][i].deadline \in Nat /\ clock \in Nat
    BY AttemptOf DEF NotifyInv, Store, Typed, Around, AttemptRow
  <2>2. Throttled(attempts, throttle, clock)
    BY DEF NotifyInv, Store
  <2>3. /\ attempts[d][i].started + Interval <= throttle[attempts[d][i].chat].next
        /\ attempts[d][i].state \in {"sending", "unknown"} /\ clock < attempts[d][i].deadline =>
              throttle[attempts[d][i].chat].busy = <<d, i>>
        /\ attempts[d][i].recovered => attempts[d][i].deadline <= clock
    BY <2>2 DEF Throttled
  <2> QED BY <2>1, <2>3
<1>3. Store(rows, attempts, throttle, clock)'
  BY <1>2 DEF NotifyInv, Store, Tick
<1>4. Sends(rows, attempts, requests, worker, telegram)'
  BY DEF NotifyInv, Tick
<1> QED BY <1>1, <1>3, <1>4 DEF NotifyInv

\* A user whose plan changes changes no table.
LEMMA EligibilityKeeps == ASSUME NotifyInv, NEW d \in Delivery, EligibilityChanges(d) PROVE NotifyInv'
<1>1. Around'
  BY DEF NotifyInv, Around, EligibilityChanges, Configured
<1>2. Store(rows, attempts, throttle, clock)'
  BY DEF NotifyInv, EligibilityChanges
<1>3. Sends(rows, attempts, requests, worker, telegram)'
  BY DEF NotifyInv, EligibilityChanges
<1> QED BY <1>1, <1>2, <1>3 DEF NotifyInv

\* A cancelled row.
LEMMA CancelledIs ==
    ASSUME NEW row \in Row
    PROVE  /\ Cancelled(row) \in Row /\ Cancelled(row).state = "cancelled"
           /\ Cancelled(row).accepted_once = row.accepted_once
BY DEF Row, RowState, Cancelled

\* New settings cancel only rows that are queued.
LEMMA SettingsKeep == ASSUME NotifyInv, NEW new \in Settings, update_settings(new) PROVE NotifyInv'
<1>1. new \in [enabled : BOOLEAN, chat : Chat \cup {NoChat}, token : BOOLEAN]
  BY NotificationAssumption
<1>2. Around'
  BY <1>1 DEF NotifyInv, Around, update_settings, Configured, MayEnable
<1>3. rows \in [Delivery -> Row]
  BY DEF NotifyInv, Store, Typed
<1>4. /\ rows' \in [Delivery -> Row]
      /\ \A d \in Delivery : rows'[d] = rows[d]
            \/ (rows[d].state = "queued" /\ rows'[d].state = "cancelled")
  BY <1>3, CancelledIs DEF update_settings
<1>5. Store(rows', attempts, throttle, clock)
  BY <1>4, RowsKeepStore DEF NotifyInv, Shows
<1>6. Sends(rows', attempts, requests, worker, telegram)
  BY <1>4, RowsKeepSends DEF NotifyInv
<1>7. Store(rows, attempts, throttle, clock)' /\ Sends(rows, attempts, requests, worker, telegram)'
  BY <1>5, <1>6 DEF update_settings
<1> QED BY <1>2, <1>7 DEF NotifyInv

\* A test is queued in a row of its own.
LEMMA TestKeeps == ASSUME NotifyInv, NEW d \in Delivery, enqueue_test(d) PROVE NotifyInv'
<1>1. Around'
  BY DEF NotifyInv, Around, enqueue_test, Configured
<1>2. rows \in [Delivery -> Row] /\ Queued(clock) \in Row /\ Queued(clock).state = "queued"
  BY DEF NotifyInv, Store, Typed, Around, Row, RowState, Queued
<1>3. /\ rows' \in [Delivery -> Row]
      /\ \A e \in Delivery : rows'[e] = rows[e]
            \/ (rows[e].state = "none" /\ rows'[e].state = "queued")
  BY <1>2 DEF enqueue_test
<1>4. Store(rows', attempts, throttle, clock)
  BY <1>3, RowsKeepStore DEF NotifyInv, Shows
<1>5. Sends(rows', attempts, requests, worker, telegram)
  BY <1>3, RowsKeepSends DEF NotifyInv
<1>6. Store(rows, attempts, throttle, clock)' /\ Sends(rows, attempts, requests, worker, telegram)'
  BY <1>4, <1>5 DEF enqueue_test
<1> QED BY <1>1, <1>6 DEF NotifyInv

-----------------------------------------------------------------------------
\* The worker's steps before a claim keep the invariant.
LEMMA SkipScanKeeps == ASSUME NotifyInv, SkipScan PROVE NotifyInv'
<1>1. worker' = [worker EXCEPT !.pc = "claim"] /\ Around
  BY DEF NotifyInv, SkipScan, Goes
<1>2. Around'
  BY <1>1, WorkerMoves DEF Around, SkipScan, Configured, Place
<1>3. Sends(rows, attempts, requests, worker, telegram)
  BY DEF NotifyInv
<1>4. worker'.pc \notin Sending /\ worker'.outcome = worker.outcome
  BY <1>1, WorkerMoves DEF Sending
<1>5. Sends(rows, attempts, requests, worker', telegram)
  <2>1. worker.outcome.retryable => worker.outcome.state = "failed"
    BY <1>3 DEF Sends, Placed
  <2> QED BY <1>3, <1>4, <2>1, WorkerIdles
<1> QED BY <1>2, <1>5 DEF NotifyInv, SkipScan, store

\* A scan queues only rows that were never attempted, or hold no result.
LEMMA ScanKeeps == ASSUME NotifyInv, scan PROVE NotifyInv'
<1>1. worker' = [worker EXCEPT !.pc = "claim"] /\ Around
  BY DEF NotifyInv, scan, Goes
<1>2. Around'
  BY <1>1, WorkerMoves DEF Around, scan, Configured, Place
<1>3. rows \in [Delivery -> Row] /\ Queued(clock) \in Row /\ Queued(clock).state = "queued"
  BY DEF NotifyInv, Store, Typed, Around, Row, RowState, Queued
<1>4. \A d \in Delivery : [rows[d] EXCEPT !.state = "queued", !.next = clock] \in Row
                          /\ [rows[d] EXCEPT !.state = "queued", !.next = clock].state = "queued"
  BY <1>1, <1>3, ZenonT(60) DEF Around, Row, RowState
<1>5. /\ rows' \in [Delivery -> Row]
      /\ \A d \in Delivery : rows'[d] = rows[d]
            \/ (rows[d].state \in {"none", "cancelled"} /\ rows'[d].state = "queued")
  BY <1>3, <1>4 DEF scan, Revivable
<1>6. Store(rows', attempts, throttle, clock)
  BY <1>5, RowsKeepStore DEF NotifyInv, Shows
<1>7. Sends(rows', attempts, requests, worker, telegram)
  BY <1>5, RowsKeepSends DEF NotifyInv
<1>8. Sends(rows', attempts, requests, worker', telegram)
  <2>1. worker'.pc \notin Sending /\ worker'.outcome = worker.outcome
    BY <1>1, WorkerMoves DEF Sending
  <2>2. worker.outcome.retryable => worker.outcome.state = "failed"
    BY <1>7 DEF Sends, Placed
  <2> QED BY <1>7, <2>1, <2>2, WorkerIdles
<1> QED BY <1>2, <1>6, <1>8 DEF NotifyInv, scan

\* Recovery at the start of a tick.
LEMMA RecoverKeeps == ASSUME NotifyInv, recover PROVE NotifyInv'
<1>1. worker' = [worker EXCEPT !.pc = "scan"] /\ Around /\ Typed(rows, attempts, throttle)
  BY DEF NotifyInv, recover, Goes, Store
<1>2. Around'
  BY <1>1, WorkerMoves DEF Around, recover, Configured, Place
<1>3. Store(RecoveredRows, RecoveredAttempts, RecoveredChats, clock)
  BY RecoveryKeepsStore DEF NotifyInv
<1>4. Sends(RecoveredRows, RecoveredAttempts, requests, worker, telegram)
  BY <1>1, RecoveryKeepsSends DEF NotifyInv
<1>5. Sends(RecoveredRows, RecoveredAttempts, requests, worker', telegram)
  <2>1. worker'.pc \notin Sending /\ worker'.outcome = worker.outcome
    BY <1>1, WorkerMoves DEF Sending
  <2>2. worker.outcome.retryable => worker.outcome.state = "failed"
    BY <1>4 DEF Sends, Placed
  <2> QED BY <1>4, <2>1, <2>2, WorkerIdles
<1> QED BY <1>2, <1>3, <1>5 DEF NotifyInv, recover

\* A claim that finds nothing recovers, and cancels rows that were queued.
LEMMA ClaimNothingKeeps == ASSUME NotifyInv, ClaimNothing PROVE NotifyInv'
<1>1. worker' = AtStart /\ Around /\ Typed(rows, attempts, throttle)
  BY DEF NotifyInv, ClaimNothing, Store
<1>2. Around'
  BY <1>1, WorkerMoves DEF Around, ClaimNothing, Configured
<1>3. Store(RecoveredRows, RecoveredAttempts, RecoveredChats, clock)
  BY RecoveryKeepsStore DEF NotifyInv
<1>4. Sends(RecoveredRows, RecoveredAttempts, requests, worker, telegram)
  BY <1>1, RecoveryKeepsSends DEF NotifyInv
<1>5. Sends(RecoveredRows, RecoveredAttempts, requests, worker', telegram)
  BY <1>1, <1>4, WorkerIdles, WorkerMoves
<1>6. /\ rows' \in [Delivery -> Row]
      /\ \A e \in Delivery : rows'[e] = RecoveredRows[e]
            \/ (RecoveredRows[e].state = "queued" /\ rows'[e].state = "cancelled")
  BY <1>1, RecoveredRowIs, CancelledIs DEF ClaimNothing, Due
<1>7. Store(rows', RecoveredAttempts, RecoveredChats, clock)
  BY <1>3, <1>6, RowsKeepStore DEF Shows
<1>8. Sends(rows', RecoveredAttempts, requests, worker', telegram)
  BY <1>5, <1>6, RowsKeepSends
<1> QED BY <1>2, <1>7, <1>8 DEF NotifyInv, ClaimNothing

\* Whatever the worker forgets, the tables keep.
LEMMA AbandonKeeps == ASSUME NotifyInv, Abandon PROVE NotifyInv'
<1>1. worker' = AtStart /\ Around
  BY DEF NotifyInv, Abandon
<1>2. Around'
  BY <1>1, WorkerMoves DEF Around, Abandon, Configured
<1>3. Sends(rows, attempts, requests, worker', telegram)
  BY <1>1, WorkerIdles, WorkerMoves DEF NotifyInv
<1> QED BY <1>2, <1>3 DEF NotifyInv, Abandon, store

\* The worker goes on with a send: whatever it learns, no more is exposed than before.
LEMMA SenderMoves ==
    ASSUME NEW R, NEW A, NEW Q, NEW W, NEW G, Sends(R, A, Q, W, G), NEW W2, NEW G2,
           W.pc \in Sending, W2.pc \in Sending, W2.at = W.at, Placed(A, W2, G2),
           \A d \in Delivery : \A i \in 1 .. Len(A[d]) :
              G2[<<d, i>>] \in {"posted", "delivered"} =>
                  G[<<d, i>>] \in {"posted", "delivered"}
                  \/ (W.at = <<d, i>> /\ W.pc \in {"check", "connect"}),
           W2.pc \in {"check", "connect"} => W.pc \in {"check", "connect"}
    PROVE  Sends(R, A, Q, W2, G2)
<1>1. \A d \in Delivery : \A i \in 1 .. Len(A[d]) : Exposed(W2, G2, d, i) => Exposed(W, G, d, i)
  BY DEF Exposed
<1>2. Consented(R, A, Q, W2, G2)
  BY <1>1, LessExposed DEF Sends
<1> QED BY <1>2 DEF Sends

\* A worker that may begin to send.
LEMMA CheckLeaseKeeps == ASSUME NotifyInv, CheckLease PROVE NotifyInv'
<1>1. Around /\ Placed(attempts, worker, telegram) /\ worker.pc = "check"
      /\ Sends(rows, attempts, requests, worker, telegram)
  BY DEF NotifyInv, Sends, CheckLease
<1>2. \/ worker' = [worker EXCEPT !.pc = "receipt", !.outcome = NotSent]
      \/ worker' = [worker EXCEPT !.pc = "connect"]
  BY DEF CheckLease
<1>3. /\ worker' \in [pc : Place, at : Attempt \cup {NoAttempt}, outcome : Outcome]
      /\ worker'.at = worker.at /\ worker'.pc \in {"receipt", "connect"}
      /\ worker'.outcome.retryable => worker'.outcome.state = "failed"
  <2>1. NotSent \in Outcome /\ NotSent.state = "failed"
    BY DEF NotSent, Outcome
  <2>2. worker.outcome.retryable => worker.outcome.state = "failed"
    BY <1>1 DEF Placed
  <2>3. CASE worker' = [worker EXCEPT !.pc = "receipt", !.outcome = NotSent]
    <3> HIDE DEF NotSent
    <3> QED BY <1>1, <2>1, <2>3 DEF Around, Place
  <2>4. CASE worker' = [worker EXCEPT !.pc = "connect"]
    BY <1>1, <2>2, <2>4, WorkerMoves DEF Place
  <2> QED BY <1>2, <2>3, <2>4
<1>4. Around'
  BY <1>1, <1>3 DEF Around, CheckLease, Configured
<1>5. Placed(attempts, worker', telegram)
  BY <1>1, <1>3 DEF Placed, Sending
<1>6. Sends(rows, attempts, requests, worker', telegram)
  BY <1>1, <1>3, <1>5, SenderMoves DEF Sending
<1> QED BY <1>4, <1>6 DEF NotifyInv, CheckLease, store

\* The worker has an outcome, which is a failure only when nothing can arrive.
LEMMA ReceivesKeeps ==
    ASSUME NotifyInv, NEW outcome \in Outcome, worker.pc \in {"connect", "response"},
           Receives(outcome), UNCHANGED <<clock, settings, eligible, store, requests, telegram>>,
           outcome.retryable => outcome.state = "failed",
           outcome.state = "failed" => telegram[worker.at] \in {"none", "rejected"}
    PROVE  NotifyInv'
<1>1. Around /\ Placed(attempts, worker, telegram) /\ Sends(rows, attempts, requests, worker, telegram)
  BY DEF NotifyInv, Sends
<1>2. /\ worker' \in [pc : Place, at : Attempt \cup {NoAttempt}, outcome : Outcome]
      /\ worker'.at = worker.at /\ worker'.pc = "receipt" /\ worker'.outcome = outcome
  BY <1>1 DEF Around, Place, Receives
<1>3. Around'
  BY <1>1, <1>2 DEF Around, Configured
<1>4. Placed(attempts, worker', telegram)
  BY <1>1, <1>2 DEF Placed, Sending
<1>5. Sends(rows, attempts, requests, worker', telegram)
  BY <1>1, <1>2, <1>4, SenderMoves DEF Sending
<1> QED BY <1>3, <1>5 DEF NotifyInv, store

\* No connection, an answer, or an interruption.
LEMMA OutcomesKeep ==
    ASSUME NotifyInv,
           \/ \E outcome \in {NotSent, Rejected} : ConnectFails(outcome)
           \/ Answer
           \/ Interrupted
    PROVE  NotifyInv'
<1>0. /\ NotSent \in Outcome /\ Rejected \in Outcome /\ Unknown \in Outcome /\ Accepted \in Outcome
      /\ NotSent.state = "failed" /\ ~Rejected.retryable /\ ~Unknown.retryable /\ ~Accepted.retryable
      /\ Unknown.state = "unknown" /\ Accepted.state = "accepted"
  BY DEF NotSent, Rejected, Unknown, Accepted, Outcome
<1>1. \A n \in RetryAfter : RateLimited(n) \in Outcome /\ RateLimited(n).state = "failed"
  BY NotificationAssumption DEF RateLimited, Outcome
<1>2. CASE \E outcome \in {NotSent, Rejected} : ConnectFails(outcome)
  <2>1. PICK outcome \in {NotSent, Rejected} : ConnectFails(outcome)
    BY <1>2
  <2>2. telegram[worker.at] = "none"
    BY <2>1 DEF ConnectFails, NotifyInv, Sends, Placed
  <2> QED BY <1>0, <2>1, <2>2, ReceivesKeeps DEF ConnectFails
<1>3. CASE Answer
  <2>1. PICK outcome \in Answers : Receives(outcome)
    BY <1>3 DEF Answer
  <2>2. CASE telegram[worker.at] = "rejected"
    <3>1. outcome \in Outcome /\ (outcome.retryable => outcome.state = "failed")
      BY <1>0, <1>1, <2>1, <2>2 DEF Answers, Lost
    <3> QED BY <1>3, <2>1, <2>2, <3>1, ReceivesKeeps DEF Answer
  <2>3. CASE telegram[worker.at] # "rejected"
    <3>1. outcome \in {Unknown, Accepted}
      BY <2>1, <2>3 DEF Answers, Lost
    <3> QED BY <1>0, <1>3, <2>1, <3>1, ReceivesKeeps DEF Answer
  <2> QED BY <2>2, <2>3
<1>4. CASE Interrupted
  BY <1>0, <1>4, ReceivesKeeps DEF Interrupted
<1> QED BY <1>2, <1>3, <1>4

\* The request is on the wire: it was counted as exposed since the claim.
LEMMA PostKeeps == ASSUME NotifyInv, Post PROVE NotifyInv'
<1>1. Around /\ Placed(attempts, worker, telegram) /\ Sends(rows, attempts, requests, worker, telegram)
      /\ worker.pc = "connect" /\ worker' = [worker EXCEPT !.pc = "response"]
      /\ telegram' = [telegram EXCEPT ![worker.at] = "posted"]
      /\ Typed(rows, attempts, throttle)
  BY DEF NotifyInv, Sends, Post, Goes, Store
<1>2. PICK d \in Delivery : Len(attempts[d]) > 0 /\ worker.at = <<d, Len(attempts[d])>>
  BY <1>1 DEF Placed, Sending
<1>3. /\ worker' \in [pc : Place, at : Attempt \cup {NoAttempt}, outcome : Outcome]
      /\ worker'.at = worker.at /\ worker'.pc = "response" /\ worker'.outcome = worker.outcome
  BY <1>1, WorkerMoves DEF Place
<1>4. telegram' \in [Attempt -> {"none", "posted", "delivered", "rejected"}]
  BY <1>1 DEF Around
<1>5. Around'
  BY <1>1, <1>3, <1>4 DEF Around, Post, Configured
<1>6. /\ Len(attempts[d]) \in Nat
      /\ \A e \in Delivery : \A i \in 1 .. MaxAttempts :
            telegram'[<<e, i>>] # telegram[<<e, i>>] => <<e, i>> = worker.at
  <2>1. Len(attempts[d]) \in Nat
    BY <1>1, AttemptOf DEF Typed
  <2>2. \A x \in Attempt : telegram'[x] # telegram[x] => x = worker.at
    BY <1>1 DEF Around
  <2>3. \A e \in Delivery : \A i \in 1 .. MaxAttempts : <<e, i>> \in Attempt
    BY DEF Attempt
  <2> QED BY <2>1, <2>2, <2>3
<1>8. Placed(attempts, worker', telegram')
  <2>1. ASSUME NEW e \in Delivery, NEW i \in 1 .. MaxAttempts, i > Len(attempts[e])
        PROVE  telegram'[<<e, i>>] = "none"
    BY <1>1, <1>2, <1>6, <2>1 DEF Placed
  <2>2. worker'.outcome.retryable => worker'.outcome.state = "failed"
    BY <1>1, <1>3 DEF Placed
  <2> QED BY <1>2, <1>3, <2>1, <2>2 DEF Placed, Sending
<1>9. ASSUME NEW e \in Delivery, NEW i \in 1 .. Len(attempts[e]),
             telegram'[<<e, i>>] \in {"posted", "delivered"}
      PROVE  telegram[<<e, i>>] \in {"posted", "delivered"}
             \/ (worker.at = <<e, i>> /\ worker.pc \in {"check", "connect"})
  <2>1. i \in 1 .. MaxAttempts
    BY <1>1, AttemptOf, NotificationAssumption DEF Typed
  <2> QED BY <1>1, <1>6, <1>9, <2>1
<1>10. Sends(rows, attempts, requests, worker', telegram')
  <2>1. PICK W2, G2 : W2 = worker' /\ G2 = telegram'
    OBVIOUS
  <2>2. /\ worker.pc \in Sending /\ W2.pc \in Sending /\ W2.at = worker.at
        /\ W2.pc \notin {"check", "connect"} /\ Placed(attempts, W2, G2)
    BY <1>1, <1>3, <1>8, <2>1 DEF Sending
  <2>3. \A e \in Delivery : \A i \in 1 .. Len(attempts[e]) :
            G2[<<e, i>>] \in {"posted", "delivered"} =>
                telegram[<<e, i>>] \in {"posted", "delivered"}
                \/ (worker.at = <<e, i>> /\ worker.pc \in {"check", "connect"})
    BY <1>9, <2>1
  <2>4. Sends(rows, attempts, requests, W2, G2)
    BY <1>1, <2>2, <2>3, SenderMoves
  <2> QED BY <2>1, <2>4
<1> QED BY <1>5, <1>10 DEF NotifyInv, Post, store

\* Telegram gets to a request.
LEMMA TelegramKeeps ==
    ASSUME NotifyInv, NEW id \in Attempt, NEW fate \in {"delivered", "rejected"},
           TelegramDecides(id, fate)
    PROVE  NotifyInv'
<1>1. Around /\ Placed(attempts, worker, telegram)
      /\ Consented(rows, attempts, requests, worker, telegram)
      /\ telegram[id] = "posted" /\ telegram' = [telegram EXCEPT ![id] = fate]
      /\ Typed(rows, attempts, throttle)
  BY DEF NotifyInv, Sends, TelegramDecides, Store
<1>2. telegram' \in [Attempt -> {"none", "posted", "delivered", "rejected"}]
  BY <1>1 DEF Around
<1>3. Around'
  BY <1>1, <1>2 DEF Around, TelegramDecides, Configured
<1>4. \A x \in Attempt : telegram'[x] = telegram[x] \/ telegram[x] = "posted"
  BY <1>1 DEF Around
<1>5. \A e \in Delivery : \A i \in 1 .. MaxAttempts : <<e, i>> \in Attempt
  BY DEF Attempt
<1>6. worker.pc \in Sending => worker.at \in Attempt
  <2> SUFFICES ASSUME worker.pc \in Sending PROVE worker.at \in Attempt
    OBVIOUS
  <2>1. PICK e \in Delivery : Len(attempts[e]) > 0 /\ worker.at = <<e, Len(attempts[e])>>
    BY <1>1 DEF Placed
  <2>2. Len(attempts[e]) \in 1 .. MaxAttempts
    BY <1>1, <2>1, AttemptOf, NotificationAssumption DEF Typed
  <2> QED BY <2>1, <2>2 DEF Attempt
<1>7. Placed(attempts, worker, telegram')
  <2>1. \A e \in Delivery : \A i \in 1 .. MaxAttempts : i > Len(attempts[e]) => telegram'[<<e, i>>] = "none"
    BY <1>1, <1>4, <1>5 DEF Placed
  <2>2. worker.pc \in {"check", "connect"} => telegram'[worker.at] = "none"
    BY <1>1, <1>4, <1>6 DEF Placed, Sending
  <2>3. worker.pc = "receipt" /\ worker.outcome.state = "failed" =>
            telegram'[worker.at] \in {"none", "rejected"}
    BY <1>1, <1>4, <1>6 DEF Placed, Sending
  <2> QED BY <1>1, <2>1, <2>2, <2>3 DEF Placed
<1>8. ASSUME NEW e \in Delivery, NEW i \in 1 .. Len(attempts[e]), Exposed(worker, telegram', e, i)
      PROVE  Exposed(worker, telegram, e, i)
  <2>1. i \in 1 .. MaxAttempts
    BY <1>1, AttemptOf, NotificationAssumption DEF Typed
  <2> QED BY <1>4, <1>5, <1>8, <2>1 DEF Exposed
<1>9. Consented(rows, attempts, requests, worker, telegram')
  BY <1>1, <1>8, LessExposed
<1> QED BY <1>3, <1>7, <1>9 DEF NotifyInv, Sends, TelegramDecides, store

-----------------------------------------------------------------------------
\* Consent given for some attempts is consent for more, and no request is taken back.
LEMMA CoveredGrows ==
    ASSUME NEW Q, NEW Q2, NEW d, NEW i \in Nat, NEW k \in Nat, NEW m \in Nat, k <= m,
           \A q \in Request : Q[q] # NoRequest => Q2[q] = Q[q], Covered(Q, d, i, k)
    PROVE  Covered(Q2, d, i, m)
<1>1. PICK q \in Request : Q[q] # NoRequest /\ Q[q].delivery = d /\ Q[q].confirmed /\ Q[q].seen \in i .. k
  BY DEF Covered
<1>2. Q2[q] = Q[q] /\ Q[q].seen \in i .. m
  BY <1>1
<1> QED BY <1>1, <1>2 DEF Covered

\* A retry queues a row again.  If its last attempt may have arrived, the request says so.
LEMMA RetryKeeps ==
    ASSUME NotifyInv, NEW q \in Request, NEW d \in Delivery, NEW seen \in 1 .. MaxAttempts,
           NEW confirmed \in BOOLEAN, retry(q, d, seen, confirmed)
    PROVE  NotifyInv'
<1> DEFINE new == [delivery |-> d, seen |-> seen, confirmed |-> confirmed]
           again == [RecoveredRow(d) EXCEPT !.state = "queued", !.next = clock, !.generation = @ + 1]
<1>1. /\ Around /\ Typed(rows, attempts, throttle)
      /\ requests[q] = NoRequest /\ seen = Len(attempts[d]) /\ Len(attempts[d]) > 0
      /\ RecoveredRow(d).state \in {"unknown", "failed"}
      /\ RecoveredRow(d).state = "unknown" => confirmed
      /\ rows' = [RecoveredRows EXCEPT ![d] = again]
      /\ attempts' = RecoveredAttempts /\ throttle' = RecoveredChats
      /\ requests' = [requests EXCEPT ![q] = new]
      /\ UNCHANGED <<clock, settings, eligible, worker, telegram>>
  BY DEF retry, NotifyInv, Store, SeenIsLast, Confirms
<1>2. new \in Retry /\ new # NoRequest
  BY NoValueAssumption DEF Retry
<1>3. requests' \in [Request -> Retry \cup {NoRequest}]
  BY <1>1, <1>2 DEF Around
<1>4. Around'
  BY <1>1, <1>3 DEF Around, Configured
<1>5. again \in Row /\ again.state = "queued"
  <2>1. PICK r \in Row : r = RecoveredRow(d)
    BY <1>1, RecoveredRowIs
  <2>2. again = [r EXCEPT !.state = "queued", !.next = clock, !.generation = r.generation + 1]
    BY <2>1
  <2>3. clock \in Nat
    BY <1>1 DEF Around
  <2>4. PICK g \in Nat : g = r.generation + 1
    BY DEF Row
  <2>5. /\ [r EXCEPT !.state = "queued", !.next = clock, !.generation = g] \in Row
        /\ [r EXCEPT !.state = "queued", !.next = clock, !.generation = g].state = "queued"
    BY <2>3 DEF Row, RowState
  <2> HIDE DEF again
  <2> QED BY <2>2, <2>4, <2>5
<1>6. RecoveredRows \in [Delivery -> Row]
  BY <1>1, RecoveredRowIs DEF RecoveredRows
<1>7. rows' \in [Delivery -> Row] /\ \A e \in Delivery : rows'[e] = RecoveredRows[e] \/ rows'[e].state = "queued"
  <2> HIDE DEF again
  <2> QED BY <1>1, <1>5, <1>6
<1>8. Store(RecoveredRows, RecoveredAttempts, RecoveredChats, clock)
  BY RecoveryKeepsStore DEF NotifyInv
<1>9. Store(rows', RecoveredAttempts, RecoveredChats, clock)
  BY <1>7, <1>8, RowsKeepStore DEF Shows
<1>10. Sends(RecoveredRows, RecoveredAttempts, requests, worker, telegram)
  BY <1>1, RecoveryKeepsSends DEF NotifyInv
<1>11. Consented(rows', RecoveredAttempts, requests', worker, telegram)
  <2> SUFFICES ASSUME NEW e \in Delivery, NEW i \in 1 .. Len(RecoveredAttempts[e]),
                      Exposed(worker, telegram, e, i)
               PROVE  /\ Covered(requests', e, i, Len(RecoveredAttempts[e]))
                         \/ (i = Len(RecoveredAttempts[e])
                             /\ rows'[e].state \in {"sending", "unknown", "accepted"})
                      /\ \A j \in i + 1 .. Len(RecoveredAttempts[e]) : Covered(requests', e, i, j - 1)
    BY DEF Consented
  <2> DEFINE k == Len(RecoveredAttempts[e])
  <2>1. /\ Covered(requests, e, i, k)
           \/ (i = k /\ RecoveredRows[e].state \in {"sending", "unknown", "accepted"})
        /\ \A j \in i + 1 .. k : Covered(requests, e, i, j - 1)
    BY <1>10 DEF Sends, Consented
  <2>2. k \in Nat /\ i \in Nat /\ k = Len(attempts[e])
    <3>1. Len(attempts[e]) \in Nat
      BY <1>1, AttemptOf DEF Typed
    <3>2. Len(RecoveredAttempts[e]) = Len(attempts[e])
      BY <1>1, RecoveredAttemptsAre
    <3> QED BY <3>1, <3>2
  <2>3. \A p \in Request : requests[p] # NoRequest => requests'[p] = requests[p]
    BY <1>1 DEF Around
  <2>4. \A m \in Nat : Covered(requests, e, i, m) => Covered(requests', e, i, m)
    BY <2>2, <2>3, CoveredGrows
  <2>5. \A j \in i + 1 .. k : j - 1 \in Nat
    BY <2>2
  <2>6. CASE e # d
    <3>1. rows'[e] = RecoveredRows[e]
      BY <1>1, <1>6, <2>6
    <3> HIDE DEF k, Covered
    <3> QED BY <2>1, <2>2, <2>4, <2>5, <3>1 DEF k
  <2>7. CASE e = d
    <3>1. CASE Covered(requests, e, i, k)
      <4> HIDE DEF k, Covered
      <4> QED BY <2>1, <2>2, <2>4, <2>5, <3>1 DEF k
    <3>2. CASE ~Covered(requests, e, i, k)
      <4>1. i = k /\ RecoveredRows[d].state \in {"sending", "unknown", "accepted"}
        BY <2>1, <2>7, <3>2
      <4>2. RecoveredRow(d).state = "unknown"
        BY <1>1, <4>1, RecoveredRowIs
      <4>3. requests'[q] = new /\ confirmed
        BY <1>1, <4>2 DEF Around
      <4>4. Covered(requests', e, i, k)
        BY <1>1, <1>2, <2>2, <2>7, <4>1, <4>3 DEF Covered
      <4> HIDE DEF k, Covered
      <4> QED BY <2>1, <2>2, <2>4, <2>5, <4>4 DEF k
    <3> QED BY <3>1, <3>2
  <2> QED BY <2>6, <2>7
<1>12. Sends(rows', RecoveredAttempts, requests', worker, telegram)
  BY <1>10, <1>11 DEF Sends
<1> QED BY <1>1, <1>4, <1>9, <1>12 DEF NotifyInv

-----------------------------------------------------------------------------
\* One more attempt of a delivery.
LEMMA Appended ==
    ASSUME NEW A \in [Delivery -> Seq(AttemptRow)], NEW d \in Delivery, NEW a \in AttemptRow,
           NEW B, B = [A EXCEPT ![d] = Append(@, a)]
    PROVE  /\ B \in [Delivery -> Seq(AttemptRow)]
           /\ Len(B[d]) = Len(A[d]) + 1 /\ B[d][Len(A[d]) + 1] = a
           /\ \A e \in Delivery : e # d => B[e] = A[e]
           /\ \A i \in 1 .. Len(A[d]) : B[d][i] = A[d][i]
<1>1. A[d] \in Seq(AttemptRow) /\ B[d] = Append(A[d], a)
  OBVIOUS
<1>2. /\ Append(A[d], a) \in Seq(AttemptRow) /\ Len(Append(A[d], a)) = Len(A[d]) + 1
      /\ \A i \in 1 .. Len(A[d]) : Append(A[d], a)[i] = A[d][i]
      /\ Append(A[d], a)[Len(A[d]) + 1] = a
  BY <1>1, AppendProperties
<1> QED BY <1>1, <1>2

\* What ends before the next message may start has ended when that time has come.
LEMMA PassedBy ==
    ASSUME NEW started \in Nat, NEW span \in Nat, NEW next \in Nat, NEW t \in Nat,
           started + span <= next, next <= t
    PROVE  started + span <= t
OBVIOUS

\* A message does not start again before the time that the one before it takes has passed.
LEMMA NotYet ==
    ASSUME NEW started \in Nat, NEW span \in Nat, NEW t \in Nat,
           span > 0, started + span <= t
    PROVE  ~(t <= started)
OBVIOUS

\* A free chat takes a new attempt: those before it started an interval ago and cannot arrive any more.
LEMMA ClaimSpaces ==
    ASSUME NEW A \in [Delivery -> Seq(AttemptRow)], NEW T \in [Chat -> Chats], NEW now \in Nat,
           Spaced(A), Throttled(A, T, now), Resolved(A), \A e \in Delivery : Len(A[e]) <= MaxAttempts,
           NEW d \in Delivery, NEW a \in AttemptRow, a.started = now, ~a.recovered,
           T[a.chat].busy = NoAttempt, T[a.chat].next <= now,
           NEW B, B = [A EXCEPT ![d] = Append(@, a)],
           NEW U, U = [T EXCEPT ![a.chat] = [busy |-> <<d, Len(A[d]) + 1>>, next |-> now + Interval]]
    PROVE  Spaced(B) /\ Throttled(B, U, now) /\ Resolved(B)
<1> DEFINE k == Len(A[d])
<1>0. Interval \in Nat /\ Interval > 0 /\ MaxAttempts \in Nat
  BY NotificationAssumption
<1>1. /\ Len(B[d]) = k + 1 /\ B[d][k + 1] = a /\ k \in Nat
      /\ \A e \in Delivery : e # d => B[e] = A[e]
      /\ \A i \in 1 .. k : B[d][i] = A[d][i]
  BY Appended, AttemptOf
<1>2. a.chat \in Chat /\ a.started \in Nat /\ a.deadline \in Nat
  BY DEF AttemptRow
<1>3. ASSUME NEW e \in Delivery, NEW i \in 1 .. Len(A[e])
      PROVE  /\ B[e][i] = A[e][i] /\ i \in 1 .. Len(B[e]) /\ <<e, i>> # <<d, k + 1>>
             /\ A[e][i].chat \in Chat /\ A[e][i].started \in Nat /\ A[e][i].deadline \in Nat
             /\ A[e][i].chat = a.chat =>
                  /\ A[e][i].started + Interval <= now
                  /\ A[e][i].state \in {"sending", "unknown"} => A[e][i].deadline <= now
  <2>1. A[e][i] \in AttemptRow /\ Len(A[e]) \in Nat
    BY AttemptOf
  <2>2. A[e][i].chat \in Chat /\ A[e][i].started \in Nat /\ A[e][i].deadline \in Nat
    BY <2>1 DEF AttemptRow
  <2>3. <<e, i>> \in Attempt /\ <<e, i>> # NoAttempt
    BY <1>0, <2>1, NoValueAssumption DEF Attempt
  <2>4. ASSUME A[e][i].chat = a.chat
        PROVE  /\ A[e][i].started + Interval <= now
               /\ A[e][i].state \in {"sending", "unknown"} => A[e][i].deadline <= now
    <3>1. /\ A[e][i].started + Interval <= T[a.chat].next
          /\ A[e][i].state \in {"sending", "unknown"} /\ now < A[e][i].deadline => T[a.chat].busy = <<e, i>>
      BY <2>4 DEF Throttled
    <3>2. T[a.chat].next \in Nat
      BY <1>2 DEF Chats
    <3>3. A[e][i].started + Interval <= now
      BY <1>0, <2>2, <3>1, <3>2, PassedBy
    <3>4. ASSUME A[e][i].state \in {"sending", "unknown"}, now < A[e][i].deadline
          PROVE  FALSE
      <4>1. T[a.chat].busy = <<e, i>>
        BY <3>1, <3>4
      <4> QED BY <4>1, <2>3
    <3> QED BY <2>2, <3>3, <3>4
  <2>5. B[e][i] = A[e][i] /\ i \in 1 .. Len(B[e]) /\ <<e, i>> # <<d, k + 1>>
    BY <1>1, <2>1
  <2> QED BY <2>2, <2>4, <2>5
<1>4. ASSUME NEW e \in Delivery, NEW i \in 1 .. Len(B[e])
      PROVE  i \in 1 .. Len(A[e]) \/ (e = d /\ i = k + 1)
  BY <1>1
<1>5. Spaced(B)
  <2> SUFFICES ASSUME NEW e \in Delivery, NEW f \in Delivery,
                      NEW i \in 1 .. Len(B[e]), NEW j \in 1 .. Len(B[f]),
                      <<e, i>> # <<f, j>>, B[e][i].chat = B[f][j].chat, B[e][i].started <= B[f][j].started
               PROVE  /\ B[e][i].started + Interval <= B[f][j].started
                      /\ B[e][i].state \in {"sending", "unknown"} => B[e][i].deadline <= B[f][j].started
    BY ZenonT(60) DEF Spaced
  <2>1. CASE i \in 1 .. Len(A[e]) /\ j \in 1 .. Len(A[f])
    <3>1. B[e][i] = A[e][i] /\ B[f][j] = A[f][j]
      BY <1>3, <2>1
    <3> QED BY <2>1, <3>1 DEF Spaced
  <2>2. CASE i \in 1 .. Len(A[e]) /\ f = d /\ j = k + 1
    <3>1. B[e][i] = A[e][i] /\ B[f][j] = a
      BY <1>1, <1>3, <2>2
    <3> QED BY <1>3, <2>2, <3>1
  <2>3. CASE j \in 1 .. Len(A[f]) /\ e = d /\ i = k + 1
    <3>1. B[f][j] = A[f][j] /\ B[e][i] = a
      BY <1>1, <1>3, <2>3
    <3>2. A[f][j].started + Interval <= now /\ A[f][j].started \in Nat /\ now <= A[f][j].started
      BY <1>3, <2>3, <3>1
    <3> QED BY <1>0, <3>2, NotYet
  <2> QED BY <1>4, <2>1, <2>2, <2>3
<1>6. Throttled(B, U, now)
  <2> SUFFICES ASSUME NEW e \in Delivery, NEW i \in 1 .. Len(B[e])
               PROVE  /\ B[e][i].started + Interval <= U[B[e][i].chat].next
                      /\ B[e][i].state \in {"sending", "unknown"} /\ now < B[e][i].deadline =>
                            U[B[e][i].chat].busy = <<e, i>>
                      /\ B[e][i].recovered => B[e][i].deadline <= now
    BY DEF Throttled
  <2>1. U[a.chat].busy = <<d, k + 1>> /\ U[a.chat].next = now + Interval
    BY <1>2
  <2>2. \A c \in Chat : c # a.chat => U[c] = T[c]
    OBVIOUS
  <2>3. CASE i \in 1 .. Len(A[e])
    <3>1. /\ A[e][i].started + Interval <= T[A[e][i].chat].next
          /\ A[e][i].state \in {"sending", "unknown"} /\ now < A[e][i].deadline =>
                T[A[e][i].chat].busy = <<e, i>>
          /\ A[e][i].recovered => A[e][i].deadline <= now
      BY <2>3 DEF Throttled
    <3>2. CASE A[e][i].chat = a.chat
      <4>1. /\ B[e][i] = A[e][i] /\ A[e][i].started \in Nat /\ A[e][i].deadline \in Nat
            /\ A[e][i].started + Interval <= now
            /\ A[e][i].state \in {"sending", "unknown"} => A[e][i].deadline <= now
        BY <1>3, <2>3, <3>2
      <4>2. B[e][i].started + Interval <= U[B[e][i].chat].next
        <5>1. A[e][i].started + Interval <= now + Interval
          BY <1>0, <4>1
        <5> QED BY <2>1, <3>2, <4>1, <5>1
      <4>3. ~(B[e][i].state \in {"sending", "unknown"} /\ now < B[e][i].deadline)
        BY <4>1
      <4> QED BY <3>1, <4>1, <4>2, <4>3
    <3>3. CASE A[e][i].chat # a.chat
      <4>1. B[e][i] = A[e][i] /\ U[A[e][i].chat] = T[A[e][i].chat]
        BY <1>3, <2>2, <2>3, <3>3
      <4> QED BY <3>1, <4>1
    <3> QED BY <3>2, <3>3
  <2>4. CASE e = d /\ i = k + 1
    <3>1. B[e][i] = a
      BY <1>1, <2>4
    <3> QED BY <1>0, <1>2, <2>1, <2>4, <3>1
  <2> QED BY <1>4, <2>3, <2>4
<1>7. Resolved(B)
  BY <1>1, <1>3, <1>4 DEF Resolved
<1> QED BY <1>5, <1>6, <1>7

\* A claim is made of a queued row, whose exposed attempts have consent.
LEMMA ClaimConsented ==
    ASSUME NEW A \in [Delivery -> Seq(AttemptRow)], NEW R, NEW S, NEW Q, NEW W, NEW X, NEW G,
           Sends(R, A, Q, W, G), NEW d \in Delivery, NEW a \in AttemptRow,
           R[d].state = "queued", S[d].state = "sending", Len(A[d]) < MaxAttempts,
           \A e \in Delivery : e # d => S[e] = R[e] \/ R[e].state = "queued",
           X.pc = "check", X.at = <<d, Len(A[d]) + 1>>, X.outcome = W.outcome,
           NEW B, B = [A EXCEPT ![d] = Append(@, a)]
    PROVE  Sends(S, B, Q, X, G)
<1> DEFINE k == Len(A[d])
<1>1. /\ Len(B[d]) = k + 1 /\ k \in Nat /\ MaxAttempts \in Nat
      /\ \A e \in Delivery : e # d => B[e] = A[e]
  BY Appended, AttemptOf, NotificationAssumption
<1>2. Placed(A, W, G) /\ Consented(R, A, Q, W, G)
  BY DEF Sends
<1>3. Placed(B, X, G)
  <2>1. k + 1 \in 1 .. MaxAttempts /\ k + 1 > Len(A[d])
    BY <1>1
  <2>2. G[<<d, k + 1>>] = "none"
    BY <1>2, <2>1 DEF Placed
  <2>3. ASSUME NEW e \in Delivery, NEW i \in 1 .. MaxAttempts, i > Len(B[e])
        PROVE  G[<<e, i>>] = "none"
    <3>1. i > Len(A[e])
      BY <1>1, <2>3
    <3> QED BY <1>2, <3>1 DEF Placed
  <2>4. X.outcome.retryable => X.outcome.state = "failed"
    BY <1>2 DEF Placed
  <2>5. Len(B[d]) > 0 /\ X.at = <<d, Len(B[d])>>
    BY <1>1
  <2> QED BY <2>2, <2>3, <2>4, <2>5 DEF Placed
<1>4. Consented(S, B, Q, X, G)
  <2> SUFFICES ASSUME NEW e \in Delivery, NEW i \in 1 .. Len(B[e]), Exposed(X, G, e, i)
               PROVE  /\ Covered(Q, e, i, Len(B[e]))
                         \/ (i = Len(B[e]) /\ S[e].state \in {"sending", "unknown", "accepted"})
                      /\ \A j \in i + 1 .. Len(B[e]) : Covered(Q, e, i, j - 1)
    BY DEF Consented
  <2>1. CASE e # d
    <3>1. B[e] = A[e] /\ (S[e] = R[e] \/ R[e].state = "queued") /\ X.at # <<e, i>>
      BY <1>1, <2>1
    <3>2. Exposed(W, G, e, i)
      BY <3>1 DEF Exposed
    <3>3. /\ Covered(Q, e, i, Len(A[e]))
             \/ (i = Len(A[e]) /\ R[e].state \in {"sending", "unknown", "accepted"})
          /\ \A j \in i + 1 .. Len(A[e]) : Covered(Q, e, i, j - 1)
      BY <1>2, <3>1, <3>2 DEF Consented
    <3> HIDE DEF Covered
    <3> QED BY <3>1, <3>3
  <2>2. CASE e = d /\ i = k + 1
    BY <1>1, <2>2
  <2>3. CASE e = d /\ i \in 1 .. k
    <3>1. X.at # <<e, i>> /\ i \in 1 .. Len(A[d]) /\ i \in Nat
      BY <1>1, <2>3
    <3>2. Exposed(W, G, d, i)
      BY <2>3, <3>1 DEF Exposed
    <3>3. /\ Covered(Q, d, i, k)
          /\ \A j \in i + 1 .. k : Covered(Q, d, i, j - 1)
      BY <1>2, <3>1, <3>2 DEF Consented
    <3>4. Covered(Q, d, i, k + 1)
      BY <1>1, <3>1, <3>3, CoveredGrows
    <3>5. ASSUME NEW j \in i + 1 .. k + 1 PROVE Covered(Q, d, i, j - 1)
      <4>1. CASE j = k + 1
        <5>1. j - 1 = k
          BY <1>1, <4>1
        <5> QED BY <3>3, <5>1
      <4>2. CASE j # k + 1
        <5>1. j \in i + 1 .. k
          <6> HIDE DEF k
          <6> QED BY <1>1, <3>1, <4>2
        <5> QED BY <3>3, <5>1
      <4> QED BY <4>1, <4>2
    <3> HIDE DEF Covered
    <3> QED BY <1>1, <2>3, <3>4, <3>5
  <2> QED BY <1>1, <2>1, <2>2, <2>3
<1> QED BY <1>3, <1>4 DEF Sends

\* A claim, with the recovery and the cancellations on its way, keeps the invariant.
LEMMA ClaimKeeps == ASSUME NotifyInv, NEW d \in Delivery, claim(d) PROVE NotifyInv'
<1>1. /\ Around /\ Typed(rows, attempts, throttle) /\ Configured /\ d \in Due
      /\ ChatFree(RecoveredChat(settings.chat)) /\ Len(attempts[d]) < MaxAttempts
      /\ attempts' = [RecoveredAttempts EXCEPT ![d] = Append(@, NewAttempt(d))]
      /\ throttle' = [RecoveredChats EXCEPT ![settings.chat] =
            [busy |-> <<d, Len(attempts[d]) + 1>>, next |-> clock + Interval]]
      /\ worker' = [worker EXCEPT !.pc = "check", !.at = <<d, Len(attempts[d]) + 1>>]
      /\ UNCHANGED <<clock, settings, eligible, requests, telegram>>
  BY DEF claim, NotifyInv, Store, Live
<1>2. Store(RecoveredRows, RecoveredAttempts, RecoveredChats, clock)
  BY RecoveryKeepsStore DEF NotifyInv
<1>3. Sends(RecoveredRows, RecoveredAttempts, requests, worker, telegram)
  BY <1>1, RecoveryKeepsSends DEF NotifyInv
<1>4. PICK A \in [Delivery -> Seq(AttemptRow)] : A = RecoveredAttempts
  BY <1>2 DEF Store, Typed
<1>5. PICK T \in [Chat -> Chats] : T = RecoveredChats
  BY <1>2 DEF Store, Typed
<1>6. PICK k \in Nat : k = Len(attempts[d]) /\ k = Len(A[d]) /\ k + 1 \in 1 .. MaxAttempts
  <2>1. Len(attempts[d]) \in Nat /\ Len(RecoveredAttempts[d]) = Len(attempts[d])
    BY <1>1, AttemptOf, RecoveredAttemptsAre DEF Typed
  <2>2. MaxAttempts \in Nat /\ Len(attempts[d]) < MaxAttempts
    BY <1>1, NotificationAssumption
  <2>3. Len(attempts[d]) + 1 \in 1 .. MaxAttempts
    BY <2>1, <2>2
  <2> QED BY <1>4, <2>1, <2>3
<1>7. PICK a : a = NewAttempt(d)
  OBVIOUS
<1>8. RecoveredRow(d) \in Row /\ RecoveredRows[d] = RecoveredRow(d) /\ RecoveredRow(d).state = "queued"
  BY <1>1, RecoveredRowIs DEF Due
<1>9. /\ a \in AttemptRow /\ a.started = clock /\ ~a.recovered /\ a.chat = settings.chat
      /\ a.state = "sending" /\ a.generation = RecoveredRow(d).generation /\ settings.chat \in Chat
  <2>1. settings.chat \in Chat /\ clock \in Nat /\ Lease \in Nat /\ clock + Lease \in Nat
    BY <1>1, NotificationAssumption DEF Around, Configured
  <2>2. RecoveredRow(d).generation \in Nat
    BY <1>8 DEF Row
  <2> QED BY <1>7, <2>1, <2>2 DEF NewAttempt, AttemptRow
<1>10. Around'
  <2>1. <<d, k + 1>> \in Attempt
    BY <1>6 DEF Attempt
  <2>2. worker' \in [pc : Place, at : Attempt \cup {NoAttempt}, outcome : Outcome]
    BY <1>1, <1>6, <2>1 DEF Around, Place
  <2> QED BY <1>1, <2>2 DEF Around, Configured
<1>11. rows' = [e \in Delivery |->
          IF e = d THEN [RecoveredRow(d) EXCEPT !.state = "sending", !.next = 0]
          ELSE IF e \in Due \ Live /\ Before(e, d) THEN Cancelled(RecoveredRow(e))
          ELSE RecoveredRow(e)]
  BY DEF claim
<1>12. /\ rows' \in [Delivery -> Row]
       /\ rows'[d].state = "sending" /\ rows'[d].generation = RecoveredRow(d).generation
       /\ \A e \in Delivery : e # d =>
             \/ rows'[e] = RecoveredRows[e]
             \/ RecoveredRows[e].state = "queued" /\ rows'[e].state = "cancelled"
  <2>1. PICK r : r = [RecoveredRow(d) EXCEPT !.state = "sending", !.next = 0]
    OBVIOUS
  <2>2. r \in Row /\ r.state = "sending" /\ r.generation = RecoveredRow(d).generation
    BY <1>8, <2>1 DEF Row, RowState
  <2>3. \A e \in Delivery : /\ RecoveredRow(e) \in Row /\ Cancelled(RecoveredRow(e)) \in Row
                            /\ Cancelled(RecoveredRow(e)).state = "cancelled"
                            /\ RecoveredRows[e] = RecoveredRow(e)
                            /\ e \in Due => RecoveredRow(e).state = "queued"
    BY <1>1, RecoveredRowIs, CancelledIs DEF Due
  <2>4. rows' = [e \in Delivery |->
          IF e = d THEN r
          ELSE IF e \in Due \ Live /\ Before(e, d) THEN Cancelled(RecoveredRow(e))
          ELSE RecoveredRow(e)]
    BY <1>11, <2>1
  <2> HIDE DEF Cancelled, RecoveredRow, Due, Live, Before
  <2> QED BY <2>2, <2>3, <2>4
<1>13. /\ attempts' = [A EXCEPT ![d] = Append(@, a)]
       /\ throttle' = [T EXCEPT ![a.chat] = [busy |-> <<d, Len(A[d]) + 1>>, next |-> clock + Interval]]
  BY <1>1, <1>4, <1>5, <1>6, <1>7, <1>9
<1>14. /\ attempts' \in [Delivery -> Seq(AttemptRow)]
       /\ Len(attempts'[d]) = k + 1 /\ attempts'[d][k + 1] = a
       /\ \A e \in Delivery : e # d => attempts'[e] = A[e]
  BY <1>6, <1>9, <1>13, Appended
<1>15. \A e \in Delivery : Len(A[e]) <= MaxAttempts
  BY <1>2, <1>4 DEF Store, Typed
<1>16. Typed(rows', attempts', throttle')
  <2>1. \A e \in Delivery : Len(attempts'[e]) <= MaxAttempts
    <3> SUFFICES ASSUME NEW e \in Delivery PROVE Len(attempts'[e]) <= MaxAttempts
      OBVIOUS
    <3>1. CASE e = d
      <4>1. k + 1 <= MaxAttempts
        BY <1>6, NotificationAssumption
      <4> QED BY <1>14, <3>1, <4>1
    <3>2. CASE e # d
      BY <1>14, <1>15, <3>2
    <3> QED BY <3>1, <3>2
  <2>2. [busy |-> <<d, Len(A[d]) + 1>>, next |-> clock + Interval] \in Chats
    BY <1>1, <1>6, NotificationAssumption DEF Chats, Attempt, Around
  <2>3. throttle' \in [Chat -> Chats]
    BY <1>13, <2>2
  <2> QED BY <1>12, <1>14, <2>1, <2>3 DEF Typed
<1>17. Follows(rows', attempts')
  <2> SUFFICES ASSUME NEW e \in Delivery, rows'[e].state \in Shows
               PROVE  /\ Len(attempts'[e]) > 0
                      /\ attempts'[e][Len(attempts'[e])].state = rows'[e].state
                      /\ attempts'[e][Len(attempts'[e])].generation = rows'[e].generation
    BY DEF Follows
  <2>1. CASE e = d
    BY <1>9, <1>12, <1>14, <2>1
  <2>2. CASE e # d
    <3>1. rows'[e] = RecoveredRows[e] /\ attempts'[e] = RecoveredAttempts[e]
      BY <1>4, <1>12, <1>14, <2>2 DEF Shows
    <3> QED BY <1>2, <3>1 DEF Store, Follows
  <2> QED BY <2>1, <2>2
<1>18. Spaced(attempts') /\ Throttled(attempts', throttle', clock) /\ Resolved(attempts')
  <2>1. Spaced(A) /\ Throttled(A, T, clock) /\ Resolved(A)
    BY <1>2, <1>4, <1>5 DEF Store
  <2>2. T[a.chat].busy = NoAttempt /\ T[a.chat].next <= clock /\ clock \in Nat
    BY <1>1, <1>5, <1>9, RecoveredChatIs DEF ChatFree, Around
  <2> QED BY <1>9, <1>13, <1>15, <2>1, <2>2, ClaimSpaces
<1>19. Sends(rows', attempts', requests, worker', telegram)
  <2>1. worker'.pc = "check" /\ worker'.at = <<d, Len(A[d]) + 1>> /\ worker'.outcome = worker.outcome
    BY <1>1, <1>6 DEF Around
  <2>2. Sends(RecoveredRows, A, requests, worker, telegram)
    BY <1>3, <1>4
  <2>3. Len(A[d]) < MaxAttempts
    BY <1>1, <1>6
  <2>4. \A e \in Delivery : e # d => rows'[e] = RecoveredRows[e] \/ RecoveredRows[e].state = "queued"
    BY <1>12
  <2>5. PICK R, S, X, B : R = RecoveredRows /\ S = rows' /\ X = worker' /\ B = attempts'
    OBVIOUS
  <2>6. /\ Sends(R, A, requests, worker, telegram) /\ R[d].state = "queued" /\ S[d].state = "sending"
        /\ \A e \in Delivery : e # d => S[e] = R[e] \/ R[e].state = "queued"
        /\ X.pc = "check" /\ X.at = <<d, Len(A[d]) + 1>> /\ X.outcome = worker.outcome
        /\ B = [A EXCEPT ![d] = Append(@, a)]
    BY <1>8, <1>12, <1>13, <2>1, <2>2, <2>4, <2>5
  <2>7. a \in AttemptRow
    BY <1>9
  <2>8. Sends(S, B, requests, X, telegram)
    BY <2>3, <2>6, <2>7, ClaimConsented
  <2> QED BY <2>5, <2>8
<1> QED BY <1>1, <1>10, <1>16, <1>17, <1>18, <1>19 DEF NotifyInv, Store

-----------------------------------------------------------------------------
\* A new value of one attempt.
LEMMA Replaced ==
    ASSUME NEW A \in [Delivery -> Seq(AttemptRow)], NEW d \in Delivery, NEW n \in 1 .. Len(A[d]),
           NEW b \in AttemptRow, NEW B, B = [A EXCEPT ![d][n] = b]
    PROVE  /\ B \in [Delivery -> Seq(AttemptRow)]
           /\ \A e \in Delivery : Len(B[e]) = Len(A[e])
           /\ B[d][n] = b
           /\ \A e \in Delivery : \A i \in 1 .. Len(A[e]) : <<e, i>> # <<d, n>> => B[e][i] = A[e][i]
<1>1. PICK s : s = [A[d] EXCEPT ![n] = b]
  OBVIOUS
<1>2. A[d] \in Seq(AttemptRow)
  OBVIOUS
<1>3. /\ s \in Seq(AttemptRow) /\ Len(s) = Len(A[d])
      /\ \A j \in 1 .. Len(A[d]) : s[j] = IF j = n THEN b ELSE A[d][j]
  BY <1>1, <1>2, ExceptSeq
<1>4. B = [A EXCEPT ![d] = s]
  BY <1>1
<1>5. B[d] = s /\ \A e \in Delivery : e # d => B[e] = A[e]
  BY <1>4
<1> QED BY <1>3, <1>4, <1>5

\* What a receipt changes of an attempt, and what it may do to the throttle of the chat.
Receipt(a, b) ==
    /\ b.chat = a.chat /\ b.started = a.started /\ b.deadline = a.deadline
    /\ b.recovered = a.recovered /\ (b.recovered => b.late)
    /\ a.state = "sending" \/ (a.recovered /\ ~a.late)
Releases(T, u, d, n, a, b, now) ==
    /\ u.next >= T[a.chat].next
    /\ \/ u.busy = T[a.chat].busy
       \/ /\ T[a.chat].busy = <<d, n>>
          /\ b.state \notin {"sending", "unknown"} \/ now >= a.deadline

\* A receipt: nothing but the result of the attempt changes, and the chat is kept until the
\* attempt cannot arrive any more.
LEMMA FinishSpaces ==
    ASSUME NEW A \in [Delivery -> Seq(AttemptRow)], NEW T \in [Chat -> Chats], NEW now \in Nat,
           Spaced(A), Throttled(A, T, now), Resolved(A),
           NEW d \in Delivery, NEW n \in 1 .. Len(A[d]), NEW a \in AttemptRow, a = A[d][n],
           NEW b \in AttemptRow, Receipt(a, b),
           NEW B, B = [A EXCEPT ![d][n] = b],
           NEW u \in Chats, NEW U, U = [T EXCEPT ![a.chat] = u],
           Releases(T, u, d, n, a, b, now)
    PROVE  Spaced(B) /\ Throttled(B, U, now) /\ Resolved(B)
<1> USE DEF Receipt, Releases
<1>1. /\ \A e \in Delivery : Len(B[e]) = Len(A[e])
      /\ B[d][n] = b
      /\ \A e \in Delivery : \A i \in 1 .. Len(A[e]) : <<e, i>> # <<d, n>> => B[e][i] = A[e][i]
  BY Replaced
<1>2. a.chat \in Chat /\ a.started \in Nat /\ a.deadline \in Nat /\ a.state \in {"sending", "unknown"}
  <2>1. a.recovered => a.state = "unknown" \/ a.late
    BY DEF Resolved
  <2> QED BY <2>1 DEF AttemptRow
<1>3. ASSUME NEW e \in Delivery, NEW i \in 1 .. Len(A[e])
      PROVE  /\ B[e][i].chat = A[e][i].chat /\ B[e][i].started = A[e][i].started
             /\ B[e][i].deadline = A[e][i].deadline /\ B[e][i].recovered = A[e][i].recovered
             /\ B[e][i].state \in {"sending", "unknown"} => A[e][i].state \in {"sending", "unknown"}
             /\ A[e][i].chat \in Chat /\ A[e][i].started \in Nat /\ A[e][i].deadline \in Nat
  <2>1. A[e][i] \in AttemptRow
    BY AttemptOf
  <2>2. A[e][i].chat \in Chat /\ A[e][i].started \in Nat /\ A[e][i].deadline \in Nat
    BY <2>1 DEF AttemptRow
  <2>3. CASE <<e, i>> = <<d, n>>
    BY <1>1, <1>2, <2>2, <2>3
  <2>4. CASE <<e, i>> # <<d, n>>
    BY <1>1, <2>2, <2>4
  <2> QED BY <2>3, <2>4
<1>4. Spaced(B)
  <2> SUFFICES ASSUME NEW e \in Delivery, NEW f \in Delivery,
                      NEW i \in 1 .. Len(A[e]), NEW j \in 1 .. Len(A[f]),
                      <<e, i>> # <<f, j>>, B[e][i].chat = B[f][j].chat, B[e][i].started <= B[f][j].started
               PROVE  /\ B[e][i].started + Interval <= B[f][j].started
                      /\ B[e][i].state \in {"sending", "unknown"} => B[e][i].deadline <= B[f][j].started
    BY <1>1, ZenonT(60) DEF Spaced
  <2>1. A[e][i].chat = A[f][j].chat /\ A[e][i].started <= A[f][j].started
    BY <1>3, ZenonT(60)
  <2>2. /\ A[e][i].started + Interval <= A[f][j].started
        /\ A[e][i].state \in {"sending", "unknown"} => A[e][i].deadline <= A[f][j].started
    BY <2>1 DEF Spaced
  <2> QED BY <1>3, <2>2, ZenonT(60)
<1>5. Throttled(B, U, now)
  <2> SUFFICES ASSUME NEW e \in Delivery, NEW i \in 1 .. Len(A[e])
               PROVE  /\ B[e][i].started + Interval <= U[B[e][i].chat].next
                      /\ B[e][i].state \in {"sending", "unknown"} /\ now < B[e][i].deadline =>
                            U[B[e][i].chat].busy = <<e, i>>
                      /\ B[e][i].recovered => B[e][i].deadline <= now
    BY <1>1 DEF Throttled
  <2>0. /\ B[e][i].chat = A[e][i].chat /\ B[e][i].started = A[e][i].started
        /\ B[e][i].deadline = A[e][i].deadline /\ B[e][i].recovered = A[e][i].recovered
        /\ B[e][i].state \in {"sending", "unknown"} => A[e][i].state \in {"sending", "unknown"}
    BY <1>3, ZenonT(60)
  <2>1. /\ A[e][i].started + Interval <= T[A[e][i].chat].next
        /\ A[e][i].state \in {"sending", "unknown"} /\ now < A[e][i].deadline =>
              T[A[e][i].chat].busy = <<e, i>>
        /\ A[e][i].recovered => A[e][i].deadline <= now
    BY DEF Throttled
  <2>2. Interval \in Nat
    BY NotificationAssumption
  <2>3. CASE A[e][i].chat # a.chat
    <3>1. U[A[e][i].chat] = T[A[e][i].chat]
      BY <1>3, <2>3
    <3> QED BY <2>0, <2>1, <3>1
  <2>4. CASE A[e][i].chat = a.chat
    <3>1. U[a.chat] = u /\ u.next \in Nat /\ T[a.chat].next \in Nat
      BY <1>2 DEF Chats
    <3>2. A[e][i].started + Interval <= u.next
      BY <1>3, <2>1, <2>2, <2>4, <3>1, PassedBy
    <3>3. ASSUME B[e][i].state \in {"sending", "unknown"}, now < A[e][i].deadline
          PROVE  u.busy = <<e, i>>
      <4>1. T[a.chat].busy = <<e, i>>
        BY <1>3, <2>1, <2>4, <3>3
      <4>2. CASE <<e, i>> = <<d, n>>
        <5>1. b.state \in {"sending", "unknown"} /\ now < a.deadline
          BY <1>1, <3>3, <4>2
        <5> QED BY <1>2, <4>1, <5>1
      <4>3. CASE <<e, i>> # <<d, n>>
        BY <4>1, <4>3
      <4> QED BY <4>2, <4>3
    <3> QED BY <2>0, <2>1, <2>4, <3>1, <3>2, <3>3
  <2> QED BY <2>3, <2>4
<1>6. Resolved(B)
  <2> SUFFICES ASSUME NEW e \in Delivery, NEW i \in 1 .. Len(A[e]), B[e][i].recovered
               PROVE  B[e][i].state = "unknown" \/ B[e][i].late
    BY <1>1 DEF Resolved
  <2>1. CASE <<e, i>> = <<d, n>>
    BY <1>1, <2>1
  <2>2. CASE <<e, i>> # <<d, n>>
    BY <1>1, <2>2 DEF Resolved
  <2> QED BY <2>1, <2>2
<1> QED BY <1>4, <1>5, <1>6

\* What finish() leaves of a row that its attempt still owns.
LEMMA FinishedRowIs ==
    ASSUME Around, Typed(rows, attempts, throttle), NEW d \in Delivery, Len(attempts[d]) > 0,
           NEW row \in Row, NEW o \in Outcome, NEW next \in Nat, NEW r, r = FinishedRow(d, row, o, next)
    PROVE  /\ r \in Row /\ r.generation = row.generation /\ r.accepted_once = row.accepted_once
           /\ r.state = o.state \/ (r.state = "queued" /\ o.retryable)
<1>1. Len(attempts[d]) \in 1 .. MaxAttempts
  BY AttemptOf, NotificationAssumption DEF Typed
<1>2. /\ Backoff[Len(attempts[d])] \in Nat /\ o.delay \in Nat /\ clock \in Nat
      /\ o.state \in {"accepted", "failed", "unknown"}
  BY <1>1, NotificationAssumption DEF Outcome, Around
<1>3. PICK wait \in Nat : wait = IF o.delay > 0 THEN o.delay ELSE Backoff[Len(attempts[d])]
  BY <1>2
<1>4. PICK at \in Nat : at = Later(clock + wait, next)
  BY <1>2 DEF Later
<1>5. \/ r = [row EXCEPT !.state = "queued", !.next = at] /\ o.retryable
      \/ r = [row EXCEPT !.state = o.state, !.next = 0]
  BY <1>3, <1>4 DEF FinishedRow
<1>6. PICK state \in {"accepted", "failed", "unknown"} : state = o.state
  BY <1>2
<1>7. CASE r = [row EXCEPT !.state = "queued", !.next = at] /\ o.retryable
  BY <1>7 DEF Row, RowState
<1>8. CASE r = [row EXCEPT !.state = state, !.next = 0]
  <2>1. r \in Row /\ r.generation = row.generation /\ r.accepted_once = row.accepted_once
    <3>1. state \in RowState
      BY DEF RowState
    <3>2. PICK t \in Nat : t = 0
      OBVIOUS
    <3>3. r = [row EXCEPT !.state = state, !.next = t]
      BY <1>8, <3>2
    <3> QED BY <3>1, <3>3 DEF Row
  <2>2. r.state = state
    BY <1>8 DEF Row
  <2> QED BY <1>6, <2>1, <2>2
<1> QED BY <1>5, <1>6, <1>7, <1>8

\* A receipt, of an attempt that has none yet, keeps the invariant.
LEMMA FinishKeeps == ASSUME NotifyInv, finish PROVE NotifyInv'
<1>1. /\ Around /\ Typed(rows, attempts, throttle) /\ Follows(rows, attempts)
      /\ Placed(attempts, worker, telegram)
      /\ Consented(rows, attempts, requests, worker, telegram)
      /\ worker.pc = "receipt" /\ worker' = AtStart
      /\ UNCHANGED <<clock, settings, eligible, requests, telegram>>
  BY DEF NotifyInv, Store, Sends, finish
<1>2. PICK d \in Delivery : Len(attempts[d]) > 0 /\ worker.at = <<d, Len(attempts[d])>>
  BY <1>1 DEF Placed, Sending
<1>3. PICK n \in 1 .. Len(attempts[d]) : n = Len(attempts[d])
  BY <1>1, <1>2, AttemptOf DEF Typed
<1>4. PICK a \in AttemptRow : a = attempts[d][n]
  BY <1>1, AttemptOf DEF Typed
<1>5. PICK o \in Outcome : o = worker.outcome
  BY <1>1 DEF Around
<1>6. /\ worker.at[1] = d /\ worker.at[2] = n /\ worker.at = <<d, n>>
      /\ a.chat \in Chat /\ a.generation \in Nat /\ a.deadline \in Nat /\ clock \in Nat
      /\ o.delay \in Nat /\ o.state \in {"accepted", "failed", "unknown"} /\ Interval \in Nat
      /\ o.retryable => o.state = "failed"
  <2>1. worker.at[1] = d /\ worker.at[2] = n /\ worker.at = <<d, n>>
    BY <1>2, <1>3
  <2>2. a.chat \in Chat /\ a.generation \in Nat /\ a.deadline \in Nat
    BY DEF AttemptRow
  <2>3. o.delay \in Nat /\ o.state \in {"accepted", "failed", "unknown"}
    BY DEF Outcome
  <2> QED BY <1>1, <1>5, <2>1, <2>2, <2>3, NotificationAssumption DEF Around, Placed
<1>7. Around'
  BY <1>1, WorkerMoves DEF Around, Configured
<1>8. CASE Settled(a)
  <2>1. UNCHANGED store
    BY <1>4, <1>6, <1>8 DEF finish
  <2>2. Sends(rows, attempts, requests, AtStart, telegram)
    BY <1>1, WorkerIdles, WorkerMoves DEF NotifyInv
  <2> QED BY <1>1, <1>7, <2>1, <2>2 DEF NotifyInv, store
<1>9. CASE ~Settled(a)
  <2>1. PICK next \in Nat : /\ next = Later(throttle[a.chat].next, clock + Later(Interval, o.delay))
                            /\ next >= throttle[a.chat].next
    <3>1. throttle[a.chat].next \in Nat
      BY <1>1, <1>6 DEF Typed, Chats
    <3> QED BY <1>6, <3>1 DEF Later
  <2>2. PICK once \in BOOLEAN : once = (rows[d].accepted_once \/ o.state = "accepted")
    OBVIOUS
  <2>3. PICK late \in BOOLEAN : late = (a.late \/ a.recovered \/ clock > a.deadline)
    OBVIOUS
  <2>4. PICK row : row = [rows[d] EXCEPT !.accepted_once = once]
    OBVIOUS
  <2>5. PICK b : b = [a EXCEPT !.state = o.state, !.finished = clock, !.late = late]
    OBVIOUS
  <2>6. PICK u : u = [next |-> next,
                      busy |-> IF throttle[a.chat].busy = <<d, n>> /\ FreesChat(o, a)
                               THEN NoAttempt ELSE throttle[a.chat].busy]
    OBVIOUS
  <2>7. PICK r : r = IF Current(row, Len(attempts[d]), n, a) THEN FinishedRow(d, row, o, next) ELSE row
    OBVIOUS
  <2>8. /\ attempts' = [attempts EXCEPT ![d][n] = b]
        /\ throttle' = [throttle EXCEPT ![a.chat] = u]
        /\ rows' = [rows EXCEPT ![d] = r]
    BY <1>4, <1>5, <1>6, <1>9, <2>1, <2>2, <2>3, <2>4, <2>5, <2>6, <2>7, ZenonT(60) DEF finish
  <2>9. /\ row \in Row /\ row.state = rows[d].state /\ row.generation = rows[d].generation
    <3>1. rows[d] \in Row
      BY <1>1 DEF Typed
    <3> QED BY <2>4, <3>1 DEF Row
  <2>10. /\ r \in Row /\ r.generation = rows[d].generation
         /\ \/ r.state = rows[d].state /\ rows[d].generation # a.generation
            \/ /\ rows[d].generation = a.generation
               /\ r.state = o.state \/ (r.state = "queued" /\ o.retryable)
    <3>1. Current(row, Len(attempts[d]), n, a) <=> rows[d].generation = a.generation
      BY <1>3, <2>9 DEF Current
    <3>2. CASE Current(row, Len(attempts[d]), n, a)
      <4>1. r = FinishedRow(d, row, o, next)
        BY <2>7, <3>2
      <4>2. /\ r \in Row /\ r.generation = row.generation
            /\ r.state = o.state \/ (r.state = "queued" /\ o.retryable)
        BY <1>1, <1>2, <2>9, <4>1, FinishedRowIs
      <4> QED BY <2>9, <3>1, <3>2, <4>2
    <3>3. CASE ~Current(row, Len(attempts[d]), n, a)
      BY <2>7, <2>9, <3>1, <3>3
    <3> QED BY <3>2, <3>3
  <2>11. /\ b \in AttemptRow /\ b.chat = a.chat /\ b.started = a.started /\ b.deadline = a.deadline
         /\ b.recovered = a.recovered /\ b.generation = a.generation /\ b.late = late
         /\ b.state = o.state
    <3>1. PICK state \in {"accepted", "failed", "unknown"} : state = o.state
      BY <1>6
    <3>2. b = [a EXCEPT !.state = state, !.finished = clock, !.late = late]
      BY <2>5, <3>1
    <3> QED BY <1>6, <3>1, <3>2 DEF AttemptRow
  <2>12. /\ u \in Chats /\ u.next = next
         /\ \/ u.busy = throttle[a.chat].busy
            \/ throttle[a.chat].busy = <<d, n>> /\ FreesChat(o, a)
    <3>1. throttle[a.chat].busy \in Attempt \cup {NoAttempt}
      BY <1>1, <1>6 DEF Typed, Chats
    <3> QED BY <2>6, <3>1 DEF Chats
  <2>13. /\ attempts' \in [Delivery -> Seq(AttemptRow)]
         /\ \A e \in Delivery : Len(attempts'[e]) = Len(attempts[e])
         /\ attempts'[d][n] = b
         /\ \A e \in Delivery : e # d => attempts'[e] = attempts[e]
    <3>1. attempts \in [Delivery -> Seq(AttemptRow)]
      BY <1>1 DEF Typed
    <3>2. \A e \in Delivery : e # d => attempts'[e] = attempts[e]
      BY <2>8, <3>1
    <3> QED BY <2>8, <2>11, <3>1, <3>2, Replaced
  <2>14. Typed(rows', attempts', throttle')
    <3>1. rows' \in [Delivery -> Row] /\ throttle' \in [Chat -> Chats]
      BY <1>1, <2>8, <2>10, <2>12 DEF Typed
    <3> QED BY <1>1, <2>13, <3>1 DEF Typed
  <2>15. rows'[d] = r /\ \A e \in Delivery : e # d => rows'[e] = rows[e]
    BY <1>1, <2>8 DEF Typed
  <2>16. rows[d].state \in Shows => rows[d].generation = a.generation
    BY <1>1, <1>3, <1>4 DEF Follows
  <2>17. Follows(rows', attempts')
    <3> SUFFICES ASSUME NEW e \in Delivery, rows'[e].state \in Shows
                 PROVE  /\ Len(attempts'[e]) > 0
                        /\ attempts'[e][Len(attempts'[e])].state = rows'[e].state
                        /\ attempts'[e][Len(attempts'[e])].generation = rows'[e].generation
      BY DEF Follows
    <3>1. CASE e # d
      BY <1>1, <2>13, <2>15, <3>1 DEF Follows
    <3>2. CASE e = d
      <4>1. r.state \in Shows /\ Len(attempts'[d]) = n /\ n > 0
        BY <1>2, <1>3, <2>13, <2>15, <3>2
      <4>2. rows[d].generation = a.generation /\ r.state = o.state
        BY <2>10, <2>16, <4>1 DEF Shows
      <4> QED BY <2>10, <2>11, <2>13, <2>15, <3>2, <4>1, <4>2
    <3> QED BY <3>1, <3>2
  <2>18. Spaced(attempts') /\ Throttled(attempts', throttle', clock) /\ Resolved(attempts')
    <3>1. PICK A \in [Delivery -> Seq(AttemptRow)], T \in [Chat -> Chats] : A = attempts /\ T = throttle
      BY <1>1 DEF Typed
    <3>2. Spaced(A) /\ Throttled(A, T, clock) /\ Resolved(A) /\ n \in 1 .. Len(A[d]) /\ a = A[d][n]
      BY <1>4, <3>1 DEF NotifyInv, Store
    <3>3. b.recovered => b.late
      BY <2>3, <2>11
    <3>4. a.state = "sending" \/ (a.recovered /\ ~a.late)
      BY <1>9 DEF Settled
    <3>5. u.busy = T[a.chat].busy
          \/ (T[a.chat].busy = <<d, n>> /\ (b.state \notin {"sending", "unknown"} \/ clock >= a.deadline))
      BY <1>6, <2>11, <2>12, <3>1 DEF FreesChat
    <3>6. PICK B, U : B = attempts' /\ U = throttle'
      OBVIOUS
    <3>7. B = [A EXCEPT ![d][n] = b] /\ U = [T EXCEPT ![a.chat] = u] /\ u.next >= T[a.chat].next
      BY <2>1, <2>8, <2>12, <3>1, <3>6
    <3>8. u \in Chats /\ b \in AttemptRow /\ clock \in Nat
      BY <1>6, <2>11, <2>12
    <3>9. Spaced(B) /\ Throttled(B, U, clock) /\ Resolved(B)
      <4>1. b.chat = a.chat /\ b.started = a.started /\ b.deadline = a.deadline /\ b.recovered = a.recovered
        BY <2>11
      <4>2. Receipt(a, b) /\ Releases(T, u, d, n, a, b, clock)
        BY <3>3, <3>4, <3>5, <3>7, <4>1 DEF Receipt, Releases
      <4> QED BY <3>2, <3>7, <3>8, <4>2, FinishSpaces
    <3> QED BY <3>6, <3>9
  <2>19. Placed(attempts', AtStart, telegram)
    BY <1>1, <2>13, WorkerMoves DEF Placed, Sending
  <2>20. Consented(rows', attempts', requests, AtStart, telegram)
    <3> SUFFICES ASSUME NEW e \in Delivery, NEW i \in 1 .. Len(attempts[e]),
                        Exposed(AtStart, telegram, e, i)
                 PROVE  /\ Covered(requests, e, i, Len(attempts[e]))
                           \/ (i = Len(attempts[e])
                               /\ rows'[e].state \in {"sending", "unknown", "accepted"})
                        /\ \A j \in i + 1 .. Len(attempts[e]) : Covered(requests, e, i, j - 1)
      <4> HIDE DEF Exposed, Covered
      <4> QED BY <2>13 DEF Consented
    <3>1. telegram[<<e, i>>] \in {"posted", "delivered"}
      <4>1. AtStart.pc \notin {"check", "connect"}
        BY DEF AtStart
      <4> QED BY <4>1 DEF Exposed
    <3>2. /\ Covered(requests, e, i, Len(attempts[e]))
             \/ (i = Len(attempts[e]) /\ rows[e].state \in {"sending", "unknown", "accepted"})
          /\ \A j \in i + 1 .. Len(attempts[e]) : Covered(requests, e, i, j - 1)
      <4>1. Exposed(worker, telegram, e, i)
        BY <3>1 DEF Exposed
      <4> QED BY <1>1, <4>1 DEF Consented
    <3>3. ASSUME i = Len(attempts[e]), rows[e].state \in {"sending", "unknown", "accepted"}
          PROVE  rows'[e].state \in {"sending", "unknown", "accepted"}
      <4>1. CASE e # d
        BY <2>15, <3>3, <4>1
      <4>2. CASE e = d
        <5>1. telegram[worker.at] \in {"posted", "delivered"}
          BY <1>3, <1>6, <3>1, <3>3, <4>2
        <5>2. o.state # "failed"
          BY <1>1, <1>5, <5>1 DEF Placed
        <5>3. r.state = o.state
          BY <1>6, <2>10, <2>16, <3>3, <4>2, <5>2 DEF Shows
        <5> QED BY <1>6, <2>15, <4>2, <5>2, <5>3
      <4> QED BY <4>1, <4>2
    <3> HIDE DEF Covered
    <3> QED BY <3>2, <3>3
  <2> QED BY <1>1, <1>7, <2>14, <2>17, <2>18, <2>19, <2>20 DEF NotifyInv, Store, Sends
<1> QED BY <1>8, <1>9

-----------------------------------------------------------------------------
\* The panel starts with empty tables.
LEMMA InitHolds == ASSUME Init PROVE NotifyInv
<1>0. ASSUME NEW d \in Delivery PROVE attempts[d] = <<>> /\ Len(attempts[d]) = 0 /\ 1 .. Len(attempts[d]) = {}
  BY DEF Init
<1>1. Around
  <2>1. AtStart \in [pc : Place, at : Attempt \cup {NoAttempt}, outcome : Outcome]
    BY DEF AtStart, Place, Outcome, Unknown
  <2>2. requests \in [Request -> Retry \cup {NoRequest}]
    BY DEF Init
  <2>3. telegram \in [Attempt -> {"none", "posted", "delivered", "rejected"}]
    BY DEF Init
  <2> QED BY <2>1, <2>2, <2>3 DEF Init, Around, Configured
<1>2. Typed(rows, attempts, throttle)
  <2>1. NoRow \in Row
    BY DEF NoRow, Row, RowState
  <2>2. rows \in [Delivery -> Row]
    BY <2>1 DEF Init
  <2>3. <<>> \in Seq(AttemptRow)
    OBVIOUS
  <2>4. attempts \in [Delivery -> Seq(AttemptRow)]
    BY <2>3 DEF Init
  <2>5. throttle \in [Chat -> Chats]
    BY DEF Init, Chats
  <2>6. \A d \in Delivery : Len(attempts[d]) <= MaxAttempts
    BY <1>0, NotificationAssumption
  <2> QED BY <2>2, <2>4, <2>5, <2>6 DEF Typed
<1>3. Follows(rows, attempts)
  BY DEF Init, Follows, NoRow, Shows
<1>4. Spaced(attempts) /\ Throttled(attempts, throttle, clock) /\ Resolved(attempts)
  BY <1>0 DEF Spaced, Throttled, Resolved
<1>5. Placed(attempts, worker, telegram)
  BY DEF Init, Placed, AtStart, Unknown, Sending, Attempt
<1>6. Consented(rows, attempts, requests, worker, telegram)
  BY <1>0 DEF Consented
<1> QED BY <1>1, <1>2, <1>3, <1>4, <1>5, <1>6 DEF NotifyInv, Store, Sends

\* Every step keeps the invariant.
LEMMA NextKeeps == ASSUME NotifyInv, [Next]_vars PROVE NotifyInv'
<1>1. CASE UNCHANGED vars
  BY <1>1 DEF NotifyInv, vars, Around, Configured
<1>2. CASE Tick
  BY <1>2, TickKeeps
<1>3. CASE Administrator
  BY <1>3, SettingsKeep, TestKeeps, EligibilityKeeps, RetryKeeps DEF Administrator
<1>4. CASE Worker
  <2>1. CASE Send
    BY <2>1, CheckLeaseKeeps, PostKeeps, OutcomesKeep DEF Send
  <2>2. CASE recover \/ SkipScan \/ scan \/ ClaimNothing \/ finish \/ Abandon
    BY <2>2, RecoverKeeps, SkipScanKeeps, ScanKeeps, ClaimNothingKeeps, FinishKeeps, AbandonKeeps
  <2>3. CASE \E d \in Delivery : claim(d)
    BY <2>3, ClaimKeeps
  <2> QED BY <1>4, <2>1, <2>2, <2>3 DEF Worker
<1>5. CASE \E id \in Attempt, fate \in {"delivered", "rejected"} : TelegramDecides(id, fate)
  BY <1>5, TelegramKeeps
<1> QED BY <1>1, <1>2, <1>3, <1>4, <1>5 DEF Next

\* The inductive invariant holds in every state of every execution.
THEOREM NotificationsSafe == Spec => []NotifyInv
BY InitHolds, NextKeeps, PTL DEF Spec

\* Every table keeps the shape the code gives it.
THEOREM NotificationsTyped == Spec => []TypeOK
<1>1. NotifyInv => TypeOK
  BY DEF NotifyInv, Around, Store, Typed, TypeOK, Retry, Chats
<1> QED BY <1>1, NotificationsSafe, PTL

\* What the panel shows of a delivery is the result of the attempt that owns its row, whatever
\* receipts come in late (_recover, claim, finish, retry).
THEOREM RowsHonest == Spec => []RowFollowsAttempt
<1>1. NotifyInv => RowFollowsAttempt
  BY DEF NotifyInv, Store, Follows, RowFollowsAttempt, Shows
<1> QED BY <1>1, NotificationsSafe, PTL

\* A chat gets one message at a time, an interval apart, and none before an attempt with an unknown
\* end is past its deadline (the throttle of claim, finish and _recover).
THEOREM ChatsSpaced == Spec => []ChatSpacing
<1>1. NotifyInv => ChatSpacing
  BY DEF NotifyInv, Store, Spaced, ChatSpacing
<1> QED BY <1>1, NotificationsSafe, PTL

\* No message is sent twice unless an administrator said so, knowing that the first may have arrived.
THEOREM ResendsConfirmed == Spec => []ResendIsConfirmed
<1>1. ASSUME NotifyInv, NEW d \in Delivery, NEW j \in 1 .. Len(attempts[d]), NEW i \in 1 .. j - 1,
             telegram[<<d, i>>] \in {"posted", "delivered"}
      PROVE  Covered(requests, d, i, j - 1)
  <2>1. Len(attempts[d]) \in Nat
    BY <1>1, AttemptOf DEF NotifyInv, Store, Typed
  <2>2. i \in 1 .. Len(attempts[d]) /\ j \in i + 1 .. Len(attempts[d])
    BY <2>1
  <2>3. Exposed(worker, telegram, d, i)
    BY <1>1 DEF Exposed
  <2> QED BY <1>1, <2>2, <2>3 DEF NotifyInv, Sends, Consented
<1>2. NotifyInv => ResendIsConfirmed
  BY <1>1 DEF ResendIsConfirmed, Covered
<1> QED BY <1>2, NotificationsSafe, PTL
=============================================================================
