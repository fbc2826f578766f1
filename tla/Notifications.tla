---------------------------- MODULE Notifications ----------------------------
(***************************************************************************)
(* Expiry and test notifications (services/notifications.py) and the worker *)
(* that sends them (services/notification_worker.py) through Telegram       *)
(* (services/telegram_transport.py).  Every store operation is one          *)
(* serialized write transaction; the worker claims a delivery durably, then *)
(* posts it, then commits a receipt, and may stop between any two of these. *)
(* Telegram offers no idempotency key: what was posted may arrive later, or *)
(* never, whatever the worker sees.                                         *)
(*                                                                         *)
(* An attempt is named by its delivery and its attempt_number, so           *)
(* last_attempt_id and attempt_count are the length of attempts[d].         *)
(* Configuration revisions and what only the history page shows are left    *)
(* out.                                                                    *)
(***************************************************************************)
EXTENDS Integers, Sequences, FiniteSets

CONSTANTS
    Delivery,        \* event keys; a number is also the place in the id order
    Kind,            \* what each is: a test or a package_expiry
    Chat, NoChat,
    Settings,        \* the settings an administrator may save
    Request,         \* ids of retry requests
    NoRequest, NoAttempt,
    Lease,           \* LEASE_SECONDS
    SendNeeds,       \* SEND_TIMEOUT_SECONDS + 2
    Interval,        \* CHAT_INTERVAL
    RetryAfter,      \* what a flood-control rejection asks for
    Backoff,         \* 2 ** attempt_count
    MAX_AUTOMATIC_ATTEMPTS,
    MaxAttempts,     \* bound: attempts of one delivery
    Horizon          \* bound: the clock

ASSUME NotificationAssumption ==
    /\ Delivery \subseteq Nat
    /\ Kind \in [Delivery -> {"test", "package_expiry"}]
    /\ NoChat \notin Chat
    /\ Settings \subseteq [enabled : BOOLEAN, chat : Chat \cup {NoChat}, token : BOOLEAN]
    /\ Lease \in Nat \ {0} /\ SendNeeds \in Nat /\ Interval \in Nat \ {0} /\ Interval <= Lease
    /\ RetryAfter \subseteq Nat \ {0}
    /\ MAX_AUTOMATIC_ATTEMPTS \in Nat /\ MaxAttempts \in Nat /\ Horizon \in Nat
    /\ Backoff \in [1 .. MaxAttempts -> Nat]

Attempt == Delivery \X (1 .. MaxAttempts)

ASSUME NoValueAssumption ==
    /\ NoAttempt \notin Attempt
    /\ NoRequest \notin [delivery : Delivery, seen : 1 .. MaxAttempts, confirmed : BOOLEAN]

VARIABLES
    clock,
    settings,    \* enabled, chat, and whether a token is stored
    eligible,    \* the expiry events whose user and plan still qualify
    rows,        \* NotificationDeliveryModel
    attempts,    \* NotificationAttemptModel, by delivery and number
    throttle,    \* NotificationChatModel: next_allowed_at and the attempt in flight
    requests,    \* NotificationRequestModel of the retries
    worker,      \* where the worker is, with its claim and outcome
    telegram     \* what became of each request on the wire

store == <<rows, attempts, throttle>>
vars == <<clock, settings, eligible, rows, attempts, throttle, requests, worker, telegram>>

RowState == {"none", "queued", "sending", "accepted", "failed", "unknown", "cancelled"}
Row == [state : RowState, generation : Nat, accepted_once : BOOLEAN, created : Nat, next : Nat]
NoRow == [state |-> "none", generation |-> 0, accepted_once |-> FALSE, created |-> 0, next |-> 0]

\* finished is started until there is a result.
AttemptRow ==
    [state : {"sending", "accepted", "failed", "unknown"}, generation : Nat, chat : Chat,
     started : Nat, deadline : Nat, finished : Nat, recovered : BOOLEAN, late : BOOLEAN]

Outcome == [state : {"accepted", "failed", "unknown"}, retryable : BOOLEAN, delay : Nat]
Unknown == [state |-> "unknown", retryable |-> FALSE, delay |-> 0]
Accepted == [state |-> "accepted", retryable |-> FALSE, delay |-> 0]
Rejected == [state |-> "failed", retryable |-> FALSE, delay |-> 0]
\* A connection that was never made, or a claim that was never used.
NotSent == [state |-> "failed", retryable |-> TRUE, delay |-> 0]
RateLimited(n) == [state |-> "failed", retryable |-> TRUE, delay |-> n]

Place == {"recover", "scan", "claim", "check", "connect", "response", "receipt"}
AtStart == [pc |-> "recover", at |-> NoAttempt, outcome |-> Unknown]

Later(x, y) == IF x > y THEN x ELSE y

Configured == settings.chat # NoChat /\ settings.token
\* _revalidate: a test always qualifies.
Qualifies(d) == Kind[d] = "test" \/ d \in eligible
Allowed(d) == Kind[d] = "test" \/ settings.enabled

Cancelled(row) == [row EXCEPT !.state = "cancelled", !.next = 0]

\* The row still belongs to the attempt: nobody retried or claimed it since.
\* Fault: the generation is not compared.
Current_Fault(row, count, n, attempt) == count = n
Current(row, count, n, attempt) == count = n /\ row.generation = attempt.generation

(***************************************************************************)
(* _recover, which every claim and every retry runs first.                 *)
(***************************************************************************)
Expired(a) == a.state = "sending" /\ a.deadline <= clock

RecoveredAttempts ==
    [d \in Delivery |-> [n \in 1 .. Len(attempts[d]) |->
        LET a == attempts[d][n]
        IN  IF Expired(a)
            THEN [a EXCEPT !.state = "unknown", !.finished = clock, !.recovered = TRUE]
            ELSE a]]

\* Fault: recovery resolves the attempt and forgets its row.
RecoveredRow_Fault(d) == rows[d]
RecoveredRow(d) ==
    IF \E n \in 1 .. Len(attempts[d]) :
          Expired(attempts[d][n]) /\ Current(rows[d], Len(attempts[d]), n, attempts[d][n])
    THEN [rows[d] EXCEPT !.state = "unknown", !.next = 0]
    ELSE rows[d]

Deadline(id) == attempts[id[1]][id[2]].deadline

RecoveredChat(c) ==
    IF throttle[c].busy # NoAttempt /\ Deadline(throttle[c].busy) <= clock
    THEN [busy |-> NoAttempt, next |-> Later(throttle[c].next, clock)]
    ELSE throttle[c]

RecoveredRows == [d \in Delivery |-> RecoveredRow(d)]
RecoveredChats == [c \in Chat |-> RecoveredChat(c)]

(***************************************************************************)
(* The administrator and the passage of time.                              *)
(***************************************************************************)
Tick ==
    /\ clock < Horizon
    /\ clock' = clock + 1
    /\ UNCHANGED <<settings, eligible, rows, attempts, throttle, requests, worker, telegram>>

\* A plan expires, is renewed or taken away, a user is suspended or restored.
EligibilityChanges(d) ==
    /\ Kind[d] = "package_expiry"
    /\ eligible' = IF d \in eligible THEN eligible \ {d} ELSE eligible \cup {d}
    /\ UNCHANGED <<clock, settings, rows, attempts, throttle, requests, worker, telegram>>

MayEnable(new) == new.chat # NoChat /\ new.token

\* A repeated or outdated request fails its revision check and changes nothing.
update_settings(new) ==
    LET set == new.chat # NoChat /\ new.token
    IN  /\ new.enabled => MayEnable(new)
        /\ settings' = new
        /\ rows' = [d \in Delivery |->
              IF rows[d].state = "queued"
                 /\ (~set \/ (Kind[d] = "package_expiry" /\ ~new.enabled))
              THEN Cancelled(rows[d]) ELSE rows[d]]
        /\ UNCHANGED <<clock, eligible, attempts, throttle, requests, worker, telegram>>

Queued(now) ==
    [state |-> "queued", generation |-> 0, accepted_once |-> FALSE, created |-> now, next |-> now]

\* A repeated request finds its own row and changes nothing.
enqueue_test(d) ==
    /\ Kind[d] = "test" /\ rows[d].state = "none" /\ Configured
    /\ rows' = [rows EXCEPT ![d] = Queued(clock)]
    /\ UNCHANGED <<clock, settings, eligible, attempts, throttle, requests, worker, telegram>>

\* expected_attempt_id
SeenIsLast(d, seen) == seen = Len(attempts[d])

\* _retry_time, of an attempt that ended at that time
RetryTime(row, ended, deadline) ==
    LET t == IF row.state = "unknown" THEN Later(ended, deadline) ELSE ended
        chat == RecoveredChat(settings.chat)
    IN  IF settings.chat = NoChat THEN t
        ELSE IF chat.busy = NoAttempt THEN Later(t, chat.next)
        ELSE Later(Later(t, chat.next), Deadline(chat.busy))

Confirms(row, confirmed) == row.state = "unknown" => confirmed

\* A used request id returns its delivery; a refusal rolls the recovery back.
retry(q, d, seen, confirmed) ==
    LET row == RecoveredRow(d)
    IN  /\ requests[q] = NoRequest
        /\ Len(attempts[d]) > 0 /\ SeenIsLast(d, seen)
        /\ row.state \in {"unknown", "failed"} /\ ~row.accepted_once
        /\ LET last == RecoveredAttempts[d][Len(attempts[d])]
           IN  RetryTime(row, last.finished, last.deadline) <= clock
        /\ Confirms(row, confirmed)
        /\ Allowed(d) /\ Configured /\ Qualifies(d)
        /\ rows' = [RecoveredRows EXCEPT ![d] =
              [row EXCEPT !.state = "queued", !.next = clock, !.generation = @ + 1]]
        /\ attempts' = RecoveredAttempts
        /\ throttle' = RecoveredChats
        /\ requests' = [requests EXCEPT
              ![q] = [delivery |-> d, seen |-> seen, confirmed |-> confirmed]]
        /\ UNCHANGED <<clock, settings, eligible, worker, telegram>>

(***************************************************************************)
(* The worker: tick().                                                     *)
(***************************************************************************)
Goes(place) == worker' = [worker EXCEPT !.pc = place]

recover ==
    /\ worker.pc = "recover"
    /\ rows' = RecoveredRows /\ attempts' = RecoveredAttempts /\ throttle' = RecoveredChats
    /\ Goes("scan")
    /\ UNCHANGED <<clock, settings, eligible, requests, telegram>>

\* Not due yet, notifications are off, or it is before nine.
SkipScan ==
    /\ worker.pc = "scan"
    /\ Goes("claim")
    /\ UNCHANGED <<clock, settings, eligible, store, requests, telegram>>

Revivable(d) == rows[d].state = "cancelled" /\ attempts[d] = <<>> /\ ~rows[d].accepted_once

scan ==
    /\ worker.pc = "scan"
    /\ settings.enabled /\ Configured
    /\ rows' = [d \in Delivery |->
          IF Kind[d] = "test" \/ d \notin eligible THEN rows[d]
          ELSE IF rows[d].state = "none" THEN Queued(clock)
          ELSE IF Revivable(d) THEN [rows[d] EXCEPT !.state = "queued", !.next = clock]
          ELSE rows[d]]
    /\ Goes("claim")
    /\ UNCHANGED <<clock, settings, eligible, attempts, throttle, requests, telegram>>

Due == {d \in Delivery : RecoveredRow(d).state = "queued" /\ RecoveredRow(d).next <= clock}
Dead(d) == RecoveredRow(d).accepted_once \/ ~Allowed(d) \/ ~Qualifies(d)
Live == {d \in Due : ~Dead(d)}

Before(d, e) ==
    \/ rows[d].created < rows[e].created
    \/ rows[d].created = rows[e].created /\ d < e

ChatFree(chat) == chat.busy = NoAttempt /\ chat.next <= clock

NewAttempt(d) ==
    [state |-> "sending", generation |-> RecoveredRow(d).generation, chat |-> settings.chat,
     started |-> clock, deadline |-> clock + Lease, finished |-> clock,
     recovered |-> FALSE, late |-> FALSE]

\* Rows that must not be sent are cancelled on the way to the oldest that may.
claim(d) ==
    /\ worker.pc = "claim" /\ d \in Live /\ \A e \in Live \ {d} : Before(d, e)
    /\ Configured /\ ChatFree(RecoveredChat(settings.chat))
    /\ Len(attempts[d]) < MaxAttempts /\ clock + Lease <= Horizon
    /\ attempts' = [RecoveredAttempts EXCEPT ![d] = Append(@, NewAttempt(d))]
    /\ rows' = [e \in Delivery |->
          IF e = d THEN [RecoveredRow(d) EXCEPT !.state = "sending", !.next = 0]
          ELSE IF e \in Due \ Live /\ Before(e, d) THEN Cancelled(RecoveredRow(e))
          ELSE RecoveredRow(e)]
    /\ throttle' = [RecoveredChats EXCEPT ![settings.chat] =
          [busy |-> <<d, Len(attempts[d]) + 1>>, next |-> clock + Interval]]
    /\ worker' = [worker EXCEPT !.pc = "check", !.at = <<d, Len(attempts[d]) + 1>>]
    /\ UNCHANGED <<clock, settings, eligible, requests, telegram>>

\* Nothing to send, or the chat has to wait.
ClaimNothing ==
    /\ worker.pc = "claim"
    /\ Live # {} => Configured /\ ~ChatFree(RecoveredChat(settings.chat))
    /\ rows' = [e \in Delivery |->
          IF e \in Due \ Live THEN Cancelled(RecoveredRow(e)) ELSE RecoveredRow(e)]
    /\ attempts' = RecoveredAttempts /\ throttle' = RecoveredChats
    /\ worker' = AtStart
    /\ UNCHANGED <<clock, settings, eligible, requests, telegram>>

\* The lease may have run down before the worker got here: nothing was sent.
CheckLease ==
    /\ worker.pc = "check"
    /\ worker' = IF Deadline(worker.at) - clock < SendNeeds
                 THEN [worker EXCEPT !.pc = "receipt", !.outcome = NotSent]
                 ELSE [worker EXCEPT !.pc = "connect"]
    /\ UNCHANGED <<clock, settings, eligible, store, requests, telegram>>

Receives(outcome) == worker' = [worker EXCEPT !.pc = "receipt", !.outcome = outcome]

\* Refused before anything was written: bad credentials, TLS, no connection.
ConnectFails(outcome) ==
    /\ worker.pc = "connect"
    /\ Receives(outcome)
    /\ UNCHANGED <<clock, settings, eligible, store, requests, telegram>>

Post ==
    /\ worker.pc = "connect"
    /\ telegram' = [telegram EXCEPT ![worker.at] = "posted"]
    /\ Goes("response")
    /\ UNCHANGED <<clock, settings, eligible, store, requests>>

\* Telegram gets to the request, perhaps long after everybody stopped waiting.
TelegramDecides(id, fate) ==
    /\ telegram[id] = "posted"
    /\ telegram' = [telegram EXCEPT ![id] = fate]
    /\ UNCHANGED <<clock, settings, eligible, store, requests, worker>>

\* Fault: a connection lost after the request was written is safe to retry.
Lost_Fault == NotSent
\* A timeout, a closed connection or an answer that proves nothing.
Lost == Unknown

\* _classify_response
Answers ==
    CASE telegram[worker.at] = "delivered" -> {Accepted, Lost}
      [] telegram[worker.at] = "rejected"  -> {Rejected, Lost} \cup {RateLimited(n) : n \in RetryAfter}
      [] OTHER -> {Lost}

Answer ==
    /\ worker.pc = "response"
    /\ \E outcome \in Answers : Receives(outcome)
    /\ UNCHANGED <<clock, settings, eligible, store, requests, telegram>>

\* CancelledError: the receipt is written by a task that outlives the send.
Interrupted ==
    /\ worker.pc \in {"connect", "response"}
    /\ Receives(Unknown)
    /\ UNCHANGED <<clock, settings, eligible, store, requests, telegram>>

\* finish() on an attempt that has its receipt already changes nothing.
Settled(a) == (a.state # "sending" /\ ~a.recovered) \/ a.late

\* Fault: an unknown result frees the chat at once.
FreesChat_Fault(outcome, a) == TRUE
FreesChat(outcome, a) == outcome.state # "unknown" \/ clock >= a.deadline

\* What finish() makes of the row its attempt still owns.
FinishedRow(d, row, outcome, chatNext) ==
    IF /\ outcome.retryable /\ Len(attempts[d]) < MAX_AUTOMATIC_ATTEMPTS /\ ~row.accepted_once
       /\ Allowed(d) /\ Qualifies(d)
    THEN LET wait == IF outcome.delay > 0 THEN outcome.delay ELSE Backoff[Len(attempts[d])]
         IN  [row EXCEPT !.state = "queued", !.next = Later(clock + wait, chatNext)]
    ELSE [row EXCEPT !.state = outcome.state, !.next = 0]

finish ==
    LET d == worker.at[1]
        n == worker.at[2]
        a == attempts[d][n]
        o == worker.outcome
        next == Later(throttle[a.chat].next, clock + Later(Interval, o.delay))
        row == [rows[d] EXCEPT !.accepted_once = @ \/ o.state = "accepted"]
    IN  /\ worker.pc = "receipt"
        /\ worker' = AtStart
        /\ IF Settled(a) THEN UNCHANGED store ELSE
            /\ attempts' = [attempts EXCEPT ![d][n] =
                  [a EXCEPT !.state = o.state, !.finished = clock,
                            !.late = @ \/ a.recovered \/ clock > a.deadline]]
            /\ throttle' = [throttle EXCEPT ![a.chat] =
                  [next |-> next,
                   busy |-> IF @.busy = worker.at /\ FreesChat(o, a) THEN NoAttempt ELSE @.busy]]
            /\ rows' = [rows EXCEPT ![d] =
                  IF Current(row, Len(attempts[d]), n, a) THEN FinishedRow(d, row, o, next) ELSE row]
        /\ UNCHANGED <<clock, settings, eligible, requests, telegram>>

\* A transaction raises, a receipt cannot be saved, the process ends: the next
\* tick starts from what is stored.
Abandon ==
    /\ worker # AtStart
    /\ worker' = AtStart
    /\ UNCHANGED <<clock, settings, eligible, store, requests, telegram>>

-----------------------------------------------------------------------------
Init ==
    /\ clock = 0
    /\ settings = [enabled |-> FALSE, chat |-> NoChat, token |-> FALSE]
    /\ eligible \in SUBSET {d \in Delivery : Kind[d] = "package_expiry"}
    /\ rows = [d \in Delivery |-> NoRow]
    /\ attempts = [d \in Delivery |-> <<>>]
    /\ throttle = [c \in Chat |-> [busy |-> NoAttempt, next |-> 0]]
    /\ requests = [q \in Request |-> NoRequest]
    /\ worker = AtStart
    /\ telegram = [id \in Attempt |-> "none"]

Administrator ==
    \/ \E new \in Settings : update_settings(new)
    \/ \E d \in Delivery : enqueue_test(d) \/ EligibilityChanges(d)
    \/ \E q \in Request, d \in Delivery, seen \in 1 .. MaxAttempts, confirmed \in BOOLEAN :
          retry(q, d, seen, confirmed)

Send ==
    \/ CheckLease \/ Post \/ Answer \/ Interrupted
    \/ \E outcome \in {NotSent, Rejected} : ConnectFails(outcome)

Worker ==
    \/ recover \/ SkipScan \/ scan \/ ClaimNothing \/ Send \/ finish \/ Abandon
    \/ \E d \in Delivery : claim(d)

Next ==
    \/ Tick \/ Administrator \/ Worker
    \/ \E id \in Attempt, fate \in {"delivered", "rejected"} : TelegramDecides(id, fate)

Spec == Init /\ [][Next]_vars

-----------------------------------------------------------------------------
\* The state has the shape the code gives it.
TypeOK ==
    /\ clock \in Nat
    /\ settings \in [enabled : BOOLEAN, chat : Chat \cup {NoChat}, token : BOOLEAN]
    /\ settings.enabled => Configured
    /\ eligible \subseteq Delivery
    /\ rows \in [Delivery -> Row]
    /\ attempts \in [Delivery -> Seq(AttemptRow)]
    /\ \A d \in Delivery : Len(attempts[d]) <= MaxAttempts
    /\ throttle \in [Chat -> [busy : Attempt \cup {NoAttempt}, next : Nat]]
    /\ requests \in [Request ->
          [delivery : Delivery, seen : 1 .. MaxAttempts, confirmed : BOOLEAN] \cup {NoRequest}]
    /\ worker \in [pc : Place, at : Attempt \cup {NoAttempt}, outcome : Outcome]
    /\ telegram \in [Attempt -> {"none", "posted", "delivered", "rejected"}]

\* No second message without consent: when a request that arrived, or still may,
\* is followed by another one for the same delivery, then in between an
\* administrator retried it knowing that the first one may have arrived.
ResendIsConfirmed ==
    \A d \in Delivery : \A j \in 1 .. Len(attempts[d]) : \A i \in 1 .. j - 1 :
        telegram[<<d, i>>] \in {"posted", "delivered"} /\ telegram[<<d, j>>] # "none" =>
            \E q \in Request :
                /\ requests[q] # NoRequest /\ requests[q].delivery = d
                /\ requests[q].confirmed /\ requests[q].seen \in i .. j - 1

\* What the panel shows is the result of the attempt that owns the row, whatever
\* receipts of superseded attempts come in late.
RowFollowsAttempt ==
    \A d \in Delivery :
        rows[d].state \in {"sending", "accepted", "failed", "unknown"} =>
            /\ Len(attempts[d]) > 0
            /\ attempts[d][Len(attempts[d])].state = rows[d].state
            /\ attempts[d][Len(attempts[d])].generation = rows[d].generation

\* A chat gets one message at a time, CHAT_INTERVAL apart, and after an attempt
\* nobody knows the end of, none before that attempt's deadline.
ChatSpacing ==
    \A d, e \in Delivery : \A i \in 1 .. Len(attempts[d]), j \in 1 .. Len(attempts[e]) :
        LET a == attempts[d][i]
            b == attempts[e][j]
        IN  <<d, i>> # <<e, j>> /\ a.chat = b.chat /\ a.started <= b.started =>
                /\ a.started + Interval <= b.started
                /\ a.state \in {"sending", "unknown"} => a.deadline <= b.started

\* Every claim is resolved: no delivery stays in sending.
ClaimsResolve ==
    \A d \in Delivery : rows[d].state = "sending" ~> rows[d].state # "sending"

=============================================================================
