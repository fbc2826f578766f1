----------------------------- MODULE LimitBucket -----------------------------
(***************************************************************************)
(* The token bucket a user's streams share (nodelimits/bucket.go), over the *)
(* reservations of golang.org/x/time/rate, which is external: reserving     *)
(* runs into debt and says when the debt will be paid; cancelling gives     *)
(* back what no later reservation stands on.                               *)
(*                                                                         *)
(* A new limit wakes every stream that waits under the old one.  Each then  *)
(* cancels its reservation and makes another, but not at once: others       *)
(* reserve in between.                                                     *)
(*                                                                         *)
(* Time is counted in ticks, the times of reservations in 1/Scale ticks.    *)
(***************************************************************************)
EXTENDS Integers, FiniteSetsExt

CONSTANTS
    Stream,
    Rate,        \* limits, in tokens per tick; 0 is no limit
    Burst,       \* the burst of each limit
    Scale,       \* a multiple of every limit
    Size,        \* the sizes of buffers
    MaxTime, MaxChanges, MaxDebt   \* bounds: clock, changes of the limit, tokens owed when a buffer comes

VARIABLES
    now,
    value,       \* b.value
    tokens, last, lastEvent,   \* the limiter
    generation,  \* the current b.changed
    stream,      \* the calls of wait
    allowance    \* what may still pass in this period

vars == <<now, value, tokens, last, lastEvent, generation, stream, allowance>>

Idle == [pc |-> "idle", size |-> 0, n |-> 0, act |-> 0, limit |-> 0, changed |-> 0]
Waiting == {s \in Stream : stream[s].pc = "wait"}
Stale(s) == stream[s].changed # generation
Fresh == {s \in Waiting : ~Stale(s)}
Reserved(S) == MapThenSumSet(LAMBDA s : stream[s].n, S)

(***************************************************************************)
(* The limiter.                                                            *)
(***************************************************************************)
AtMost(a, b) == IF a <= b THEN a ELSE b
AtLeast(a, b) == IF a >= b THEN a ELSE b

\* No limit fills the bucket at once.
Advanced == IF value = 0 THEN Burst[0] ELSE AtMost(tokens + value * (now - last), Burst[value])

\* What a cancelled reservation gives back.
Restored(r) ==
    IF value = 0 \/ r.act < Scale * now THEN 0
    ELSE AtLeast(0, r.n - (r.limit * (lastEvent - r.act)) \div Scale)

Cancelled(r) ==
    IF Restored(r) = 0 THEN UNCHANGED <<tokens, last, lastEvent>>
    ELSE LET before == r.act - (Scale * r.n) \div r.limit IN
         /\ tokens' = AtMost(Advanced + Restored(r), Burst[value])
         /\ last' = now
         /\ lastEvent' = IF r.act = lastEvent /\ before >= Scale * now THEN before ELSE lastEvent

(***************************************************************************)
(* set                                                                     *)
(***************************************************************************)
set(v) ==
    /\ v # value /\ generation < MaxChanges
    /\ tokens' = Advanced /\ last' = now
    /\ value' = v /\ generation' = generation + 1
    /\ allowance' = Burst[v]
    /\ UNCHANGED <<now, lastEvent, stream>>

(***************************************************************************)
(* wait                                                                    *)
(***************************************************************************)
wait(s, size) ==
    /\ stream[s].pc = "idle" /\ tokens >= -MaxDebt
    /\ stream' = [stream EXCEPT ![s] = [Idle EXCEPT !.pc = "reserve", !.size = size]]
    /\ UNCHANGED <<now, value, tokens, last, lastEvent, generation, allowance>>

Passed(s, n) ==
    [Idle EXCEPT !.pc = IF stream[s].size = n THEN "idle" ELSE "reserve", !.size = stream[s].size - n]

Reserve(s) ==
    LET n == AtMost(stream[s].size, Burst[value])
        left == Advanced - n
        act == Scale * now + (Scale * (n - Advanced)) \div value
    IN
    /\ stream[s].pc = "reserve"
    /\ IF value = 0
       THEN /\ stream' = [stream EXCEPT ![s] = Passed(s, n)]
            /\ UNCHANGED <<tokens, last, lastEvent, allowance>>
       ELSE /\ tokens' = left /\ last' = now
            /\ lastEvent' = IF left < 0 THEN act ELSE Scale * now
            /\ stream' = [stream EXCEPT ![s] =
                   IF left < 0 THEN [pc |-> "wait", size |-> @.size, n |-> n, act |-> act,
                                     limit |-> value, changed |-> generation]
                   ELSE Passed(s, n)]
            /\ allowance' = IF left < 0 THEN allowance ELSE allowance - n
    /\ UNCHANGED <<now, value, generation>>

\* A period begins anew when a reservation is given up, or one made under another limit is used:
\* the limiter may then give back more than it took.
Settles(s, passed) ==
    allowance' = IF passed = 0 \/ Stale(s) THEN Burst[value] + Reserved(Fresh \ {s}) ELSE allowance - passed

\* Fault: the reservation is cancelled on every way out.
TimerFires_Fault(s) ==
    /\ s \in Waiting /\ stream[s].act <= Scale * now
    /\ stream' = [stream EXCEPT ![s] = Passed(s, stream[s].n)]
    /\ Cancelled(stream[s]) /\ Settles(s, stream[s].n)
    /\ UNCHANGED <<now, value, generation>>

TimerFires(s) ==
    /\ s \in Waiting /\ stream[s].act <= Scale * now
    /\ stream' = [stream EXCEPT ![s] = Passed(s, stream[s].n)]
    /\ Settles(s, stream[s].n)
    /\ UNCHANGED <<now, value, tokens, last, lastEvent, generation>>

\* Fault: the old reservation is left behind.
Changed_Fault(s) ==
    /\ s \in Waiting /\ Stale(s)
    /\ stream' = [stream EXCEPT ![s] = [Idle EXCEPT !.pc = "reserve", !.size = stream[s].size]]
    /\ Settles(s, 0)
    /\ UNCHANGED <<now, value, tokens, last, lastEvent, generation>>

Changed(s) ==
    /\ s \in Waiting /\ Stale(s)
    /\ stream' = [stream EXCEPT ![s] = [Idle EXCEPT !.pc = "reserve", !.size = stream[s].size]]
    /\ Cancelled(stream[s]) /\ Settles(s, 0)
    /\ UNCHANGED <<now, value, generation>>

\* The connection ends.
Done(s) ==
    /\ s \in Waiting
    /\ stream' = [stream EXCEPT ![s] = Idle]
    /\ Cancelled(stream[s]) /\ Settles(s, 0)
    /\ UNCHANGED <<now, value, generation>>

Tick ==
    /\ now < MaxTime /\ now' = now + 1
    /\ allowance' = allowance + value
    /\ UNCHANGED <<value, tokens, last, lastEvent, generation, stream>>

Init ==
    /\ now = 0 /\ value = 0 /\ tokens = Burst[0] /\ last = 0 /\ lastEvent = 0
    /\ generation = 0 /\ stream = [s \in Stream |-> Idle] /\ allowance = 0

Next ==
    \/ \E v \in Rate : set(v)
    \/ \E s \in Stream, size \in Size : wait(s, size)
    \/ \E s \in Stream : Reserve(s) \/ TimerFires(s) \/ Changed(s) \/ Done(s)
    \/ Tick

Spec == Init /\ [][Next]_vars

(***************************************************************************)
(* What the bucket promises.                                               *)
(***************************************************************************)
\* In a period under one limit in which no stream is cut off, all streams together pass no more
\* than one burst and what the limit gives in that time, whatever was reserved and cancelled
\* before (set, wait).
WithinRate == value > 0 => allowance >= 0

\* The stream that reserved last gets back all of it when it gives up before its turn came, because
\* the limit changed or its connection ended: nothing is paid for and not used (wait's Cancel).
LastGetsBack ==
    [][\A s \in Stream :
          /\ s \in Waiting /\ s \notin Waiting' /\ value > 0
          /\ stream[s].act = lastEvent /\ lastEvent > Scale * now
          => tokens' >= AtMost(Advanced + stream[s].n, Burst[value])]_vars
=============================================================================
