----------------------------- MODULE RemoteCall -----------------------------
(***************************************************************************)
(* What the delivery of a command to an agent promises, without queues,     *)
(* leases, sockets, retries or crashes: a call may take effect on the host  *)
(* while it is open, a call reported successful has taken effect, and once  *)
(* the control plane has an outcome nothing happens on the host any more.   *)
(***************************************************************************)
CONSTANT Call

VARIABLES
    acted,    \* the calls that have changed the host
    outcome   \* what the control plane recorded

Init ==
    /\ acted = {}
    /\ outcome = [k \in Call |-> "open"]

Act(k) ==
    /\ outcome[k] = "open"
    /\ acted' = acted \cup {k}
    /\ UNCHANGED outcome

Settle(k, o) ==
    /\ outcome[k] = "open"
    /\ o = "succeeded" => k \in acted
    /\ outcome' = [outcome EXCEPT ![k] = o]
    /\ UNCHANGED acted

Next == \E k \in Call : Act(k) \/ \E o \in {"succeeded", "failed"} : Settle(k, o)

Spec == Init /\ [][Next]_<<acted, outcome>>
=============================================================================
