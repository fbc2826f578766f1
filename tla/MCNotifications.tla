--------------------------- MODULE MCNotifications ---------------------------
(***************************************************************************)
(* An instance of Notifications for TLC.  Delivery 1 is an expiry notice    *)
(* and delivery 2 a test; one of them is retried while the settings change, *)
(* or both, with the settings on, compete for a chat.  The clock counts in  *)
(* units of a chat interval.                                                *)
(***************************************************************************)
EXTENDS Notifications

CONSTANTS c1, q1

Kinds == [d \in {1, 2} |-> IF d = 1 THEN "package_expiry" ELSE "test"]
Doubling == [n \in 1 .. MaxAttempts |-> 2 ^ (n - 1)]

On == [enabled |-> TRUE, chat |-> c1, token |-> TRUE]
Saved == {On, [On EXCEPT !.enabled = FALSE, !.token = FALSE], [On EXCEPT !.token = FALSE]}

VARIABLE active   \* the deliveries there are

ActiveInit == Init /\ active \in {{1}, {2}, {1, 2}} /\ eligible \subseteq active

\* What a step of the instance keeps to.
Shown ==
    /\ UNCHANGED active
    /\ eligible' \subseteq active /\ \A d \in Delivery \ active : rows'[d] = rows[d]
    /\ active = {1, 2} => /\ UNCHANGED <<requests, eligible>> /\ settings' \in {settings, On}
                          /\ \A d \in Delivery : Len(attempts'[d]) < MaxAttempts

\* The worker's loop goes on, whatever fails in it, and time passes.
ActiveFairSpec ==
    /\ ActiveInit /\ [][Next /\ Shown]_<<vars, active>>
    /\ WF_vars(Worker /\ Shown) /\ WF_vars(Tick /\ Shown)
=============================================================================
