---------------------------- MODULE MCNodeLimits ----------------------------
(***************************************************************************)
(* NodeLimits and LimitBucket for TLC.  A behaviour shows connections under *)
(* changing policies, the writers of the document, or one user's bucket.    *)
(***************************************************************************)
EXTENDS LimitsWithBucket, TLC

CONSTANTS in, e1, e2, pair

VARIABLE side

Someone(speed, cap, conn) == [speed |-> speed, cap |-> cap, conn |-> conn, rules |-> {}]

\* Both users apart; both in one group; one of them removed; limits of the inbound and a rule.
FlowPolicies ==
    {[node |-> 0, users |-> (e1 :> Someone(2, 1, None) @@ e2 :> Someone(0, 2, None)), rules |-> {}],
     [node |-> 0, users |-> (e1 :> Someone(0, 2, pair) @@ e2 :> Someone(1, 1, pair)), rules |-> {1}],
     [node |-> 2, users |-> (e1 :> Someone(3, 0, pair) @@ e2 :> None), rules |-> {1, 3}]}

\* A provisioning command is named by the user it provisions.
Bindings == [c \in {e1, e2} |-> [tag |-> in, email |-> c, user |-> Someone(1, 0, None)]]

Bursts == [r \in {0, 1, 2} |-> IF r = 1 THEN 2 ELSE 3]

Symmetric == Permutations(Flow) \cup Permutations(Stream)

SideInit == Init /\ B!Init /\ side \in {"flows", "document", "bucket"}

SideNext ==
    /\ UNCHANGED side
    /\ \/ side = "flows" /\ Next /\ UNCHANGED <<client, bucketVars>> /\ faults' <= 1
       \/ side = "document" /\ Next /\ UNCHANGED <<flow, bucketVars>>
       \/ side = "bucket" /\ B!Next /\ UNCHANGED vars

SideSpec == SideInit /\ [][SideNext]_<<vars, bucketVars, side>>
=============================================================================
