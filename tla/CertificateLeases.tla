-------------------------- MODULE CertificateLeases --------------------------
(***************************************************************************)
(* CertificateJobs beside Http01Leases: the worker that obtains certificates *)
(* for the profiles and the leases of the challenges it presents on nodes.   *)
(* They share no variable; the leases' names are those of the instance H.    *)
(***************************************************************************)
EXTENDS CertificateJobs

CONSTANTS Profile, Token, Webroot, TTL, Horizon, Keep, MaxActive, MaxLease, MaxTime, MaxFaults

VARIABLES now, job, leases, commands, taken, checked, row, file, op, listener, faults

H == INSTANCE Http01Leases

\* What the durations and the number of leases are.
ASSUME LeaseAssumption == TTL \in Nat /\ Keep \in Nat /\ MaxLease \in Nat

leaseVars == <<now, job, leases, commands, taken, checked, row, file, op, listener, faults>>

\* What the panel believes of a lease holds on the node: one it recorded as released does not come
\* back with a late presentation, one that is validated is served, and no file is left behind
\* (Http01Leases).
LeasesHonest == H!LeasesHonest

\* The node confirms in the end that each lease was released (Http01Leases).
CleanupConfirmed == H!CleanupConfirmed
=============================================================================
