-------------------------- MODULE MCCertificateJobs --------------------------
(***************************************************************************)
(* CertificateJobs and Http01Leases for TLC.  They share no variable: a     *)
(* behaviour shows the jobs of some certificates, with the crashes they     *)
(* need, or the leases of one profile.                                     *)
(***************************************************************************)
EXTENDS CertificateLeases

CONSTANTS own, copy, far, t1     \* issued by lego, a copy of it, validated on a node; a target

VARIABLE side

ASSUME /\ Horizon \in Nat /\ TTL <= Horizon
       /\ Webroot \subseteq Profile

CopyTarget == [t \in {t1} |-> copy]

JobSide == {"remote", "local", "revoke"}
Shown == [remote |-> {far}, local |-> {own}, revoke |-> {own, copy}]
Crashes == [remote |-> 2, local |-> 1, revoke |-> 1]

SideInit == side \in JobSide \cup Profile /\ Init /\ H!Init

\* What a step of the jobs' sides keeps to.
OfSide ==
    /\ side \in JobSide /\ UNCHANGED leaseVars
    /\ \A c \in Cert \ Shown[side] : certs'[c] = certs[c]
    /\ crashes' <= Crashes[side]
    /\ side # "revoke" => UNCHANGED ledger

SideNext ==
    /\ UNCHANGED side
    /\ \/ Next /\ OfSide
       \/ /\ side \in Profile /\ H!Next /\ UNCHANGED vars
          /\ \A p \in Profile \ {side} : job'[p] = job[p]

\* Fairness of the side that is shown.  Of the jobs: the worker starts again after every crash and
\* goes on with its loop; a client ends, if only by its time limit.
SideFairSpec ==
    /\ SideInit /\ [][SideNext]_<<vars, leaseVars, side>>
    /\ WF_vars(WorkerStep /\ OfSide) /\ WF_vars(ChildStep /\ OfSide)
    /\ WF_leaseVars(side \in Profile /\ H!Tick) /\ WF_leaseVars(side \in Profile /\ H!Handler)
    /\ \A p \in Profile : WF_leaseVars(side \in Profile /\ H!obtain_ends(p))
    /\ \A l \in 1 .. MaxLease : WF_leaseVars(side \in Profile /\ H!drain(l))
=============================================================================
