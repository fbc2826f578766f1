----------------------------- MODULE MCHostJobs -----------------------------
(***************************************************************************)
(* AgentRelease and HostJobs for TLC.  A behaviour shows the deployment     *)
(* alone, with every command of the owner, or an installed host with its    *)
(* helper and few commands.                                                *)
(***************************************************************************)
EXTENDS HostJobs

CONSTANTS r1, r2, q1, q2, MaxHelperFaults

VARIABLE side

UpgradeThenRemove ==
    [q \in {q1, q2} |-> [action |-> IF q = q1 THEN "upgrade" ELSE "uninstall", release |-> r2]]

SideInit ==
    /\ HostInit /\ side \in {"deployment", "helper"}
    /\ side = "helper" => record.current = r1

SideNext ==
    /\ UNCHANGED side
    /\ \/ side = "deployment" /\ Next /\ UNCHANGED <<jobs, host, owner, commands>>
       \/ side = "helper" /\ HostNext /\ faults' <= MaxHelperFaults

\* Fairness of the deployment's own operations: a process that is not disturbed goes on, and the
\* owner runs recover until it gets the lock, for as long as status asks for it.
SideFairSpec ==
    /\ SideInit /\ [][SideNext]_<<hostVars, side>>
    /\ WF_vars(side = "deployment" /\ Step)
    /\ SF_vars(side = "deployment" /\ Unrecovered /\ recover)

\* Whatever was interrupted, recover ends with nothing left to recover.
DeploymentRecovers == side = "deployment" => RecoveryCompletes
=============================================================================
