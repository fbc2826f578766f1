------------------------------ MODULE HostJobs ------------------------------
(***************************************************************************)
(* The lifecycle helper (agent/lifecycle_host.py): a root service that      *)
(* takes upgrade, rollback and uninstall requests from the agent, keeps     *)
(* them in a journal, runs each in a child process that does what           *)
(* AgentRelease describes, and reports the result to the panel.  The host's *)
(* owner uses the same deployment from the command line.                    *)
(*                                                                         *)
(* The helper is replaced while it works: a policy change stops its units,  *)
(* the host reboots, and systemd restarts it when it dies, its children     *)
(* with it.                                                                *)
(***************************************************************************)
EXTENDS AgentRelease

CONSTANTS
    Request,      \* request identities
    Wanted,       \* what each asks for
    MaxCommands   \* bound: commands the owner gives

ASSUME RequestAssumption ==
    /\ Wanted \in [Request -> [action : {"upgrade", "rollback", "uninstall"}, release : Release]]
    /\ MaxCommands \in Nat

VARIABLES
    jobs,       \* jobs.sqlite
    host,       \* the worker thread: its place, its job, what its child is for
    owner,      \* whose process holds the deployment lock
    commands    \* commands the owner has given

hostVars == <<vars, jobs, host, owner, commands>>
deployment == <<record, disk, service, helper, proc, wanted, paused>>

NoJob == [status |-> "none", result |-> "none", reported |-> FALSE, runs |-> 0, after |-> None]
HostDown == [pc |-> "down", job |-> None, recovering |-> FALSE, result |-> "none"]

Unfinished(q) == jobs[q].status \in {"queued", "running"}

(***************************************************************************)
(* The socket.                                                             *)
(***************************************************************************)
\* Host.handle and JobStore.submit; a repeated request finds its row.
submit(q) ==
    /\ host.pc # "down" /\ Loads
    /\ jobs[q].status = "none" /\ record.status = "installed"
    /\ \A p \in Request : ~Unfinished(p)
    /\ jobs' = [jobs EXCEPT ![q].status = "queued"]
    /\ UNCHANGED <<vars, host, owner, commands>>

(***************************************************************************)
(* The worker.                                                             *)
(***************************************************************************)
HostStarts ==
    /\ host.pc = "down" /\ helper /\ Loads
    /\ host' = [HostDown EXCEPT !.pc = "boot"]
    /\ UNCHANGED <<vars, jobs, owner, commands>>

WereRunning == {q \in Request : jobs[q].status = "running"}

HostBoots ==
    /\ host.pc = "boot"
    /\ \/ \E q \in WereRunning : host' = [host EXCEPT !.pc = "recover", !.job = q]
       \/ WereRunning = {} /\ host' = [host EXCEPT !.pc = "loop"]
    /\ UNCHANGED <<vars, jobs, owner, commands>>

TakesJob(q) ==
    /\ host.pc = "loop" /\ jobs[q].status = "queued"
    /\ jobs' = [jobs EXCEPT ![q].status = "running"]
    /\ host' = [HostDown EXCEPT !.pc = "spawn", !.job = q]
    /\ UNCHANGED <<vars, owner, commands>>

\* execute_job: the operation, under the deployment's lock.
Operation(q) ==
    CASE Wanted[q].action = "upgrade"   -> upgrade(Wanted[q].release)
      [] Wanted[q].action = "rollback"  -> rollback
      [] Wanted[q].action = "uninstall" -> uninstall(FALSE, TRUE)

ChildBegins ==
    LET q == host.job
    IN  /\ host.pc = "spawn" /\ Operation(q)
        /\ jobs' = [jobs EXCEPT ![q].runs = @ + 1]
        /\ owner' = "host" /\ host' = [host EXCEPT !.pc = "child"]
        /\ UNCHANGED commands

Ends(result) == host' = [host EXCEPT !.pc = "finish", !.result = result]

\* The lock is taken, the wheel cannot be had, or the operation is refused.
ChildRefused ==
    /\ host.pc = "spawn"
    /\ Ends("error")
    /\ UNCHANGED <<vars, jobs, owner, commands>>

\* Fault: a recovered job counts as done.
AfterRecovery_Fault == "ok"
AfterRecovery == "interrupted"

\* How an operation that ends here has ended.
Outcome ==
    IF host.recovering THEN AfterRecovery
    ELSE IF \/ proc.pc \in {"commit", "staged"} /\ proc.op \in {"upgrade", "rollback"}
            \/ proc.pc = "remove" /\ proc.op = "uninstall"
         THEN "ok" ELSE "error"

ChildStep ==
    /\ owner = "host" /\ ~At("undo stop") /\ Step
    /\ IF proc' = NoProc
       THEN /\ owner' = "none" /\ Ends(Outcome)
            /\ jobs' = [jobs EXCEPT ![host.job].after = record'.current]
       ELSE UNCHANGED <<jobs, host, owner>>
    /\ UNCHANGED commands

ChildStepFails ==
    /\ owner = "host" /\ StepFails
    /\ IF proc' = NoProc THEN owner' = "none" /\ Ends("error") ELSE UNCHANGED <<host, owner>>
    /\ UNCHANGED <<jobs, commands>>

\* What the worker does about a child that did not answer.
GivesUp ==
    host' = IF host.recovering THEN [host EXCEPT !.pc = "finish", !.result = "review"]
            ELSE [host EXCEPT !.pc = "recover", !.result = "none"]

\* The time limit: the process group is killed.
ChildKilled ==
    /\ owner = "host" /\ Killed
    /\ owner' = "none" /\ GivesUp
    /\ UNCHANGED <<jobs, commands>>

\* It ends without an answer before it has the lock, or while it waits for the wheel.
ChildDies ==
    /\ host.pc = "spawn" /\ Strikes /\ GivesUp
    /\ UNCHANGED <<deployment, jobs, owner, commands>>

\* recover_policy stops the helper's own units, and with them the child that does it.
ChildStopsItself ==
    /\ owner = "host" /\ At("undo stop")
    /\ Pauses /\ Exit
    /\ host' = HostDown /\ owner' = "none"
    /\ UNCHANGED <<record, disk, service, faults, wanted, jobs, commands>>

\* recover: only of a job that is still running, and if the lock can be had.
RecoveryBegins ==
    /\ host.pc = "recover" /\ jobs[host.job].status = "running" /\ recover
    /\ owner' = "host" /\ host' = [host EXCEPT !.pc = "child", !.recovering = TRUE]
    /\ UNCHANGED <<jobs, commands>>

RecoveryRefused ==
    /\ host.pc = "recover" /\ (jobs[host.job].status # "running" \/ proc # NoProc)
    /\ host' = [host EXCEPT !.pc = "finish", !.recovering = TRUE,
                  !.result = IF jobs[host.job].status # "running" THEN "review" ELSE "error"]
    /\ UNCHANGED <<vars, jobs, owner, commands>>

\* JobStore.finish: WHERE result IS NULL
Unanswered(q) == jobs[q].result = "none"

Finished ==
    IF Unanswered(host.job)
    THEN [jobs EXCEPT ![host.job].status = IF host.result = "ok" THEN "succeeded" ELSE "failed",
                      ![host.job].result = host.result]
    ELSE jobs

finish ==
    /\ host.pc = "finish"
    /\ jobs' = Finished
    /\ host' = [HostDown EXCEPT !.pc = "loop"]
    /\ UNCHANGED <<vars, owner, commands>>

\* The journal raises, before or after it has stored the result.
FinishFails ==
    /\ host.pc = "finish" /\ ~host.recovering /\ Strikes
    /\ jobs' \in {jobs, Finished}
    /\ GivesUp
    /\ UNCHANGED <<deployment, owner, commands>>

\* lifecycle_report: delivered, and acknowledged if the answer comes back.
acknowledge(q) ==
    /\ host.pc = "loop" /\ jobs[q].result # "none" /\ ~jobs[q].reported
    /\ jobs' = [jobs EXCEPT ![q].reported = TRUE]
    /\ UNCHANGED <<vars, host, owner, commands>>

MayLeave == \A q \in Request : jobs[q].status # "none" => jobs[q].reported

HostLeaves ==
    /\ host.pc = "loop" /\ record.status = "removed" /\ MayLeave
    /\ helper' = FALSE /\ host' = HostDown
    /\ UNCHANGED <<record, disk, service, proc, faults, wanted, paused, jobs, owner, commands>>

\* systemd kills the whole control group.
HostDies ==
    /\ host.pc # "down" /\ Strikes
    /\ host' = HostDown
    /\ IF owner = "host" THEN owner' = "none" /\ proc' = NoProc ELSE UNCHANGED <<owner, proc>>
    /\ UNCHANGED <<record, disk, service, helper, wanted, paused, jobs, commands>>

(***************************************************************************)
(* The owner's commands and the host.                                      *)
(***************************************************************************)
\* policy_helpers: a policy is not changed while a job is unfinished.
OwnerBegins ==
    /\ owner = "none" /\ commands < MaxCommands
    /\ commands' = commands + 1
    /\ \/ Operator /\ (proc'.op = "policy" => \A q \in Request : ~Unfinished(q))
       \/ recover
    /\ owner' = IF proc' = NoProc THEN "none" ELSE "cli"
    /\ UNCHANGED <<jobs, host>>

\* Stopping its units ends the helper.
OwnerStep ==
    /\ owner = "cli" /\ (Step \/ StepFails \/ Killed)
    /\ owner' = IF proc' = NoProc THEN "none" ELSE "cli"
    /\ host' = IF helper' THEN host ELSE HostDown
    /\ UNCHANGED <<jobs, commands>>

HostReboots ==
    /\ Reboot
    /\ owner' = "none" /\ host' = HostDown
    /\ UNCHANGED <<jobs, commands>>

-----------------------------------------------------------------------------
HostInit ==
    /\ Init /\ jobs = [q \in Request |-> NoJob]
    /\ host = HostDown /\ owner = "none" /\ commands = 0

Worker ==
    \/ HostStarts \/ HostBoots \/ ChildBegins \/ ChildRefused \/ ChildStep \/ ChildStopsItself
    \/ RecoveryBegins \/ RecoveryRefused \/ finish \/ HostLeaves
    \/ \E q \in Request : TakesJob(q)

HostNext ==
    \/ Worker \/ OwnerBegins \/ OwnerStep \/ HostReboots
    \/ \E q \in Request : submit(q) \/ acknowledge(q)
    \/ ChildStepFails \/ ChildDies \/ ChildKilled \/ FinishFails \/ HostDies

HostSpec == HostInit /\ [][HostNext]_hostVars

-----------------------------------------------------------------------------
\* However often a request is delivered again, and whatever is killed in between, its
\* operation is begun once; and one reported as successful did what it asked for: its
\* process left the release selected, or the agent removed.
RequestsHonest ==
    \A q \in Request :
        /\ jobs[q].runs <= 1
        /\ jobs[q].result = "ok" =>
            /\ Wanted[q].action = "upgrade" => jobs[q].after = Wanted[q].release
            /\ Wanted[q].action = "uninstall" => jobs[q].after = None

=============================================================================
