--------------------------- MODULE CertificateJobs ---------------------------
(***************************************************************************)
(* Managed certificates (services/certificates.py), the worker that runs    *)
(* their jobs (services/certificate_worker.py) and the ACME clients it      *)
(* starts: lego for central validation, certificate_remote_acme.py for      *)
(* validation on a node, certificate_acme.py for accounts and revocation.   *)
(* A client is a process of its own: it survives a crash of the panel, goes *)
(* on with the CA and keeps worker.lock until it exits.                     *)
(*                                                                         *)
(* A certificate is its serial number, in the order the CA issues them; a   *)
(* fingerprint stands for a serial.  Jobs are numbered by created_at.       *)
(***************************************************************************)
EXTENDS Integers, Sequences, FiniteSets

CONSTANTS
    Cert,
    Remote,       \* profiles with a validation_server_id
    Imported,     \* profiles without ACME configuration
    Target,       \* deployment targets
    TargetOf,     \* the profile of each
    MaxJobs,      \* bound: jobs queued altogether
    MaxSerial,    \* bound: certificates the CA issues
    MaxCrashes    \* bound: crashes and cancellations of the panel

ASSUME CertificateAssumption ==
    /\ Remote \subseteq Cert /\ Imported \subseteq Cert /\ Remote \cap Imported = {}
    /\ TargetOf \in [Target -> Cert]
    /\ MaxJobs \in Nat /\ MaxSerial \in Nat /\ MaxCrashes \in Nat

Serial == 1 .. MaxSerial
Job == 1 .. MaxJobs

VARIABLES
    certs,      \* ManagedCertificate
    versions,   \* CertificateVersion: the serials each profile stores
    jobs,       \* CertificateJob
    ledger,     \* CertificateRevocation, by serial
    targets,    \* CertificateTarget: the serial queued last
    deploys,    \* unfinished /api/child/cert/deploy commands
    worker,     \* where the worker is, its job, its data, its list of work
    child,      \* the ACME client: its job and its step
    disk,       \* the private state directory
    ca,         \* the certificate authority
    crashes

vars == <<certs, versions, jobs, ledger, targets, deploys, worker, child, disk, ca, crashes>>
catalog == <<certs, versions, jobs, ledger, targets, deploys>>

Administration == {"account", "revoke"}
Doing == [issue |-> "issuing", renew |-> "renewing",
          account |-> "updating_account", revoke |-> "revoking"]
Unlisted == [status |-> "none", job |-> 0]
NoChild == [job |-> 0, step |-> "none"]
Down == [pc |-> "down", job |-> 0, data |-> 0, todo |-> {}]

Active(j) == jobs[j].status \in {"queued", "running"}
Revocable(s) == ledger[s].status \in {"none", "unknown"}
\* require_usable
Usable(s) == ledger[s].status = "none"

\* CertificateStore.state
State(c, entries, default) ==
    LET v == certs[c].version
    IN  IF v # 0 /\ entries[v].status # "none"
        THEN CASE entries[v].status = "pending" -> "revocation_pending"
               [] entries[v].status = "unknown" -> "revocation_unknown"
               [] entries[v].status = "revoked" -> "revoked"
        ELSE IF default # "none" THEN default ELSE IF v # 0 THEN "issued" ELSE "idle"

\* CertificateStore.mark_revocation, which every copy of the certificate sees.
Marked(now, j, entries) ==
    [c \in Cert |->
        IF now[c].version # 0 /\ now[c].version = jobs[j].serial
        THEN [now[c] EXCEPT !.auto = FALSE,
                !.status = IF now[c].active \in {0, j} THEN State(c, entries, "none") ELSE @]
        ELSE now[c]]

(***************************************************************************)
(* The administrator, and commands that come back.                         *)
(***************************************************************************)
\* CertificateStore.claim: a conditional update of active_job_id.
Claimable(c) == certs[c].active = 0

NewJob(c, kind, force, serial) ==
    [cert |-> c, kind |-> kind, force |-> force, serial |-> serial, status |-> "queued"]

Claims(c, kind, force) ==
    /\ Len(jobs) < MaxJobs /\ Claimable(c)
    /\ jobs' = Append(jobs, NewJob(c, kind, force, 0))
    /\ certs' = [certs EXCEPT ![c].active = Len(jobs) + 1, ![c].status = "queued"]

\* A revoked certificate is always replaced.
queue(c, kind, force) ==
    LET v == certs[c].version
    IN  /\ c \notin Imported /\ (kind = "renew") = (v # 0)
        /\ Claims(c, kind, force \/ (v # 0 /\ ~Usable(v)))

Queue(c, kind, force) ==
    /\ queue(c, kind, force)
    /\ UNCHANGED <<versions, ledger, targets, deploys, worker, child, disk, ca, crashes>>

\* queue_account, retry_account
QueueAccount(c) ==
    /\ c \notin Imported
    /\ Claims(c, "account", FALSE)
    /\ UNCHANGED <<versions, ledger, targets, deploys, worker, child, disk, ca, crashes>>

Copies(s) == {c \in Cert : s \in versions[c]}

\* Fault: only the profile's own targets are looked at.
NoDeploymentOf_Fault(c, s) == \A d \in deploys : TargetOf[d.target] = c => d.serial # s
NoDeploymentOf(c, s) == \A d \in deploys : d.serial # s

queue_revocation(c, s) ==
    /\ s \in versions[c] /\ Revocable(s)
    /\ \A e \in Copies(s) : certs[e].active = 0
    /\ NoDeploymentOf(c, s)
    /\ Len(jobs) < MaxJobs /\ Claimable(c)
    /\ jobs' = Append(jobs, NewJob(c, "revoke", FALSE, s))
    /\ ledger' = [ledger EXCEPT ![s] = [status |-> "pending", job |-> Len(jobs) + 1]]
    /\ certs' = [e \in Cert |->
          LET row == IF e = c THEN [certs[c] EXCEPT !.active = Len(jobs) + 1, !.status = "queued"]
                     ELSE certs[e]
          IN  IF certs[e].version = s
              THEN [row EXCEPT !.auto = FALSE, !.status = State(e, ledger', "none")] ELSE row]
    /\ UNCHANGED <<versions, targets, deploys, worker, child, disk, ca, crashes>>

\* CertificateStore.edit
edit(c, auto) ==
    /\ certs[c].auto # auto
    /\ auto => c \notin Imported /\ (certs[c].version # 0 => Usable(certs[c].version))
    /\ certs' = [certs EXCEPT ![c].auto = auto]
    /\ UNCHANGED <<versions, jobs, ledger, targets, deploys, worker, child, disk, ca, crashes>>

MayActivate(c, s) == certs[c].active = 0 /\ Usable(s)

activate(c, s) ==
    /\ s \in versions[c] /\ MayActivate(c, s)
    /\ certs' = [certs EXCEPT ![c].version = s, ![c].status = "issued"]
    /\ UNCHANGED <<versions, jobs, ledger, targets, deploys, worker, child, disk, ca, crashes>>

\* import_certificate: another profile of a certificate the panel exported.
import_certificate(c, s) ==
    /\ c \in Imported /\ versions[c] = {} /\ Copies(s) # {} /\ Usable(s)
    /\ versions' = [versions EXCEPT ![c] = {s}]
    /\ certs' = [certs EXCEPT ![c].version = s, ![c].status = "issued"]
    /\ UNCHANGED <<jobs, ledger, targets, deploys, worker, child, disk, ca, crashes>>

\* CertificateStore.deploy
Deployable(t) ==
    LET v == certs[TargetOf[t]].version
    IN  v # 0 /\ Usable(v) /\ \A d \in deploys : d.target # t

Deploys(t) ==
    LET v == certs[TargetOf[t]].version
    IN  /\ deploys' = deploys \cup {[target |-> t, serial |-> v]}
        /\ targets' = [targets EXCEPT ![t] = v]

deploy(t) ==
    /\ Deployable(t) /\ Deploys(t)
    /\ UNCHANGED <<certs, versions, jobs, ledger, worker, child, disk, ca, crashes>>

CommandEnds(d) ==
    /\ deploys' = deploys \ {d}
    /\ UNCHANGED <<certs, versions, jobs, ledger, targets, worker, child, disk, ca, crashes>>

\* A certificate becomes due, and the delay after a failed attempt ends.
TimePasses(c) ==
    /\ certs[c].version # 0 /\ (certs[c].wait \/ ~certs[c].due)
    /\ certs' = [certs EXCEPT ![c].due = TRUE, ![c].wait = FALSE]
    /\ UNCHANGED <<versions, jobs, ledger, targets, deploys, worker, child, disk, ca, crashes>>

(***************************************************************************)
(* The worker.                                                             *)
(***************************************************************************)
Goes(pc) == worker' = [worker EXCEPT !.pc = pc]

Resumable(j) == jobs[j].kind \in Administration \/ jobs[j].cert \in Remote

\* worker.lock is held by the worker and by every client it started.
LockFree == child = NoChild

\* Fault: recovery shows the job as waiting and forgets to queue it.
AfterCrash_Fault(j) == "running"
AfterCrash(j) == IF Resumable(j) THEN "queued" ELSE "interrupted"

recover ==
    /\ worker.pc = "down" /\ LockFree
    /\ jobs' = [j \in 1 .. Len(jobs) |->
          IF jobs[j].status = "running" THEN [jobs[j] EXCEPT !.status = AfterCrash(j)] ELSE jobs[j]]
    /\ certs' = [c \in Cert |->
          LET j == certs[c].active
          IN  IF j = 0 \/ jobs[j].status # "running" THEN certs[c]
              ELSE IF Resumable(j) THEN [certs[c] EXCEPT !.status = "queued"]
              ELSE [certs[c] EXCEPT !.active = 0, !.status = "failed", !.wait = TRUE]]
    /\ Goes("list")
    /\ UNCHANGED <<versions, ledger, targets, deploys, child, disk, ca, crashes>>

\* deploy_pending: the list is read first, and each deployment checks again, and
\* the node besides.
ListPending ==
    /\ worker.pc = "list"
    /\ worker' = [worker EXCEPT !.pc = "deploy", !.todo =
          {t \in Target : certs[TargetOf[t]].version \notin {0, targets[t]}}]
    /\ UNCHANGED <<catalog, child, disk, ca, crashes>>

DeployPending(t) ==
    /\ worker.pc = "deploy" /\ t \in worker.todo
    /\ \/ Deployable(t) /\ Deploys(t)
       \/ UNCHANGED <<deploys, targets>>
    /\ worker' = [worker EXCEPT !.todo = @ \ {t}]
    /\ UNCHANGED <<certs, versions, jobs, ledger, child, disk, ca, crashes>>

\* schedule
ListDue ==
    /\ worker.pc = "deploy" /\ worker.todo = {}
    /\ worker' = [worker EXCEPT !.pc = "schedule", !.todo =
          {c \in Cert \ Imported :
              certs[c].auto /\ certs[c].active = 0 /\ ~certs[c].wait /\ certs[c].due}]
    /\ UNCHANGED <<catalog, child, disk, ca, crashes>>

ScheduleDue(c) ==
    /\ worker.pc = "schedule" /\ c \in worker.todo
    /\ \/ queue(c, "renew", FALSE)
       \/ (~Claimable(c) \/ Len(jobs) = MaxJobs) /\ UNCHANGED <<certs, jobs>>
    /\ worker' = [worker EXCEPT !.todo = @ \ {c}]
    /\ UNCHANGED <<versions, ledger, targets, deploys, child, disk, ca, crashes>>

\* run_one takes the oldest queued job.
TakeJob ==
    /\ worker.pc = "schedule" /\ worker.todo = {}
    /\ \E j \in 1 .. Len(jobs) :
        /\ jobs[j].status = "queued" /\ \A i \in 1 .. j - 1 : jobs[i].status # "queued"
        /\ jobs' = [jobs EXCEPT ![j].status = "running"]
        /\ certs' = [certs EXCEPT ![jobs[j].cert].status = Doing[jobs[j].kind]]
        /\ worker' = [worker EXCEPT !.pc = "run", !.job = j]
    /\ UNCHANGED <<versions, ledger, targets, deploys, child, disk, ca, crashes>>

NoJob ==
    /\ worker.pc = "schedule" /\ worker.todo = {}
    /\ \A j \in 1 .. Len(jobs) : jobs[j].status # "queued"
    /\ Goes("list")
    /\ UNCHANGED <<catalog, child, disk, ca, crashes>>

NotDue(j) == jobs[j].kind = "renew" /\ ~jobs[j].force /\ ~certs[jobs[j].cert].due

\* A certificate on lego's disk that was never published.
Adoptable(j) ==
    LET c == jobs[j].cert
    IN  /\ ~jobs[j].force /\ disk.candidate[c] # 0
        /\ Usable(disk.candidate[c]) /\ disk.candidate[c] # certs[c].version

Local(j) == jobs[j].kind \notin Administration /\ jobs[j].cert \notin Remote

Ready(data) == worker' = [worker EXCEPT !.pc = "commit", !.data = data]
Starts(step) == child' = [job |-> worker.job, step |-> step] /\ Goes("wait")

\* A job without a result of its own yet starts a client.
RunLocal ==
    LET j == worker.job
    IN  /\ worker.pc = "run" /\ Local(j)
        /\ \/ NotDue(j) /\ Ready(0) /\ UNCHANGED child
           \/ ~NotDue(j) /\ Adoptable(j) /\ Ready(disk.candidate[jobs[j].cert]) /\ UNCHANGED child
           \/ ~NotDue(j) /\ ~Adoptable(j) /\ Starts("order")
           \/ Goes("fail") /\ UNCHANGED child
        /\ UNCHANGED <<catalog, disk, ca, crashes>>

RunRemote ==
    LET j == worker.job
    IN  /\ worker.pc = "run" /\ ~Local(j) /\ jobs[j].kind \notin Administration
        /\ \/ NotDue(j) /\ Ready(0) /\ UNCHANGED child
           \/ ~NotDue(j) /\ disk.result[j] = "succeeded" /\ Ready(ca.issued[j]) /\ UNCHANGED child
           \/ ~NotDue(j) /\ disk.result[j] # "succeeded" /\ Starts("begin")
           \/ Goes("fail") /\ UNCHANGED child
        /\ UNCHANGED <<catalog, disk, ca, crashes>>

\* _administer: a receipt of this job, even of a failure, is final.
RunAdministration ==
    LET j == worker.job
    IN  /\ worker.pc = "run" /\ jobs[j].kind \in Administration
        /\ \/ disk.result[j] = "succeeded" /\ Ready(0) /\ UNCHANGED child
           \/ disk.result[j] = "failed" /\ Goes("fail") /\ UNCHANGED child
           \/ disk.result[j] = "none" /\ Starts("administer")
           \/ Goes("fail") /\ UNCHANGED child
        /\ UNCHANGED <<catalog, disk, ca, crashes>>

\* The client has exited with success: its files are read.
ReadResult ==
    LET j == worker.job
        c == jobs[j].cert
    IN  /\ worker.pc = "read"
        /\ IF Local(j)
           THEN Ready(IF disk.candidate[c] = certs[c].version THEN 0 ELSE disk.candidate[c])
           ELSE IF disk.result[j] = "succeeded"
           THEN Ready(IF jobs[j].kind \in Administration THEN 0 ELSE ca.issued[j])
           ELSE Goes("fail")
        /\ UNCHANGED <<catalog, child, disk, ca, crashes>>

Finished(j, status) == [jobs EXCEPT ![j].status = status]
Idle(c, now) == [now EXCEPT ![c].active = 0]

CommitAdministration ==
    LET j == worker.job
        c == jobs[j].cert
        entries == IF jobs[j].kind = "revoke"
                   THEN [ledger EXCEPT ![jobs[j].serial].status = "revoked"] ELSE ledger
        marked == IF jobs[j].kind = "revoke" THEN Marked(certs, j, entries) ELSE certs
    IN  /\ worker.pc = "commit" /\ jobs[j].kind \in Administration
        /\ ledger' = entries
        /\ certs' = Idle(c, [marked EXCEPT ![c].status = State(c, entries, "none")])
        /\ jobs' = Finished(j, "succeeded")
        /\ Goes("list")
        /\ UNCHANGED <<versions, targets, deploys, child, disk, ca, crashes>>

Stored(c, s) == [versions EXCEPT ![c] = @ \cup {s}]

\* publish refuses a certificate that is subject to revocation.
Publish ==
    LET j == worker.job
        c == jobs[j].cert
        s == worker.data
    IN  /\ worker.pc = "commit" /\ jobs[j].kind \notin Administration /\ s # 0
        /\ IF Usable(s)
           THEN /\ versions' = Stored(c, s)
                /\ certs' = Idle(c, [certs EXCEPT ![c].version = s, ![c].status = "issued",
                                         ![c].due = FALSE, ![c].wait = TRUE])
                /\ jobs' = Finished(j, "succeeded")
                /\ Goes("list")
           ELSE Goes("fail") /\ UNCHANGED <<versions, certs, jobs>>
        /\ UNCHANGED <<ledger, targets, deploys, child, disk, ca, crashes>>

SkipRenewal ==
    LET j == worker.job
        c == jobs[j].cert
    IN  /\ worker.pc = "commit" /\ jobs[j].kind \notin Administration /\ worker.data = 0
        /\ certs' = Idle(c, [certs EXCEPT ![c].status = "issued", ![c].wait = TRUE])
        /\ jobs' = Finished(j, "skipped")
        /\ Goes("list")
        /\ UNCHANGED <<versions, ledger, targets, deploys, child, disk, ca, crashes>>

UnconfirmedRevocation == [status |-> "unknown", job |-> worker.job]

\* The except branch, for anything but a cancellation that can be resumed.
Gives_up(status) ==
    LET j == worker.job
        c == jobs[j].cert
        entries == IF jobs[j].kind = "revoke"
                   THEN [ledger EXCEPT ![jobs[j].serial] = UnconfirmedRevocation] ELSE ledger
        idle == Idle(c, certs)
        marked == IF jobs[j].kind = "revoke" THEN Marked(idle, j, entries) ELSE idle
        default == IF jobs[j].kind \in Administration THEN "none" ELSE "failed"
    IN  /\ ledger' = entries
        /\ jobs' = Finished(j, status)
        /\ certs' = [marked EXCEPT ![c].status = State(c, entries, default),
                        ![c].wait = @ \/ jobs[j].kind \notin Administration]

Fail ==
    /\ worker.pc = "fail"
    /\ Gives_up("failed")
    /\ Goes("list")
    /\ UNCHANGED <<versions, targets, deploys, child, disk, ca, crashes>>

\* CancelledError, after the client's process group has been killed.
Cancelled ==
    /\ worker.pc = "cancel"
    /\ IF Resumable(worker.job)
       THEN /\ jobs' = Finished(worker.job, "queued")
            /\ certs' = [certs EXCEPT ![jobs[worker.job].cert].status = "queued"]
            /\ UNCHANGED ledger
       ELSE Gives_up("interrupted")
    /\ worker' = Down
    /\ UNCHANGED <<versions, targets, deploys, child, disk, ca, crashes>>

Cancel ==
    /\ worker.pc = "wait" /\ crashes < MaxCrashes
    /\ crashes' = crashes + 1
    /\ child' = NoChild /\ Goes("cancel")
    /\ UNCHANGED <<catalog, disk, ca>>

\* The panel is killed: the client is not.
Crash ==
    /\ worker.pc # "down" /\ crashes < MaxCrashes
    /\ crashes' = crashes + 1
    /\ worker' = Down
    /\ UNCHANGED <<catalog, child, disk, ca>>

(***************************************************************************)
(* The ACME clients.                                                       *)
(***************************************************************************)
At(step) == child.step = step
ChildGoes(step) == child' = [child EXCEPT !.step = step]

\* The process ends; a worker that still waits for it reads its exit code.
Exits(outcome) ==
    /\ child' = NoChild
    /\ worker' = IF worker.pc = "wait" THEN [worker EXCEPT !.pc = outcome] ELSE worker

NextSerial == Cardinality(ca.serials) + 1

\* lego run, lego renew
LegoOrders ==
    /\ At("order") /\ NextSerial <= MaxSerial
    /\ ca' = [ca EXCEPT !.serials = @ \cup {NextSerial}]
    /\ ChildGoes("save")
    /\ UNCHANGED <<catalog, worker, disk, crashes>>

LegoSaves ==
    /\ At("save")
    /\ disk' = [disk EXCEPT !.candidate[jobs[child.job].cert] = Cardinality(ca.serials)]
    /\ Exits("read")
    /\ UNCHANGED <<catalog, ca, crashes>>

\* renew --dynamic: lego's own view is that there is no hurry.
LegoDeclines ==
    LET j == child.job
    IN  /\ At("order") /\ jobs[j].kind = "renew" /\ ~jobs[j].force
        /\ disk.candidate[jobs[j].cert] # 0 /\ Usable(disk.candidate[jobs[j].cert])
        /\ Exits("read")
        /\ UNCHANGED <<catalog, disk, ca, crashes>>

\* certificate_remote_acme.obtain: an intent without an order is not repeated.
\* Fault: the intent is not looked at.
Unconfirmed_Fault(j) == FALSE
Unconfirmed(j) == j \in disk.intent

RemoteBegins ==
    LET j == child.job
    IN  /\ At("begin")
        /\ \/ j \in disk.order /\ ChildGoes("finalize") /\ UNCHANGED <<disk, worker>>
           \/ /\ j \notin disk.order /\ Unconfirmed(j)
              /\ disk' = [disk EXCEPT !.result[j] = "failed"] /\ Exits("read")
           \/ /\ j \notin disk.order /\ ~Unconfirmed(j)
              /\ disk' = [disk EXCEPT !.intent = @ \cup {j}] /\ ChildGoes("post")
              /\ UNCHANGED worker
        /\ UNCHANGED <<catalog, ca, crashes>>

RemotePosts ==
    /\ At("post")
    /\ ca' = [ca EXCEPT !.orders[child.job] = @ + 1]
    /\ ChildGoes("keep")
    /\ UNCHANGED <<catalog, worker, disk, crashes>>

RemoteKeeps ==
    /\ At("keep")
    /\ disk' = [disk EXCEPT !.order = @ \cup {child.job}]
    /\ ChildGoes("finalize")
    /\ UNCHANGED <<catalog, worker, ca, crashes>>

\* poll_finalization finds the certificate of an order that is valid already.
RemoteFinalizes ==
    LET j == child.job
    IN  /\ At("finalize") /\ (ca.issued[j] = 0 => NextSerial <= MaxSerial)
        /\ ca' = IF ca.issued[j] # 0 THEN ca
                 ELSE [ca EXCEPT !.serials = @ \cup {NextSerial}, !.issued[j] = NextSerial]
        /\ ChildGoes("write")
        /\ UNCHANGED <<catalog, worker, disk, crashes>>

\* certificate_acme.main: alreadyRevoked is a success.
CaRevokes ==
    LET j == child.job
    IN  /\ At("administer")
        /\ ca' = IF jobs[j].kind = "revoke"
                 THEN [ca EXCEPT !.revoked = @ \cup {jobs[j].serial}] ELSE ca
        /\ ChildGoes("write")
        /\ UNCHANGED <<catalog, worker, disk, crashes>>

WriteReceipt ==
    /\ At("write")
    /\ disk' = [disk EXCEPT !.result[child.job] = "succeeded"]
    /\ Exits("read")
    /\ UNCHANGED <<catalog, ca, crashes>>

\* The CA or the network refuses, or the answer to what the CA did is lost: lego
\* exits with an error, the other two write a receipt that says so.
ClientFails ==
    /\ child.step \in {"order", "begin", "post", "keep", "finalize", "administer", "write"}
    /\ IF At("order") THEN Exits("fail") /\ UNCHANGED disk
       ELSE Exits("read") /\ disk' = [disk EXCEPT !.result[child.job] = "failed"]
    /\ UNCHANGED <<catalog, ca, crashes>>

\* A time-out of the worker, an output limit, or the host ends the client.
ChildKilled ==
    /\ child # NoChild
    /\ Exits("fail")
    /\ UNCHANGED <<catalog, disk, ca, crashes>>

-----------------------------------------------------------------------------
Init ==
    /\ certs = [c \in Cert |-> [active |-> 0, status |-> "idle", version |-> 0,
                                auto |-> c \notin Imported, due |-> FALSE, wait |-> FALSE]]
    /\ versions = [c \in Cert |-> {}]
    /\ jobs = <<>>
    /\ ledger = [s \in Serial |-> Unlisted]
    /\ targets = [t \in Target |-> 0]
    /\ deploys = {}
    /\ worker = Down /\ child = NoChild
    /\ disk = [candidate |-> [c \in Cert |-> 0], intent |-> {}, order |-> {},
               result |-> [j \in Job |-> "none"]]
    /\ ca = [serials |-> {}, revoked |-> {},
             orders |-> [j \in Job |-> 0], issued |-> [j \in Job |-> 0]]
    /\ crashes = 0

Administrator ==
    \/ \E c \in Cert, force \in BOOLEAN, kind \in {"issue", "renew"} : Queue(c, kind, force)
    \/ \E c \in Cert, s \in Serial :
          queue_revocation(c, s) \/ activate(c, s) \/ import_certificate(c, s)
    \/ \E c \in Cert, auto \in BOOLEAN : edit(c, auto)
    \/ \E c \in Cert : QueueAccount(c) \/ TimePasses(c)
    \/ \E t \in Target : deploy(t)
    \/ \E d \in deploys : CommandEnds(d)

WorkerStep ==
    \/ recover \/ ListPending \/ ListDue \/ TakeJob \/ NoJob
    \/ \E t \in Target : DeployPending(t)
    \/ \E c \in Cert : ScheduleDue(c)
    \/ RunLocal \/ RunRemote \/ RunAdministration \/ ReadResult
    \/ CommitAdministration \/ Publish \/ SkipRenewal \/ Fail \/ Cancelled

ChildStep ==
    \/ LegoOrders \/ LegoSaves \/ LegoDeclines
    \/ RemoteBegins \/ RemotePosts \/ RemoteKeeps \/ RemoteFinalizes
    \/ CaRevokes \/ WriteReceipt \/ ClientFails \/ ChildKilled

Next == Administrator \/ WorkerStep \/ ChildStep \/ Cancel \/ Crash

Spec == Init /\ [][Next]_vars

-----------------------------------------------------------------------------
Status ==
    {"idle", "queued", "issuing", "renewing", "updating_account", "revoking", "issued", "failed",
     "revocation_pending", "revocation_unknown", "revoked"}
CertType ==
    [active : 0 .. MaxJobs, status : Status, version : 0 .. MaxSerial,
     auto : BOOLEAN, due : BOOLEAN, wait : BOOLEAN]
JobStatus == {"queued", "running", "succeeded", "failed", "skipped", "interrupted"}
JobType ==
    [cert : Cert, kind : {"issue", "renew", "account", "revoke"}, force : BOOLEAN,
     serial : 0 .. MaxSerial, status : JobStatus]
Idling == {"list", "deploy", "schedule"}
Busy == {"run", "wait", "read", "commit", "fail", "cancel"}
ChildStepName == {"none", "order", "save", "begin", "post", "keep", "finalize", "administer", "write"}

\* The state has the shape the code gives it.
TypeOK ==
    /\ certs \in [Cert -> CertType]
    /\ versions \in [Cert -> SUBSET Serial]
    /\ jobs \in Seq(JobType) /\ Len(jobs) <= MaxJobs
    /\ ledger \in [Serial -> [status : {"none", "pending", "unknown", "revoked"}, job : 0 .. MaxJobs]]
    /\ targets \in [Target -> 0 .. MaxSerial]
    /\ deploys \subseteq [target : Target, serial : Serial]
    /\ worker \in [pc : {"down"} \cup Idling \cup Busy, job : 0 .. MaxJobs, data : 0 .. MaxSerial,
                   todo : SUBSET (Target \cup Cert)]
    /\ child \in [job : 0 .. MaxJobs, step : ChildStepName]
    /\ disk \in [candidate : [Cert -> 0 .. MaxSerial], intent : SUBSET Job, order : SUBSET Job,
                 result : [Job -> {"none", "succeeded", "failed"}]]
    /\ ca \in [serials : SUBSET Serial, revoked : SUBSET Serial, orders : [Job -> Nat],
               issued : [Job -> 0 .. MaxSerial]]
    /\ crashes \in 0 .. MaxCrashes

\* A profile has one unfinished job and knows it: no path through success, failure,
\* interruption, cancellation or recovery leaves a profile that is blocked for
\* ever, or a job that nobody owns.
OneActiveJob ==
    /\ \A j \in 1 .. Len(jobs) : Active(j) => certs[jobs[j].cert].active = j
    /\ \A c \in Cert : certs[c].active # 0 => Active(certs[c].active)

\* An ACME client that survived the panel works for a job nobody has meanwhile
\* declared interrupted, queued again or finished.
ChildOwnsJob == child # NoChild => jobs[child.job].status = "running"

\* However often a remote job is resumed, the CA gets one order for it.
OneOrderPerJob == \A j \in Job : ca.orders[j] <= 1

\* A certificate that is being revoked, was revoked or may have been is not on its
\* way to a node.
RevokedNotDeployed == \A d \in deploys : Usable(d.serial)

\* Nor is it renewed automatically: each profile that uses it has auto_renew off.
RevokedNotRenewed ==
    \A c \in Cert : certs[c].version # 0 /\ ~Usable(certs[c].version) => ~certs[c].auto

\* The ledger never claims more, and never less, than what is known of the CA.
LedgerHonest ==
    \A s \in Serial :
        /\ ledger[s].status = "revoked" => s \in ca.revoked
        /\ s \in ca.revoked => ~Usable(s)
        /\ ledger[s].status = "pending" => Active(ledger[s].job)

\* What the panel says of a revocation is so at the CA, on the nodes and in the profiles.
RevocationHonest == LedgerHonest /\ RevokedNotDeployed /\ RevokedNotRenewed

\* Every job comes to an end.
JobsFinish == \A j \in Job : ~ <>[](j <= Len(jobs) /\ Active(j))

=============================================================================
