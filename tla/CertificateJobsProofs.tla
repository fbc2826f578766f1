------------------------ MODULE CertificateJobsProofs ------------------------
(***************************************************************************)
(* Proofs about CertificateJobs for any number of profiles, jobs, targets,  *)
(* certificates and crashes: a remote job makes one order, every unfinished *)
(* job is known to its profile, and what the panel says of a revocation is  *)
(* so at the CA, on the nodes and in the profiles.                         *)
(*                                                                         *)
(* And about Http01Leases, for any number of profiles, tokens, leases and   *)
(* faults: what the panel believes of a lease holds on the node.            *)
(***************************************************************************)
EXTENDS CertificateLeases, FiniteSetTheorems, SequenceTheorems, TLAPS

Number == 1 .. Len(jobs)
Posting == {"begin", "post", "keep", "finalize"}

\* An order is preceded by its intent, and an intent is never repeated.
Orders ==
    /\ \A j \in Job : ca.orders[j] <= 1 /\ (ca.orders[j] > 0 => j \in disk.intent)
    /\ child.step = "post" => ca.orders[child.job] = 0 /\ child.job \in disk.intent

\* A profile and its unfinished job know each other.
Owned ==
    /\ \A j \in Number : Active(j) => certs[jobs[j].cert].active = j
    /\ \A c \in Cert : certs[c].active # 0 =>
           LET j == certs[c].active IN j \in Number /\ Active(j) /\ jobs[j].cert = c

\* The worker runs one job; a client belongs to a job that runs, and lives while the worker waits
\* for it or is down.
Running ==
    /\ worker.pc \in Busy => worker.job \in Number /\ jobs[worker.job].status = "running"
    /\ \A j \in Number : jobs[j].status = "running" =>
           worker.pc = "down" \/ (worker.pc \in Busy /\ worker.job = j)
    /\ child # NoChild =>
           /\ child.job \in Number /\ jobs[child.job].status = "running"
           /\ worker.pc \in {"down", "wait"}

\* Which client a job has, and what it has done when it writes a receipt.
Clients ==
    /\ child.step = "none" => child = NoChild
    /\ child.step \in Posting => jobs[child.job].kind \notin Administration
    /\ child.step = "write" /\ jobs[child.job].kind = "revoke" => jobs[child.job].serial \in ca.revoked

\* A revocation is in the ledger from the moment its job is queued; a success that was written, read or
\* is about to be committed is one at the CA.
Revoking ==
    /\ \A j \in Number : jobs[j].kind = "revoke" =>
           /\ jobs[j].serial \in Serial /\ ~Usable(jobs[j].serial)
           /\ disk.result[j] = "succeeded" => jobs[j].serial \in ca.revoked
    /\ \A j \in Job \ Number : disk.result[j] = "none"
    /\ worker.pc = "commit" /\ jobs[worker.job].kind = "revoke" => jobs[worker.job].serial \in ca.revoked
    /\ \A s \in Serial :
           /\ ledger[s].status = "pending" =>
                  LET j == ledger[s].job IN j \in Number /\ Active(j) /\ jobs[j].kind = "revoke" /\ jobs[j].serial = s
           /\ ledger[s].status = "revoked" => s \in ca.revoked
           /\ s \in ca.revoked => ~Usable(s)

JobsInv ==
    /\ TypeOK /\ Orders /\ Owned /\ Running /\ Clients
    /\ Revoking /\ RevokedNotDeployed /\ RevokedNotRenewed

(***************************************************************************)
(* The operators.                                                          *)
(***************************************************************************)
LedgerType == [Serial -> [status : {"none", "pending", "unknown", "revoked"}, job : 0 .. MaxJobs]]
CertsType == [Cert -> CertType]
WorkerType == [pc : {"down"} \cup Idling \cup Busy, job : 0 .. MaxJobs, data : 0 .. MaxSerial,
               todo : SUBSET (Target \cup Cert)]
ChildType == [job : 0 .. MaxJobs, step : ChildStepName]
DiskType == [candidate : [Cert -> 0 .. MaxSerial], intent : SUBSET Job, order : SUBSET Job,
             result : [Job -> {"none", "succeeded", "failed"}]]
CaType == [serials : SUBSET Serial, revoked : SUBSET Serial, orders : [Job -> Nat],
           issued : [Job -> 0 .. MaxSerial]]

\* A job has the fields of its type, whatever its number.
LEMMA JobFields ==
  ASSUME NEW q \in Seq(JobType)
  PROVE  /\ Len(q) \in Nat /\ DOMAIN q = 1 .. Len(q) /\ q \in [1 .. Len(q) -> JobType]
         /\ \A j \in 1 .. Len(q) : q[j] \in JobType
  BY LenProperties, ElementOfSeq

\* Finished changes the status of one job, and nothing else.
LEMMA StatusSet ==
  ASSUME NEW q \in Seq(JobType), NEW j, NEW st \in JobStatus
  PROVE  LET r == [q EXCEPT ![j].status = st]
         IN  /\ r \in Seq(JobType) /\ Len(r) = Len(q)
             /\ \A i \in 1 .. Len(q) :
                    r[i] = IF i = j THEN [q[i] EXCEPT !.status = st] ELSE q[i]
<1> DEFINE r == [q EXCEPT ![j].status = st]
<1>1. q \in [1 .. Len(q) -> JobType] /\ Len(q) \in Nat /\ DOMAIN q = 1 .. Len(q)
  BY JobFields
<1>2. r \in [1 .. Len(q) -> JobType]
  BY <1>1 DEF JobType
<1>3. r \in Seq(JobType) /\ DOMAIN r = 1 .. Len(q)
  BY <1>1, <1>2, IsASeq
<1>4. Len(r) = Len(q)
  BY <1>1, <1>3, LenProperties
<1> QED BY <1>1, <1>2, <1>3, <1>4

\* A queued job comes after all others.
LEMMA JobAppended ==
  ASSUME NEW q \in Seq(JobType), NEW x \in JobType
  PROVE  LET r == Append(q, x)
         IN  /\ r \in Seq(JobType) /\ Len(r) = Len(q) + 1 /\ r[Len(q) + 1] = x
             /\ \A i \in 1 .. Len(q) : r[i] = q[i]
  BY AppendProperties

\* A sequence that is written out by its elements.
LEMMA JobsRewritten ==
  ASSUME NEW n \in Nat, NEW f \in [1 .. n -> JobType]
  PROVE  f \in Seq(JobType) /\ Len(f) = n
<1>1. f \in Seq(JobType) /\ DOMAIN f = 1 .. n
  BY IsASeq
<1> QED BY <1>1, LenProperties

\* The state of a profile is one of the states it can have.
LEMMA StateTyped ==
  ASSUME certs \in CertsType, NEW c \in Cert, NEW e \in LedgerType, NEW default \in {"none", "failed"},
         MaxSerial \in Nat
  PROVE  State(c, e, default) \in Status
<1>1. certs[c].version \in 0 .. MaxSerial
  BY DEF CertsType, CertType
<1>2. certs[c].version # 0 => e[certs[c].version].status \in {"none", "pending", "unknown", "revoked"}
  BY <1>1 DEF LedgerType, Serial
<1> QED BY <1>2 DEF State, Status

\* The profiles after the revocation of the job j was marked: auto_renew and states may differ, versions
\* and active jobs do not.
MarkedLike(new, cs, j) ==
    /\ new \in CertsType
    /\ \A c \in Cert : /\ new[c].active = cs[c].active /\ new[c].version = cs[c].version
                       /\ new[c].auto \in {FALSE, cs[c].auto}
                       /\ cs[c].version # 0 /\ cs[c].version = jobs[j].serial => new[c].auto = FALSE

\* mark_revocation changes auto_renew and the state of profiles, not their versions or jobs.
LEMMA MarkedTyped ==
  ASSUME certs \in CertsType, NEW cs \in CertsType, NEW j, NEW e \in LedgerType, MaxSerial \in Nat
  PROVE  MarkedLike(Marked(cs, j, e), cs, j)
<1>1. ASSUME NEW c \in Cert
      PROVE  /\ Marked(cs, j, e)[c] \in CertType
             /\ Marked(cs, j, e)[c].active = cs[c].active
             /\ Marked(cs, j, e)[c].version = cs[c].version
             /\ Marked(cs, j, e)[c].auto \in {FALSE, cs[c].auto}
             /\ cs[c].version # 0 /\ cs[c].version = jobs[j].serial =>
                  Marked(cs, j, e)[c].auto = FALSE
  <2>1. cs[c] \in CertType /\ State(c, e, "none") \in Status
    BY StateTyped DEF CertsType
  <2>2. Marked(cs, j, e)[c] =
          IF cs[c].version # 0 /\ cs[c].version = jobs[j].serial
          THEN [cs[c] EXCEPT !.auto = FALSE,
                  !.status = IF cs[c].active \in {0, j} THEN State(c, e, "none") ELSE @]
          ELSE cs[c]
    BY DEF Marked
  <2> QED BY <2>1, <2>2 DEF CertType
<1>2. DOMAIN Marked(cs, j, e) = Cert /\ Marked(cs, j, e) = [c \in Cert |-> Marked(cs, j, e)[c]]
  BY DEF Marked
<1> QED BY <1>1, <1>2 DEF MarkedLike, CertsType


(***************************************************************************)
(* What a step does to the jobs and to the profiles' active jobs.          *)
(***************************************************************************)
Kind == {"issue", "renew", "account", "revoke"}

\* The profile c gets the new job x.
ClaimedBy(c, x) ==
    /\ x \in JobType /\ x.cert = c /\ x.status = "queued"
    /\ Len(jobs') = Len(jobs) + 1 /\ jobs'[Len(jobs) + 1] = x
    /\ \A i \in Number : jobs'[i] = jobs[i]
    /\ certs[c].active = 0 /\ certs'[c].active = Len(jobs) + 1
    /\ \A e \in Cert \ {c} : certs'[e].active = certs[e].active

\* Only the status of the job j changes.
Restated(j, st) ==
    /\ Len(jobs') = Len(jobs)
    /\ \A i \in Number : jobs'[i] = IF i = j THEN [jobs[i] EXCEPT !.status = st] ELSE jobs[i]

\* No profile gets or loses a job.
SameActive == \A e \in Cert : certs'[e].active = certs[e].active

\* The profile of the worker's job gives it up, and only that profile.
Released ==
    \A e \in Cert : certs'[e].active = IF e = jobs[worker.job].cert THEN 0 ELSE certs[e].active

\* What the types say of the rows the proofs use.
LEMMA Rows ==
  ASSUME TypeOK
  PROVE  /\ MaxJobs \in Nat /\ MaxSerial \in Nat /\ Len(jobs) \in Nat /\ Len(jobs) <= MaxJobs
         /\ certs \in CertsType /\ ledger \in LedgerType /\ worker \in WorkerType
         /\ child \in ChildType /\ disk \in DiskType /\ ca \in CaType
         /\ \A j \in Number : j \in Job /\ jobs[j] \in JobType
<1>1. /\ certs \in CertsType /\ ledger \in LedgerType /\ worker \in WorkerType
      /\ child \in ChildType /\ disk \in DiskType /\ ca \in CaType
  BY Zenon DEF TypeOK, CertsType, LedgerType, WorkerType, ChildType, DiskType, CaType
<1>2. /\ MaxJobs \in Nat /\ MaxSerial \in Nat /\ Len(jobs) \in Nat /\ Len(jobs) <= MaxJobs
      /\ \A j \in Number : j \in Job /\ jobs[j] \in JobType
  BY CertificateAssumption, JobFields DEF TypeOK, Number, Job
<1> QED BY <1>1, <1>2

\* CertificateStore.claim.
LEMMA ClaimsEffect ==
  ASSUME TypeOK, NEW c \in Cert, NEW kind \in Kind, NEW force \in BOOLEAN, Claims(c, kind, force)
  PROVE  /\ jobs' \in Seq(JobType) /\ Len(jobs') <= MaxJobs /\ certs' \in CertsType
         /\ ClaimedBy(c, NewJob(c, kind, force, 0))
         /\ \A e \in Cert : certs'[e].version = certs[e].version /\ certs'[e].auto = certs[e].auto
<1> DEFINE x == NewJob(c, kind, force, 0)
<1>1. MaxJobs \in Nat /\ MaxSerial \in Nat /\ Len(jobs) \in Nat /\ certs \in CertsType /\ Len(jobs) < MaxJobs
  BY Rows DEF Claims
<1>2. x \in JobType /\ x.cert = c /\ x.status = "queued"
  BY <1>1 DEF NewJob, JobType, JobStatus, Kind
<1>3. jobs' = Append(jobs, x)
  BY DEF Claims
<1>4. /\ jobs' \in Seq(JobType) /\ Len(jobs') = Len(jobs) + 1 /\ jobs'[Len(jobs) + 1] = x
      /\ \A i \in Number : jobs'[i] = jobs[i]
  <2> HIDE DEF x
  <2> QED BY <1>2, <1>3, JobAppended DEF TypeOK, Number
<1>5. /\ certs' = [certs EXCEPT ![c].active = Len(jobs) + 1, ![c].status = "queued"]
      /\ certs[c].active = 0
  BY DEF Claims, Claimable
<1>6. Len(jobs) + 1 \in 0 .. MaxJobs /\ "queued" \in Status
  BY <1>1 DEF Status
<1>7. \A e \in Cert : certs[e] \in CertType
  BY <1>1 DEF CertsType
<1>8. /\ certs' \in CertsType
      /\ certs'[c].active = Len(jobs) + 1
      /\ \A e \in Cert \ {c} : certs'[e].active = certs[e].active
      /\ \A e \in Cert : certs'[e].version = certs[e].version /\ certs'[e].auto = certs[e].auto
  BY <1>1, <1>5, <1>6, <1>7, ZenonT(60) DEF CertsType, CertType
<1> HIDE DEF x
<1>9. ClaimedBy(c, x)
  BY <1>2, <1>4, <1>5, <1>8 DEF ClaimedBy
<1>10. Len(jobs') <= MaxJobs
  BY <1>1, <1>4
<1> QED BY <1>4, <1>8, <1>9, <1>10 DEF x

\* CertificateStore.queue_revocation.
LEMMA RevocationEffect ==
  ASSUME TypeOK, NEW c \in Cert, NEW s \in Serial, queue_revocation(c, s)
  PROVE  /\ jobs' \in Seq(JobType) /\ Len(jobs') <= MaxJobs /\ certs' \in CertsType /\ ledger' \in LedgerType
         /\ ClaimedBy(c, NewJob(c, "revoke", FALSE, s))
         /\ \A e \in Cert : /\ certs'[e].version = certs[e].version
                            /\ certs'[e].auto \in {FALSE, certs[e].auto}
                            /\ certs[e].version = s => certs'[e].auto = FALSE
<1> DEFINE x == NewJob(c, "revoke", FALSE, s)
           claimed(e) == IF e = c THEN [certs[c] EXCEPT !.active = Len(jobs) + 1, !.status = "queued"]
                     ELSE certs[e]
           new(e) == IF certs[e].version = s
                     THEN [claimed(e) EXCEPT !.auto = FALSE, !.status = State(e, ledger', "none")] ELSE claimed(e)
<1>1. MaxJobs \in Nat /\ MaxSerial \in Nat /\ Len(jobs) \in Nat /\ certs \in CertsType
      /\ ledger \in LedgerType /\ Len(jobs) < MaxJobs
  BY Rows DEF queue_revocation
<1>2. x \in JobType /\ x.cert = c /\ x.status = "queued"
  BY <1>1 DEF NewJob, JobType, JobStatus, Serial
<1>3. jobs' = Append(jobs, x)
  BY DEF queue_revocation
<1>4. /\ jobs' \in Seq(JobType) /\ Len(jobs') = Len(jobs) + 1 /\ jobs'[Len(jobs) + 1] = x
      /\ \A i \in Number : jobs'[i] = jobs[i]
  <2> HIDE DEF x
  <2> QED BY <1>2, <1>3, JobAppended DEF TypeOK, Number
<1>5. certs' = [e \in Cert |-> new(e)] /\ certs[c].active = 0
  BY DEF queue_revocation, Claimable
<1>6. Len(jobs) + 1 \in 0 .. MaxJobs /\ "queued" \in Status
  BY <1>1 DEF Status
<1>7. ledger' \in LedgerType
  <2>1. ledger' = [ledger EXCEPT ![s] = [status |-> "pending", job |-> Len(jobs) + 1]]
    BY DEF queue_revocation
  <2> QED BY <1>1, <1>6, <2>1 DEF LedgerType
<1>8. ASSUME NEW e \in Cert
      PROVE  /\ new(e) \in CertType
             /\ new(e).active = IF e = c THEN Len(jobs) + 1 ELSE certs[e].active
             /\ new(e).version = certs[e].version
             /\ new(e).auto \in {FALSE, certs[e].auto}
             /\ certs[e].version = s => new(e).auto = FALSE
  <2>1. State(e, ledger', "none") \in Status
    BY <1>1, <1>7, StateTyped
  <2>2. certs[e] \in CertType /\ certs[c] \in CertType
    BY <1>1 DEF CertsType
  <2>3. /\ claimed(e) \in CertType
        /\ claimed(e).active = IF e = c THEN Len(jobs) + 1 ELSE certs[e].active
        /\ claimed(e).version = certs[e].version /\ claimed(e).auto = certs[e].auto
    BY <1>6, <2>2 DEF CertType
  <2> HIDE DEF claimed
  <2> QED BY <2>1, <2>2, <2>3 DEF CertType
<1> HIDE DEF x, new
<1>9. /\ certs' \in CertsType
      /\ certs'[c].active = Len(jobs) + 1
      /\ \A e \in Cert \ {c} : certs'[e].active = certs[e].active
      /\ \A e \in Cert : /\ certs'[e].version = certs[e].version
                         /\ certs'[e].auto \in {FALSE, certs[e].auto}
                         /\ certs[e].version = s => certs'[e].auto = FALSE
  BY <1>5, <1>8 DEF CertsType
<1>10. ClaimedBy(c, x) /\ Len(jobs') <= MaxJobs
  BY <1>1, <1>2, <1>4, <1>5, <1>9 DEF ClaimedBy
<1> QED BY <1>4, <1>7, <1>9, <1>10 DEF x

\* The worker's job is one of the jobs, with a profile of its own.
LEMMA WorkersJob ==
  ASSUME TypeOK, Running, worker.pc \in Busy
  PROVE  /\ worker.job \in Number /\ worker.job \in Job /\ jobs[worker.job] \in JobType
         /\ jobs[worker.job].cert \in Cert /\ jobs[worker.job].serial \in 0 .. MaxSerial
  BY Rows DEF Running, JobType

\* A job that takes another status, in the sequence of jobs.
LEMMA FinishedEffect ==
  ASSUME TypeOK, NEW j \in Number, NEW st \in JobStatus, jobs' = Finished(j, st)
  PROVE  jobs' \in Seq(JobType) /\ Len(jobs') <= MaxJobs /\ Restated(j, st)
<1>1. jobs \in Seq(JobType) /\ Len(jobs) <= MaxJobs
  BY DEF TypeOK
<1>2. jobs' = [jobs EXCEPT ![j].status = st]
  BY DEF Finished
<1> QED BY <1>1, <1>2, StatusSet DEF Restated, Number

\* The entries of a revocation that failed or was confirmed.
LEMMA EntriesTyped ==
  ASSUME NEW e \in LedgerType, NEW s, NEW st \in {"unknown", "revoked"}, NEW j \in 0 .. MaxJobs
  PROVE  /\ [e EXCEPT ![s] = [status |-> st, job |-> j]] \in LedgerType
         /\ [e EXCEPT ![s].status = st] \in LedgerType
  BY DEF LedgerType

\* Recovery after a crash.
LEMMA RecoverEffect ==
  ASSUME TypeOK, recover
  PROVE  /\ jobs' \in Seq(JobType) /\ Len(jobs') = Len(jobs) /\ certs' \in CertsType
         /\ \A i \in Number : jobs'[i] = IF jobs[i].status = "running"
                                         THEN [jobs[i] EXCEPT !.status = AfterCrash(i)] ELSE jobs[i]
         /\ \A e \in Cert :
              LET j == certs[e].active
              IN  certs'[e].active = IF j = 0 \/ jobs[j].status # "running" \/ Resumable(j) THEN j ELSE 0
         /\ \A e \in Cert : certs'[e].version = certs[e].version /\ certs'[e].auto = certs[e].auto
<1> DEFINE f == [j \in 1 .. Len(jobs) |->
                    IF jobs[j].status = "running" THEN [jobs[j] EXCEPT !.status = AfterCrash(j)] ELSE jobs[j]]
<1>1. MaxJobs \in Nat /\ Len(jobs) \in Nat /\ certs \in CertsType /\ \A j \in Number : jobs[j] \in JobType
  BY Rows
<1>2. \A j : AfterCrash(j) \in JobStatus
  BY DEF AfterCrash, JobStatus
<1>3. f \in [1 .. Len(jobs) -> JobType]
  BY <1>1, <1>2 DEF Number, JobType
<1>4. f \in Seq(JobType) /\ Len(f) = Len(jobs)
  <2> HIDE DEF f
  <2> QED BY <1>1, <1>3, JobsRewritten
<1>5. jobs' = f
  BY DEF recover
<1>6. /\ certs' \in CertsType
      /\ \A e \in Cert :
           LET j == certs[e].active
           IN  certs'[e].active = IF j = 0 \/ jobs[j].status # "running" \/ Resumable(j) THEN j ELSE 0
      /\ \A e \in Cert : certs'[e].version = certs[e].version /\ certs'[e].auto = certs[e].auto
  <2> DEFINE new(e) == LET j == certs[e].active
                       IN  IF j = 0 \/ jobs[j].status # "running" THEN certs[e]
                           ELSE IF Resumable(j) THEN [certs[e] EXCEPT !.status = "queued"]
                           ELSE [certs[e] EXCEPT !.active = 0, !.status = "failed", !.wait = TRUE]
  <2>1. certs' = [e \in Cert |-> new(e)]
    BY DEF recover
  <2>2. ASSUME NEW e \in Cert
        PROVE  /\ new(e) \in CertType /\ new(e).version = certs[e].version /\ new(e).auto = certs[e].auto
               /\ LET j == certs[e].active
                  IN  new(e).active = IF j = 0 \/ jobs[j].status # "running" \/ Resumable(j) THEN j ELSE 0
    <3>1. certs[e] \in CertType /\ "queued" \in Status /\ "failed" \in Status /\ 0 \in 0 .. MaxJobs
      BY <1>1 DEF CertsType, Status
    <3> QED BY <3>1 DEF CertType
  <2> HIDE DEF new
  <2> QED BY <2>1, <2>2 DEF CertsType
<1> QED BY <1>4, <1>5, <1>6 DEF Number

\* The worker takes the oldest queued job.
LEMMA TakeEffect ==
  ASSUME TypeOK, TakeJob
  PROVE  /\ worker'.job \in Number /\ worker' = [worker EXCEPT !.pc = "run", !.job = worker'.job]
         /\ jobs[worker'.job].status = "queued"
         /\ jobs' \in Seq(JobType) /\ Restated(worker'.job, "running")
         /\ certs' \in CertsType /\ SameActive
         /\ \A e \in Cert : certs'[e].version = certs[e].version /\ certs'[e].auto = certs[e].auto
<1>1. PICK j \in Number : /\ jobs[j].status = "queued"
                          /\ jobs' = Finished(j, "running")
                          /\ certs' = [certs EXCEPT ![jobs[j].cert].status = Doing[jobs[j].kind]]
                          /\ worker' = [worker EXCEPT !.pc = "run", !.job = j]
  BY DEF TakeJob, Number, Finished
<1>2. worker'.job = j
  <2>1. worker \in WorkerType
    BY Rows
  <2> QED BY <1>1, <2>1 DEF WorkerType
<1>3. jobs' \in Seq(JobType) /\ Restated(j, "running")
  BY <1>1, FinishedEffect DEF JobStatus
<1>4. Doing[jobs[j].kind] \in Status /\ certs \in CertsType
  <2>1. jobs[j].kind \in {"issue", "renew", "account", "revoke"} /\ certs \in CertsType
    BY Rows DEF JobType
  <2> QED BY <2>1 DEF Doing, Status
<1>5. /\ certs' \in CertsType /\ SameActive
      /\ \A e \in Cert : certs'[e].version = certs[e].version /\ certs'[e].auto = certs[e].auto
  BY <1>1, <1>4 DEF CertsType, CertType, SameActive
<1> QED BY <1>1, <1>2, <1>3, <1>5

\* A finished job is given up by its profile, whose version and auto_renew the caller states.
LEMMA IdleEffect ==
  ASSUME TypeOK, NEW cs \in CertsType, NEW c \in Cert
  PROVE  /\ Idle(c, cs) \in CertsType
         /\ \A e \in Cert : /\ Idle(c, cs)[e].active = IF e = c THEN 0 ELSE cs[e].active
                            /\ Idle(c, cs)[e].version = cs[e].version
                            /\ Idle(c, cs)[e].auto = cs[e].auto
<1>1. 0 \in 0 .. MaxJobs
  BY Rows
<1> QED BY <1>1 DEF Idle, CertsType, CertType

\* A profile in another state keeps its version, its job and auto_renew.
LEMMA StatusEffect ==
  ASSUME NEW cs \in CertsType, NEW c \in Cert, NEW st \in Status
  PROVE  /\ [cs EXCEPT ![c].status = st] \in CertsType
         /\ \A e \in Cert : /\ [cs EXCEPT ![c].status = st][e].active = cs[e].active
                            /\ [cs EXCEPT ![c].status = st][e].version = cs[e].version
                            /\ [cs EXCEPT ![c].status = st][e].auto = cs[e].auto
  BY DEF CertsType, CertType

\* auto_renew after mark_revocation of the job j.
AutoOff(j) ==
    \A e \in Cert :
        /\ certs'[e].auto \in {FALSE, certs[e].auto}
        /\ jobs[j].kind = "revoke" /\ certs[e].version # 0 /\ certs[e].version = jobs[j].serial =>
             certs'[e].auto = FALSE
SameVersion == \A e \in Cert : certs'[e].version = certs[e].version

\* An account update or a revocation succeeded.
LEMMA CommitEffect ==
  ASSUME TypeOK, Running, CommitAdministration
  PROVE  /\ jobs' \in Seq(JobType) /\ Len(jobs') <= MaxJobs /\ Restated(worker.job, "succeeded")
         /\ certs' \in CertsType /\ ledger' \in LedgerType /\ Released /\ SameVersion /\ AutoOff(worker.job)
<1> DEFINE j == worker.job
           c == jobs[j].cert
           entries == IF jobs[j].kind = "revoke"
                      THEN [ledger EXCEPT ![jobs[j].serial].status = "revoked"] ELSE ledger
           marked == IF jobs[j].kind = "revoke" THEN Marked(certs, j, entries) ELSE certs
           named == [marked EXCEPT ![c].status = State(c, entries, "none")]
<1>1. j \in Number /\ j \in Job /\ c \in Cert /\ certs \in CertsType /\ ledger \in LedgerType /\ MaxSerial \in Nat
  <2>1. worker.pc \in Busy
    BY DEF CommitAdministration, Busy
  <2> QED BY <2>1, WorkersJob, Rows
<1>2. ledger' = entries /\ certs' = Idle(c, named) /\ jobs' = Finished(j, "succeeded")
  BY DEF CommitAdministration
<1>3. jobs' \in Seq(JobType) /\ Len(jobs') <= MaxJobs /\ Restated(j, "succeeded")
  BY <1>1, <1>2, FinishedEffect DEF JobStatus
<1>4. entries \in LedgerType
  <2>1. j \in 0 .. MaxJobs
    BY <1>1 DEF Job
  <2> QED BY <1>1, <2>1, EntriesTyped
<1>5. State(c, entries, "none") \in Status
  <2> HIDE DEF entries, c
  <2> QED BY <1>1, <1>4, StateTyped
<1>6. /\ marked \in CertsType
      /\ \A e \in Cert : /\ marked[e].active = certs[e].active /\ marked[e].version = certs[e].version
                         /\ marked[e].auto \in {FALSE, certs[e].auto}
                         /\ jobs[j].kind = "revoke" /\ certs[e].version # 0 /\ certs[e].version = jobs[j].serial =>
                              marked[e].auto = FALSE
  <2> HIDE DEF entries, c, j
  <2>1. CASE jobs[j].kind = "revoke"
    <3>1. marked = Marked(certs, j, entries)
      BY <2>1
    <3>2. MarkedLike(Marked(certs, j, entries), certs, j)
      BY <1>1, <1>4, MarkedTyped
    <3> HIDE DEF marked
    <3> QED BY <3>1, <3>2 DEF MarkedLike
  <2>2. CASE jobs[j].kind # "revoke"
    BY <1>1, <2>2
  <2> QED BY <2>1, <2>2
<1>7. /\ named \in CertsType
      /\ \A e \in Cert : /\ named[e].active = marked[e].active /\ named[e].version = marked[e].version
                         /\ named[e].auto = marked[e].auto
  <2> HIDE DEF marked, entries, c
  <2> QED BY <1>1, <1>5, <1>6, StatusEffect
<1>8. /\ certs' \in CertsType
      /\ \A e \in Cert : /\ certs'[e].active = IF e = c THEN 0 ELSE named[e].active
                         /\ certs'[e].version = named[e].version /\ certs'[e].auto = named[e].auto
  <2> HIDE DEF named, c
  <2> QED BY <1>1, <1>2, <1>7, IdleEffect, ZenonT(60)
<1> HIDE DEF named, marked, entries
<1>9. Released /\ SameVersion /\ AutoOff(j)
  <2>1. Released /\ SameVersion
    BY <1>6, <1>7, <1>8, ZenonT(60) DEF Released, SameVersion
  <2>2. AutoOff(j)
    BY <1>6, <1>7, <1>8 DEF AutoOff
  <2> QED BY <2>1, <2>2
<1> QED BY <1>2, <1>3, <1>4, <1>8, <1>9

\* A job failed or was interrupted.
LEMMA GivesUpEffect ==
  ASSUME TypeOK, Running, worker.pc \in Busy, NEW st \in JobStatus, Gives_up(st)
  PROVE  /\ jobs' \in Seq(JobType) /\ Len(jobs') <= MaxJobs /\ Restated(worker.job, st)
         /\ certs' \in CertsType /\ ledger' \in LedgerType /\ Released /\ SameVersion /\ AutoOff(worker.job)
<1> DEFINE j == worker.job
           c == jobs[j].cert
           entries == IF jobs[j].kind = "revoke"
                      THEN [ledger EXCEPT ![jobs[j].serial] = UnconfirmedRevocation] ELSE ledger
           idle == Idle(c, certs)
           marked == IF jobs[j].kind = "revoke" THEN Marked(idle, j, entries) ELSE idle
           default == IF jobs[j].kind \in Administration THEN "none" ELSE "failed"
<1>1. j \in Number /\ j \in Job /\ c \in Cert /\ certs \in CertsType /\ ledger \in LedgerType /\ MaxSerial \in Nat
  BY WorkersJob, Rows
<1>2. /\ ledger' = entries /\ jobs' = Finished(j, st)
      /\ certs' = [marked EXCEPT ![c].status = State(c, entries, default),
                      ![c].wait = @ \/ jobs[j].kind \notin Administration]
  BY DEF Gives_up
<1>3. jobs' \in Seq(JobType) /\ Len(jobs') <= MaxJobs /\ Restated(j, st)
  BY <1>1, <1>2, FinishedEffect
<1>4. entries \in LedgerType
  <2>1. j \in 0 .. MaxJobs
    BY <1>1 DEF Job
  <2> QED BY <1>1, <2>1, EntriesTyped DEF UnconfirmedRevocation
<1>5. State(c, entries, default) \in Status
  <2>1. default \in {"none", "failed"}
    OBVIOUS
  <2> HIDE DEF entries, c, default
  <2> QED BY <1>1, <1>4, <2>1, StateTyped
<1>6. /\ idle \in CertsType
      /\ \A e \in Cert : /\ idle[e].active = IF e = c THEN 0 ELSE certs[e].active
                         /\ idle[e].version = certs[e].version /\ idle[e].auto = certs[e].auto
  <2> HIDE DEF c
  <2> QED BY <1>1, IdleEffect
<1>7. /\ marked \in CertsType
      /\ \A e \in Cert : /\ marked[e].active = idle[e].active /\ marked[e].version = idle[e].version
                         /\ marked[e].auto \in {FALSE, idle[e].auto}
                         /\ jobs[j].kind = "revoke" /\ idle[e].version # 0 /\ idle[e].version = jobs[j].serial =>
                              marked[e].auto = FALSE
  <2> HIDE DEF idle, entries, c, j
  <2>1. CASE jobs[j].kind = "revoke"
    <3>1. marked = Marked(idle, j, entries)
      BY <2>1
    <3>2. MarkedLike(Marked(idle, j, entries), idle, j)
      BY <1>1, <1>4, <1>6, MarkedTyped
    <3> HIDE DEF marked
    <3> QED BY <3>1, <3>2 DEF MarkedLike
  <2>2. CASE jobs[j].kind # "revoke"
    BY <1>6, <2>2
  <2> QED BY <2>1, <2>2
<1>8. /\ certs' \in CertsType
      /\ \A e \in Cert : /\ certs'[e].active = marked[e].active /\ certs'[e].version = marked[e].version
                         /\ certs'[e].auto = marked[e].auto
  <2>1. PICK st1 \in Status, w \in BOOLEAN : certs' = [marked EXCEPT ![c].status = st1, ![c].wait = w]
    <3>1. (marked[c].wait \/ jobs[j].kind \notin Administration) \in BOOLEAN
      OBVIOUS
    <3> HIDE DEF marked, entries, c, default
    <3> QED BY <1>2, <1>5, <3>1
  <2> HIDE DEF marked, c
  <2>2. \A e \in Cert : marked[e] \in CertType
    BY <1>7 DEF CertsType
  <2>3. ASSUME NEW e \in Cert
        PROVE  /\ certs'[e] \in CertType
               /\ certs'[e].active = marked[e].active /\ certs'[e].version = marked[e].version
               /\ certs'[e].auto = marked[e].auto
    <3>1. certs'[e] = IF e = c THEN [marked[e] EXCEPT !.status = st1, !.wait = w] ELSE marked[e]
      BY <1>7, <2>1 DEF CertsType
    <3> QED BY <2>2, <3>1 DEF CertType
  <2>4. certs' \in CertsType
    BY <1>7, <2>1, <2>3 DEF CertsType
  <2> QED BY <2>3, <2>4
<1> HIDE DEF idle, marked, entries
<1>9. Released /\ SameVersion /\ AutoOff(j)
  <2>1. ASSUME NEW e \in Cert
        PROVE  /\ certs'[e].active = IF e = c THEN 0 ELSE certs[e].active
               /\ certs'[e].version = certs[e].version
    <3>1. certs'[e].active = marked[e].active /\ certs'[e].version = marked[e].version
      BY <1>8
    <3>2. marked[e].active = idle[e].active /\ marked[e].version = idle[e].version
      BY <1>7
    <3> HIDE DEF c
    <3> QED BY <1>6, <3>1, <3>2
  <2>2. ASSUME NEW e \in Cert
        PROVE  /\ certs'[e].auto \in {FALSE, certs[e].auto}
               /\ jobs[j].kind = "revoke" /\ certs[e].version # 0 /\ certs[e].version = jobs[j].serial =>
                    certs'[e].auto = FALSE
    <3>1. certs'[e].auto = marked[e].auto /\ idle[e].auto = certs[e].auto /\ idle[e].version = certs[e].version
      BY <1>6, <1>8
    <3> HIDE DEF j, c
    <3> QED BY <1>7, <3>1
  <2> QED BY <2>1, <2>2 DEF AutoOff, Released, SameVersion
<1> QED BY <1>2, <1>3, <1>4, <1>8, <1>9

(***************************************************************************)
(* The types.                                                              *)
(***************************************************************************)
\* The CA's certificates are as many as their numbers, so that the next one has the next number.
LEMMA SerialsBounded ==
  ASSUME TypeOK
  PROVE  Cardinality(ca.serials) \in 0 .. MaxSerial
<1>1. MaxSerial \in Nat /\ ca.serials \subseteq 1 .. MaxSerial
  BY Rows DEF CaType, Serial
<1>2. IsFiniteSet(1 .. MaxSerial) /\ Cardinality(1 .. MaxSerial) = MaxSerial
  BY <1>1, FS_Interval
<1>3. Cardinality(ca.serials) <= MaxSerial /\ IsFiniteSet(ca.serials)
  BY <1>1, <1>2, FS_Subset
<1>4. Cardinality(ca.serials) \in Nat
  BY <1>3, FS_CardinalityType
<1> QED BY <1>1, <1>3, <1>4

\* The administrator's steps keep the types.
LEMMA AdministratorTyped ==
  ASSUME TypeOK, Administrator
  PROVE  TypeOK'
<1>1. /\ certs \in CertsType /\ MaxJobs \in Nat /\ MaxSerial \in Nat /\ Serial \subseteq 0 .. MaxSerial
      /\ 0 \in 0 .. MaxSerial
  BY Rows DEF Serial
<1>2. ASSUME NEW c \in Cert, NEW force \in BOOLEAN, NEW kind \in {"issue", "renew"}, Queue(c, kind, force)
      PROVE  TypeOK'
  <2>1. Claims(c, kind, force \/ (certs[c].version # 0 /\ ~Usable(certs[c].version)))
    BY <1>2 DEF Queue, queue
  <2>2. (force \/ (certs[c].version # 0 /\ ~Usable(certs[c].version))) \in BOOLEAN
    OBVIOUS
  <2>3. jobs' \in Seq(JobType) /\ Len(jobs') <= MaxJobs /\ certs' \in CertsType
    BY <2>1, <2>2, ClaimsEffect DEF Kind
  <2> QED BY <1>2, <2>3 DEF Queue, TypeOK, CertsType
<1>3. ASSUME NEW c \in Cert, QueueAccount(c)
      PROVE  TypeOK'
  <2>1. jobs' \in Seq(JobType) /\ Len(jobs') <= MaxJobs /\ certs' \in CertsType
    BY <1>3, ClaimsEffect DEF Kind, QueueAccount
  <2> QED BY <1>3, <2>1 DEF QueueAccount, TypeOK, CertsType
<1>4. ASSUME NEW c \in Cert, NEW s \in Serial, queue_revocation(c, s)
      PROVE  TypeOK'
  <2>1. jobs' \in Seq(JobType) /\ Len(jobs') <= MaxJobs /\ certs' \in CertsType /\ ledger' \in LedgerType
    BY <1>4, RevocationEffect
  <2>2. UNCHANGED <<versions, targets, deploys, worker, child, disk, ca, crashes>>
    BY <1>4 DEF queue_revocation
  <2> QED BY <2>1, <2>2 DEF TypeOK, CertsType, LedgerType
<1>5. ASSUME NEW c \in Cert, NEW s \in Serial, activate(c, s)
      PROVE  TypeOK'
  <2>1. certs' \in CertsType
    <3>1. certs' = [certs EXCEPT ![c].version = s, ![c].status = "issued"]
      BY <1>5 DEF activate
    <3>2. "issued" \in Status /\ s \in 0 .. MaxSerial
      BY <1>1 DEF Status
    <3> QED BY <1>1, <3>1, <3>2, ZenonT(60) DEF CertsType, CertType
  <2> QED BY <1>5, <2>1 DEF activate, TypeOK, CertsType
<1>6. ASSUME NEW c \in Cert, NEW s \in Serial, import_certificate(c, s)
      PROVE  TypeOK'
  <2>1. certs' \in CertsType
    <3>1. certs' = [certs EXCEPT ![c].version = s, ![c].status = "issued"]
      BY <1>6 DEF import_certificate
    <3>2. "issued" \in Status /\ s \in 0 .. MaxSerial
      BY <1>1 DEF Status
    <3> QED BY <1>1, <3>1, <3>2 DEF CertsType, CertType
  <2>2. versions' \in [Cert -> SUBSET Serial]
    BY <1>6 DEF import_certificate, TypeOK
  <2>3. UNCHANGED <<jobs, ledger, targets, deploys, worker, child, disk, ca, crashes>>
    BY <1>6 DEF import_certificate
  <2> QED BY <2>1, <2>2, <2>3 DEF TypeOK, CertsType
<1>7. ASSUME NEW c \in Cert, NEW auto \in BOOLEAN, edit(c, auto)
      PROVE  TypeOK'
  <2>1. certs' \in CertsType
    BY <1>1, <1>7 DEF edit, CertsType, CertType
  <2> QED BY <1>7, <2>1 DEF edit, TypeOK, CertsType
<1>8. ASSUME NEW c \in Cert, TimePasses(c)
      PROVE  TypeOK'
  <2>1. certs' \in CertsType
    BY <1>1, <1>8 DEF TimePasses, CertsType, CertType
  <2> QED BY <1>8, <2>1 DEF TimePasses, TypeOK, CertsType
<1>9. ASSUME NEW t \in Target, deploy(t)
      PROVE  TypeOK'
  <2>1. certs[TargetOf[t]].version \in 1 .. MaxSerial
    BY <1>1, <1>9, CertificateAssumption DEF deploy, Deployable, CertsType, CertType
  <2>2. deploys' \subseteq [target : Target, serial : Serial] /\ targets' \in [Target -> 0 .. MaxSerial]
    BY <1>1, <1>9, <2>1 DEF deploy, Deploys, TypeOK, Serial
  <2> QED BY <1>9, <2>2 DEF deploy, TypeOK
<1>10. ASSUME NEW d \in deploys, CommandEnds(d)
       PROVE  TypeOK'
  BY <1>10 DEF CommandEnds, TypeOK
<1> QED
  BY <1>2, <1>3, <1>4, <1>5, <1>6, <1>7, <1>8, <1>9, <1>10 DEF Administrator

\* Steps of the worker that leave the catalogue alone.
LEMMA WorkerQuietTyped ==
  ASSUME TypeOK, Running,
         ListPending \/ ListDue \/ NoJob \/ RunLocal \/ RunRemote \/ RunAdministration \/ ReadResult
  PROVE  TypeOK'
<1>1. /\ MaxJobs \in Nat /\ MaxSerial \in Nat /\ certs \in CertsType
      /\ worker \in WorkerType /\ child \in ChildType /\ disk \in DiskType /\ ca \in CaType
  BY Rows
<1>2. UNCHANGED <<catalog, disk, ca, crashes>>
  BY Zenon DEF ListPending, ListDue, NoJob, RunLocal, RunRemote, RunAdministration, ReadResult
<1>3. \A pc \in Idling \cup Busy, data \in 0 .. MaxSerial :
         [worker EXCEPT !.pc = pc, !.data = data] \in WorkerType
  BY <1>1 DEF WorkerType
<1>4. \A pc \in Idling \cup Busy : [worker EXCEPT !.pc = pc] \in WorkerType
  BY <1>1 DEF WorkerType
<1>5. worker.pc \in Busy => /\ jobs[worker.job].cert \in Cert /\ worker.job \in Job
                            /\ disk.candidate[jobs[worker.job].cert] \in 0 .. MaxSerial
                            /\ certs[jobs[worker.job].cert].version \in 0 .. MaxSerial
                            /\ ca.issued[worker.job] \in 0 .. MaxSerial
  BY <1>1, WorkersJob DEF DiskType, CaType, CertsType, CertType
<1>6. \A step \in ChildStepName : worker.pc \in Busy => [job |-> worker.job, step |-> step] \in ChildType
  BY <1>1 DEF WorkerType, ChildType
<1>7. 0 \in 0 .. MaxSerial /\ "commit" \in Busy /\ "fail" \in Busy /\ "wait" \in Busy /\ "list" \in Idling
  BY <1>1 DEF Busy, Idling
<1>8. {"order", "begin", "administer"} \subseteq ChildStepName
  BY DEF ChildStepName
<1>9. \A data \in 0 .. MaxSerial : Ready(data) => worker' \in WorkerType
  BY <1>1, <1>7 DEF Ready, WorkerType
<1>10. Goes("fail") \/ Goes("list") \/ Goes("wait") => worker' \in WorkerType
  BY <1>1, <1>7 DEF Goes, WorkerType
<1>11. \A step \in ChildStepName : worker.pc \in Busy /\ Starts(step) => worker' \in WorkerType /\ child' \in ChildType
  BY <1>6, <1>10 DEF Starts
<1>12. worker' \in WorkerType /\ child' \in ChildType
  <2>1. CASE ListPending
    <3> DEFINE pending == {t \in Target : certs[TargetOf[t]].version \notin {0, targets[t]}}
    <3>1. pending \in SUBSET (Target \cup Cert)
      BY Zenon
    <3>2. "deploy" \in {"down"} \cup Idling \cup Busy /\ child' = child
          /\ worker' = [worker EXCEPT !.pc = "deploy", !.todo = pending]
      BY <2>1 DEF Idling, ListPending
    <3> HIDE DEF pending
    <3> QED BY <1>1, <3>1, <3>2 DEF WorkerType
  <2>2. CASE ListDue
    <3> DEFINE due == {c \in Cert \ Imported :
                          certs[c].auto /\ certs[c].active = 0 /\ ~certs[c].wait /\ certs[c].due}
    <3>1. due \in SUBSET (Target \cup Cert)
      BY Zenon
    <3>2. "schedule" \in {"down"} \cup Idling \cup Busy /\ child' = child
          /\ worker' = [worker EXCEPT !.pc = "schedule", !.todo = due]
      BY <2>2 DEF Idling, ListDue
    <3> HIDE DEF due
    <3> QED BY <1>1, <3>1, <3>2 DEF WorkerType
  <2>3. CASE NoJob
    BY <1>1, <1>10, <2>3 DEF NoJob
  <2>4. CASE RunLocal
    <3>1. worker.pc \in Busy
      BY <2>4 DEF RunLocal, Busy
    <3>2. \/ \E data \in 0 .. MaxSerial : Ready(data) /\ child' = child
          \/ Goes("fail") /\ child' = child
          \/ Starts("order")
      BY <1>5, <1>7, <2>4, <3>1 DEF RunLocal
    <3> QED BY <1>1, <1>8, <1>9, <1>10, <1>11, <3>1, <3>2
  <2>5. CASE RunRemote
    <3>1. worker.pc \in Busy
      BY <2>5 DEF RunRemote, Busy
    <3>2. \/ \E data \in 0 .. MaxSerial : Ready(data) /\ child' = child
          \/ Goes("fail") /\ child' = child
          \/ Starts("begin")
      BY <1>5, <1>7, <2>5, <3>1 DEF RunRemote
    <3> QED BY <1>1, <1>8, <1>9, <1>10, <1>11, <3>1, <3>2
  <2>6. CASE RunAdministration
    <3>1. worker.pc \in Busy
      BY <2>6 DEF RunAdministration, Busy
    <3>2. \/ Ready(0) /\ child' = child
          \/ Goes("fail") /\ child' = child
          \/ Starts("administer")
      BY <2>6 DEF RunAdministration
    <3> QED BY <1>1, <1>8, <1>9, <1>10, <1>11, <3>1, <3>2
  <2>7. CASE ReadResult
    <3>1. worker.pc \in Busy /\ child' = child
      BY <2>7 DEF ReadResult, Busy
    <3>2. \/ \E data \in 0 .. MaxSerial : Ready(data)
          \/ Goes("fail")
      BY <1>5, <1>7, <2>7, <3>1 DEF ReadResult
    <3> QED BY <1>1, <1>9, <1>10, <3>1, <3>2
  <2> QED BY <2>1, <2>2, <2>3, <2>4, <2>5, <2>6, <2>7
<1> QED BY <1>2, <1>12 DEF TypeOK, catalog, WorkerType, ChildType

\* Steps of the worker that change the catalogue.
LEMMA WorkerTyped ==
  ASSUME TypeOK, Running, WorkerStep
  PROVE  TypeOK'
<1>1. /\ MaxJobs \in Nat /\ MaxSerial \in Nat /\ Len(jobs) \in Nat /\ Len(jobs) <= MaxJobs
      /\ certs \in CertsType /\ ledger \in LedgerType /\ worker \in WorkerType
  BY Rows
<1>2. /\ Down \in WorkerType
      /\ \A pc \in {"list", "fail"} : [worker EXCEPT !.pc = pc] \in WorkerType
  BY <1>1 DEF Down, WorkerType, Idling, Busy
<1>3. CASE recover
  <2>1. jobs' \in Seq(JobType) /\ Len(jobs') <= MaxJobs /\ certs' \in CertsType
    BY <1>1, <1>3, RecoverEffect
  <2>2. worker' \in WorkerType /\ UNCHANGED <<versions, ledger, targets, deploys, child, disk, ca, crashes>>
    BY <1>2, <1>3 DEF recover, Goes
  <2> QED BY <2>1, <2>2 DEF TypeOK, CertsType, WorkerType
<1>4. CASE TakeJob
  <2>1. jobs' \in Seq(JobType) /\ Len(jobs') <= MaxJobs /\ certs' \in CertsType
    BY <1>1, <1>4, TakeEffect DEF Restated
  <2>2. worker' \in WorkerType
    <3>1. PICK j \in 1 .. Len(jobs) : worker' = [worker EXCEPT !.pc = "run", !.job = j]
      BY <1>4 DEF TakeJob
    <3>2. j \in 0 .. MaxJobs /\ "run" \in Busy
      BY <1>1 DEF Busy
    <3> QED BY <1>1, <3>1, <3>2 DEF WorkerType
  <2>3. UNCHANGED <<versions, ledger, targets, deploys, child, disk, ca, crashes>>
    BY <1>4 DEF TakeJob
  <2> QED BY <2>1, <2>2, <2>3 DEF TypeOK, CertsType, WorkerType
<1>5. ASSUME NEW t \in Target, DeployPending(t)
      PROVE  TypeOK'
  <2>1. deploys' \subseteq [target : Target, serial : Serial] /\ targets' \in [Target -> 0 .. MaxSerial]
    <3>1. CASE Deployable(t) /\ Deploys(t)
      <4>1. certs[TargetOf[t]].version \in 1 .. MaxSerial
        BY <1>1, <3>1, CertificateAssumption DEF Deployable, CertsType, CertType
      <4> QED BY <1>1, <3>1, <4>1, SMTT(30) DEF Deploys, TypeOK, Serial
    <3>2. CASE UNCHANGED <<deploys, targets>>
      BY <3>2 DEF TypeOK
    <3> QED BY <1>5, <3>1, <3>2 DEF DeployPending
  <2>2. worker' \in WorkerType
    BY <1>1, <1>5 DEF DeployPending, WorkerType
  <2>3. UNCHANGED <<certs, versions, jobs, ledger, child, disk, ca, crashes>>
    BY <1>5 DEF DeployPending
  <2> QED BY <2>1, <2>2, <2>3 DEF TypeOK, WorkerType
<1>6. ASSUME NEW c \in Cert, ScheduleDue(c)
      PROVE  TypeOK'
  <2>1. jobs' \in Seq(JobType) /\ Len(jobs') <= MaxJobs /\ certs' \in CertsType
    <3>1. CASE queue(c, "renew", FALSE)
      <4>1. Claims(c, "renew", FALSE \/ (certs[c].version # 0 /\ ~Usable(certs[c].version)))
        BY <3>1 DEF queue
      <4>2. (FALSE \/ (certs[c].version # 0 /\ ~Usable(certs[c].version))) \in BOOLEAN
        OBVIOUS
      <4> QED BY <4>1, <4>2, ClaimsEffect DEF Kind
    <3>2. CASE UNCHANGED <<certs, jobs>>
      BY <3>2, <1>1 DEF TypeOK
    <3> QED BY <1>6, <3>1, <3>2 DEF ScheduleDue
  <2>2. worker' \in WorkerType
    BY <1>1, <1>6 DEF ScheduleDue, WorkerType
  <2>3. UNCHANGED <<versions, ledger, targets, deploys, child, disk, ca, crashes>>
    BY <1>6 DEF ScheduleDue
  <2> QED BY <2>1, <2>2, <2>3 DEF TypeOK, WorkerType, CertsType
<1>7. CASE CommitAdministration
  <2>1. jobs' \in Seq(JobType) /\ Len(jobs') <= MaxJobs /\ certs' \in CertsType /\ ledger' \in LedgerType
    BY <1>7, CommitEffect
  <2>2. worker' \in WorkerType /\ UNCHANGED <<versions, targets, deploys, child, disk, ca, crashes>>
    BY <1>2, <1>7 DEF CommitAdministration, Goes
  <2> QED BY <2>1, <2>2 DEF TypeOK, CertsType, WorkerType, LedgerType
<1>8. CASE Publish
  <2> DEFINE j == worker.job
             c == jobs[j].cert
             s == worker.data
  <2>1. worker.pc \in Busy /\ s # 0
    BY <1>8 DEF Publish, Busy
  <2>2. j \in Number /\ c \in Cert /\ s \in Serial
    BY <1>1, <2>1, WorkersJob DEF WorkerType, Serial
  <2>3. CASE Usable(s)
    <3>1. /\ versions' = Stored(c, s) /\ jobs' = Finished(j, "succeeded") /\ Goes("list")
          /\ certs' = Idle(c, [certs EXCEPT ![c].version = s, ![c].status = "issued",
                                   ![c].due = FALSE, ![c].wait = TRUE])
      BY <1>8, <2>3 DEF Publish
    <3>2. jobs' \in Seq(JobType) /\ Len(jobs') <= MaxJobs
      BY <2>2, <3>1, FinishedEffect DEF JobStatus
    <3>3. versions' \in [Cert -> SUBSET Serial]
      <4> HIDE DEF c, s
      <4> QED BY <2>2, <3>1 DEF Stored, TypeOK
    <3>4. [certs EXCEPT ![c].version = s, ![c].status = "issued", ![c].due = FALSE, ![c].wait = TRUE] \in CertsType
      <4>1. "issued" \in Status /\ s \in 0 .. MaxSerial
        BY <1>1, <2>2 DEF Status, Serial
      <4> HIDE DEF c, s
      <4>2. [certs EXCEPT ![c].version = s, ![c].status = "issued", ![c].due = FALSE, ![c].wait = TRUE]
              = [e \in Cert |-> IF e = c THEN [certs[e] EXCEPT !.version = s, !.status = "issued",
                                                              !.due = FALSE, !.wait = TRUE] ELSE certs[e]]
        BY <1>1, <2>2 DEF CertsType
      <4>3. ASSUME NEW e \in Cert
            PROVE  [certs[e] EXCEPT !.version = s, !.status = "issued", !.due = FALSE, !.wait = TRUE] \in CertType
        <5>1. certs[e] \in CertType
          BY <1>1 DEF CertsType
        <5> QED BY <4>1, <5>1 DEF CertType
      <4> QED BY <1>1, <4>2, <4>3 DEF CertsType
    <3>5. certs' \in CertsType
      <4> HIDE DEF c, s
      <4> QED BY <2>2, <3>1, <3>4, IdleEffect
    <3>6. worker' \in WorkerType /\ UNCHANGED <<ledger, targets, deploys, child, disk, ca, crashes>>
      BY <1>2, <1>8, <3>1 DEF Publish, Goes
    <3> QED BY <3>2, <3>3, <3>5, <3>6 DEF TypeOK, CertsType, WorkerType
  <2>4. CASE ~Usable(s)
    <3>1. worker' \in WorkerType
          /\ UNCHANGED <<versions, certs, jobs, ledger, targets, deploys, child, disk, ca, crashes>>
      BY <1>2, <1>8, <2>4 DEF Publish, Goes
    <3> QED BY <3>1 DEF TypeOK, WorkerType
  <2> QED BY <2>3, <2>4
<1>9. CASE SkipRenewal
  <2> DEFINE j == worker.job
             c == jobs[j].cert
  <2>1. worker.pc \in Busy
    BY <1>9 DEF SkipRenewal, Busy
  <2>2. j \in Number /\ c \in Cert
    BY <2>1, WorkersJob
  <2>3. /\ certs' = Idle(c, [certs EXCEPT ![c].status = "issued", ![c].wait = TRUE])
        /\ jobs' = Finished(j, "skipped") /\ Goes("list")
        /\ UNCHANGED <<versions, ledger, targets, deploys, child, disk, ca, crashes>>
    BY <1>9 DEF SkipRenewal
  <2>4. jobs' \in Seq(JobType) /\ Len(jobs') <= MaxJobs
    BY <2>2, <2>3, FinishedEffect DEF JobStatus
  <2>5. [certs EXCEPT ![c].status = "issued", ![c].wait = TRUE] \in CertsType
    <3>1. "issued" \in Status
      BY DEF Status
    <3> HIDE DEF c
    <3> QED BY <1>1, <2>2, <3>1 DEF CertsType, CertType
  <2>6. certs' \in CertsType
    <3> HIDE DEF c
    <3> QED BY <2>2, <2>3, <2>5, IdleEffect
  <2>7. worker' \in WorkerType
    BY <1>2, <2>3 DEF Goes
  <2> QED BY <2>3, <2>4, <2>6, <2>7 DEF TypeOK, CertsType, WorkerType
<1>10. CASE Fail
  <2>1. jobs' \in Seq(JobType) /\ Len(jobs') <= MaxJobs /\ certs' \in CertsType /\ ledger' \in LedgerType
    BY <1>10, GivesUpEffect DEF Fail, Busy, JobStatus
  <2>2. worker' \in WorkerType /\ UNCHANGED <<versions, targets, deploys, child, disk, ca, crashes>>
    BY <1>2, <1>10 DEF Fail, Goes
  <2> QED BY <2>1, <2>2 DEF TypeOK, CertsType, WorkerType, LedgerType
<1>11. CASE Cancelled
  <2>1. worker.pc \in Busy /\ worker' \in WorkerType
        /\ UNCHANGED <<versions, targets, deploys, child, disk, ca, crashes>>
    BY <1>2, <1>11 DEF Cancelled, Busy
  <2>2. jobs' \in Seq(JobType) /\ Len(jobs') <= MaxJobs /\ certs' \in CertsType /\ ledger' \in LedgerType
    <3>1. CASE Resumable(worker.job)
      <4>1. worker.job \in Number /\ jobs[worker.job].cert \in Cert
        BY <2>1, WorkersJob
      <4>2. /\ jobs' = Finished(worker.job, "queued") /\ ledger' = ledger
            /\ certs' = [certs EXCEPT ![jobs[worker.job].cert].status = "queued"]
        BY <1>11, <3>1 DEF Cancelled
      <4>3. jobs' \in Seq(JobType) /\ Len(jobs') <= MaxJobs
        BY <4>1, <4>2, FinishedEffect DEF JobStatus
      <4>4. certs' \in CertsType
        BY <1>1, <4>1, <4>2, StatusEffect DEF Status
      <4> QED BY <1>1, <4>2, <4>3, <4>4
    <3>2. CASE ~Resumable(worker.job)
      BY <1>11, <2>1, <3>2, GivesUpEffect DEF Cancelled, JobStatus
    <3> QED BY <3>1, <3>2
  <2> QED BY <2>1, <2>2 DEF TypeOK, CertsType, WorkerType, LedgerType
<1> QED
  BY <1>3, <1>4, <1>5, <1>6, <1>7, <1>8, <1>9, <1>10, <1>11, WorkerQuietTyped, Zenon DEF WorkerStep

\* The steps of the ACME clients, and the end of the worker, keep the types.
LEMMA ChildTyped ==
  ASSUME TypeOK, Running, Clients, Revoking, ChildStep
  PROVE  TypeOK'
<1>1. /\ MaxJobs \in Nat /\ MaxSerial \in Nat /\ worker \in WorkerType /\ child \in ChildType
      /\ disk \in DiskType /\ ca \in CaType /\ Cardinality(ca.serials) \in 0 .. MaxSerial
  BY Rows, SerialsBounded
<1>2. UNCHANGED <<catalog, crashes>>
  BY Zenon DEF ChildStep, LegoOrders, LegoSaves, LegoDeclines, RemoteBegins, RemotePosts, RemoteKeeps,
               RemoteFinalizes, CaRevokes, WriteReceipt, ClientFails, ChildKilled
<1>3. \A step \in ChildStepName : ChildGoes(step) => child' \in ChildType
  BY <1>1 DEF ChildGoes, ChildType
<1>4. ASSUME NEW outcome \in {"read", "fail"}, Exits(outcome)
      PROVE  worker' \in WorkerType /\ child' \in ChildType
  BY <1>1, <1>4 DEF Exits, WorkerType, ChildType, NoChild, Busy, ChildStepName
<1>5. /\ {"save", "post", "keep", "finalize", "write"} \subseteq ChildStepName
      /\ NextSerial <= MaxSerial => NextSerial \in Serial
  BY <1>1 DEF ChildStepName, NextSerial, Serial
<1>6. child.step # "none" => child.job \in Number /\ child.job \in Job /\ jobs[child.job] \in JobType
  <2>1. child.step # "none" => child # NoChild
    BY <1>1 DEF NoChild
  <2> QED BY <2>1, Rows DEF Running
<1>7. worker' \in WorkerType /\ child' \in ChildType /\ disk' \in DiskType /\ ca' \in CaType
  <2>1. CASE LegoOrders
    <3>1. ca' \in CaType /\ worker' = worker /\ disk' = disk
      BY <1>1, <1>5, <2>1 DEF LegoOrders, CaType
    <3> QED BY <1>1, <1>3, <1>5, <2>1, <3>1 DEF LegoOrders
  <2>2. CASE LegoSaves
    <3>1. disk' \in DiskType /\ ca' = ca
      <4>1. PICK n \in 0 .. MaxSerial : \E c : disk' = [disk EXCEPT !.candidate[c] = n]
        BY <1>1, <2>2 DEF LegoSaves
      <4>2. PICK c : disk' = [disk EXCEPT !.candidate[c] = n]
        BY <4>1
      <4> QED BY <1>1, <2>2, <4>2 DEF LegoSaves, DiskType
    <3> QED BY <1>1, <1>4, <2>2, <3>1 DEF LegoSaves
  <2>3. CASE LegoDeclines
    BY <1>1, <1>4, <2>3 DEF LegoDeclines
  <2>4. CASE RemoteBegins
    <3>1. child.job \in Job /\ ca' = ca
      BY <1>6, <2>4 DEF RemoteBegins, At
    <3>2. disk' \in DiskType
      <4>1. [disk EXCEPT !.result[child.job] = "failed"] \in DiskType
            /\ [disk EXCEPT !.intent = @ \cup {child.job}] \in DiskType
        BY <1>1, <3>1 DEF DiskType
      <4> QED BY <1>1, <2>4, <4>1 DEF RemoteBegins
    <3> QED BY <1>1, <1>3, <1>4, <1>5, <2>4, <3>1, <3>2 DEF RemoteBegins
  <2>5. CASE RemotePosts
    <3>1. ca' \in CaType /\ worker' = worker /\ disk' = disk
      <4>1. ca' = [ca EXCEPT !.orders[child.job] = @ + 1]
        BY <2>5 DEF RemotePosts
      <4>2. child.job \in Job
        BY <1>6, <2>5 DEF RemotePosts, At
      <4> QED BY <1>1, <2>5, <4>1, <4>2 DEF RemotePosts, CaType
    <3> QED BY <1>1, <1>3, <1>5, <2>5, <3>1 DEF RemotePosts
  <2>6. CASE RemoteKeeps
    <3>1. child.job \in Job /\ ca' = ca /\ worker' = worker
      BY <1>6, <2>6 DEF RemoteKeeps, At
    <3>2. disk' \in DiskType
      BY <1>1, <2>6, <3>1 DEF RemoteKeeps, DiskType
    <3> QED BY <1>1, <1>3, <1>5, <2>6, <3>1, <3>2 DEF RemoteKeeps
  <2>7. CASE RemoteFinalizes
    <3>1. ca' \in CaType /\ worker' = worker /\ disk' = disk
      <4>1. CASE ca.issued[child.job] # 0
        BY <1>1, <2>7, <4>1 DEF RemoteFinalizes
      <4>2. CASE ca.issued[child.job] = 0
        <5>1. NextSerial \in Serial /\ NextSerial \in 0 .. MaxSerial
          BY <1>1, <1>5, <2>7, <4>2 DEF RemoteFinalizes, Serial
        <5>2. ca' = [ca EXCEPT !.serials = @ \cup {NextSerial}, !.issued[child.job] = NextSerial]
          BY <2>7, <4>2 DEF RemoteFinalizes
        <5>3. PICK x \in SUBSET Serial, y \in [Job -> 0 .. MaxSerial] :
                 ca' = [ca EXCEPT !.serials = x, !.issued = y]
          <6>1. ca.serials \cup {NextSerial} \in SUBSET Serial
            BY <1>1, <5>1 DEF CaType
          <6>2. [ca.issued EXCEPT ![child.job] = NextSerial] \in [Job -> 0 .. MaxSerial]
            BY <1>1, <5>1 DEF CaType
          <6>3. ca' = [ca EXCEPT !.serials = ca.serials \cup {NextSerial},
                                 !.issued = [ca.issued EXCEPT ![child.job] = NextSerial]]
            BY <1>1, <5>2 DEF CaType
          <6> QED BY <6>1, <6>2, <6>3
        <5>4. ca' \in CaType
          BY <1>1, <5>3 DEF CaType
        <5> QED BY <2>7, <5>4 DEF RemoteFinalizes
      <4> QED BY <4>1, <4>2
    <3> QED BY <1>1, <1>3, <1>5, <2>7, <3>1 DEF RemoteFinalizes
  <2>8. CASE CaRevokes
    <3>1. child.job \in Number /\ worker' = worker /\ disk' = disk
      BY <1>6, <2>8 DEF CaRevokes, At
    <3>2. jobs[child.job].kind = "revoke" => jobs[child.job].serial \in Serial
      BY <3>1 DEF Revoking
    <3>3. ca' \in CaType
      BY <1>1, <2>8, <3>2 DEF CaRevokes, CaType
    <3> QED BY <1>1, <1>3, <1>5, <2>8, <3>1, <3>3 DEF CaRevokes
  <2>9. CASE WriteReceipt
    <3>1. disk' \in DiskType /\ ca' = ca
      BY <1>1, <2>9 DEF WriteReceipt, DiskType
    <3> QED BY <1>1, <1>4, <2>9, <3>1 DEF WriteReceipt
  <2>10. CASE ClientFails
    <3>1. disk' \in DiskType /\ ca' = ca
      BY <1>1, <2>10 DEF ClientFails, DiskType
    <3> QED BY <1>1, <1>4, <2>10, <3>1 DEF ClientFails
  <2>11. CASE ChildKilled
    BY <1>1, <1>4, <2>11 DEF ChildKilled
  <2> QED
    BY <2>1, <2>2, <2>3, <2>4, <2>5, <2>6, <2>7, <2>8, <2>9, <2>10, <2>11, Zenon DEF ChildStep
<1> QED BY <1>2, <1>7 DEF TypeOK, catalog, WorkerType, ChildType, DiskType, CaType

\* Every step keeps the types.
LEMMA StepTyped == JobsInv /\ [Next]_vars => TypeOK'
<1> SUFFICES ASSUME JobsInv, [Next]_vars PROVE TypeOK'
  OBVIOUS
<1>1. TypeOK /\ Running /\ Clients /\ Revoking
  BY DEF JobsInv
<1>2. CASE Cancel
  <2>1. worker \in WorkerType /\ MaxJobs \in Nat /\ crashes \in 0 .. MaxCrashes /\ MaxCrashes \in Nat
    BY <1>1, Rows, CertificateAssumption DEF TypeOK
  <2>2. worker' \in WorkerType
    BY <1>2, <2>1 DEF Cancel, Goes, WorkerType, Busy
  <2>3. child' \in ChildType /\ crashes' \in 0 .. MaxCrashes /\ UNCHANGED <<catalog, disk, ca>>
    BY <1>2, <2>1 DEF Cancel, NoChild, ChildType, ChildStepName
  <2> QED BY <1>1, <2>2, <2>3 DEF TypeOK, catalog, WorkerType, ChildType
<1>3. CASE Crash
  <2>1. MaxSerial \in Nat /\ MaxJobs \in Nat /\ crashes \in 0 .. MaxCrashes /\ MaxCrashes \in Nat
    BY <1>1, Rows, CertificateAssumption DEF TypeOK
  <2>2. worker' \in WorkerType
    BY <1>3, <2>1 DEF Crash, Down, WorkerType
  <2>3. crashes' \in 0 .. MaxCrashes /\ UNCHANGED <<catalog, child, disk, ca>>
    BY <1>3, <2>1 DEF Crash
  <2> QED BY <1>1, <2>2, <2>3 DEF TypeOK, catalog, WorkerType
<1>4. CASE UNCHANGED vars
  BY <1>1, <1>4 DEF vars, TypeOK
<1> QED BY <1>1, <1>2, <1>3, <1>4, AdministratorTyped, WorkerTyped, ChildTyped, Zenon DEF Next

(***************************************************************************)
(* One order for each remote job.                                          *)
(***************************************************************************)
\* A step keeps Orders: an order is posted only after its intent was written, an intent is written once,
\* and a client that starts later finds it.
LEMMA StepOrders == JobsInv /\ [Next]_vars => Orders'
<1> SUFFICES ASSUME JobsInv, [Next]_vars PROVE Orders'
  OBVIOUS
<1>1. child \in ChildType /\ disk \in DiskType /\ ca \in CaType /\ Orders /\ Running
  BY Rows DEF JobsInv
<1>2. child.step # "none" => child.job \in Job
  <2>1. child.step # "none" => child # NoChild
    BY <1>1 DEF NoChild
  <2> QED BY <2>1, Rows DEF JobsInv, Running
<1>3. ASSUME ca'.orders = ca.orders, disk'.intent = disk.intent,
             child' = child \/ child'.step # "post"
      PROVE  Orders'
  BY <1>1, <1>3 DEF Orders
<1>4. NoChild.step # "post"
  BY DEF NoChild
<1>5. CASE Administrator
  BY <1>3, <1>5, ZenonT(60)
     DEF Administrator, Queue, QueueAccount, queue_revocation, edit, activate, import_certificate, TimePasses,
         deploy, CommandEnds
<1>6. CASE WorkerStep
  <2>1. ca' = ca /\ disk' = disk
    BY <1>6, Zenon
       DEF WorkerStep, recover, ListPending, ListDue, TakeJob, NoJob, DeployPending, ScheduleDue, RunLocal,
           RunRemote, RunAdministration, ReadResult, CommitAdministration, Publish, SkipRenewal, Fail, Cancelled
  <2>2. child' = child \/ Starts("order") \/ Starts("begin") \/ Starts("administer")
    BY <1>6, Zenon
       DEF WorkerStep, recover, ListPending, ListDue, TakeJob, NoJob, DeployPending, ScheduleDue, RunLocal,
           RunRemote, RunAdministration, ReadResult, CommitAdministration, Publish, SkipRenewal, Fail, Cancelled
  <2>3. child' = child \/ child'.step # "post"
    BY <2>2 DEF Starts
  <2> QED BY <1>3, <2>1, <2>3
<1>7. CASE LegoOrders \/ LegoSaves \/ LegoDeclines \/ CaRevokes \/ WriteReceipt \/ RemoteFinalizes \/ RemoteKeeps
  <2>1. child' = child \/ child'.step # "post"
    BY <1>1, <1>4, <1>7
       DEF LegoOrders, LegoSaves, LegoDeclines, CaRevokes, WriteReceipt, RemoteFinalizes, RemoteKeeps, ChildGoes,
           Exits, ChildType
  <2>2. ca'.orders = ca.orders
    BY <1>1, <1>7
       DEF LegoOrders, LegoSaves, LegoDeclines, CaRevokes, WriteReceipt, RemoteFinalizes, RemoteKeeps, CaType
  <2>3. disk'.intent = disk.intent
    BY <1>1, <1>7
       DEF LegoOrders, LegoSaves, LegoDeclines, CaRevokes, WriteReceipt, RemoteFinalizes, RemoteKeeps, DiskType
  <2> QED BY <1>3, <2>1, <2>2, <2>3
<1>8. CASE ClientFails \/ ChildKilled
  <2>1. child' = NoChild /\ ca' = ca
    BY <1>8 DEF ClientFails, ChildKilled, Exits
  <2>2. disk'.intent = disk.intent
    BY <1>1, <1>8 DEF ClientFails, ChildKilled, DiskType
  <2> QED BY <1>3, <1>4, <2>1, <2>2
<1>9. CASE RemoteBegins
  <2>1. ca' = ca /\ child.job \in Job /\ child.step = "begin"
    BY <1>2, <1>9 DEF RemoteBegins, At
  <2>2. CASE disk' = disk /\ ChildGoes("finalize")
    BY <1>1, <1>3, <2>1, <2>2 DEF ChildGoes, ChildType
  <2>3. CASE disk' = [disk EXCEPT !.result[child.job] = "failed"] /\ Exits("read")
    BY <1>1, <1>3, <1>4, <2>1, <2>3 DEF Exits, DiskType
  <2>4. CASE /\ child.job \notin disk.intent
             /\ disk' = [disk EXCEPT !.intent = @ \cup {child.job}] /\ ChildGoes("post")
    <3>1. disk'.intent = disk.intent \cup {child.job} /\ child'.job = child.job
      BY <1>1, <2>4 DEF DiskType, ChildGoes, ChildType
    <3>2. ca.orders[child.job] \in Nat /\ ~(ca.orders[child.job] > 0)
      BY <1>1, <2>1, <2>4 DEF Orders, CaType
    <3> QED BY <1>1, <2>1, <3>1, <3>2 DEF Orders
  <2> QED BY <1>9, <2>2, <2>3, <2>4 DEF RemoteBegins, Unconfirmed
<1>10. CASE RemotePosts
  <2>1. child.job \in Job /\ child.step = "post"
    BY <1>2, <1>10 DEF RemotePosts, At
  <2>2. ca'.orders = [ca.orders EXCEPT ![child.job] = @ + 1] /\ disk' = disk /\ child'.step = "keep"
    BY <1>1, <1>10 DEF RemotePosts, CaType, ChildGoes, ChildType
  <2>3. ca.orders \in [Job -> Nat]
    BY <1>1 DEF CaType
  <2> QED BY <1>1, <2>1, <2>2, <2>3 DEF Orders
<1>11. CASE Cancel \/ Crash
  <2>1. ca' = ca /\ disk' = disk /\ (child' = child \/ child' = NoChild)
    BY <1>11 DEF Cancel, Crash
  <2> QED BY <1>3, <1>4, <2>1
<1>12. CASE UNCHANGED vars
  BY <1>3, <1>12 DEF vars
<1> QED
  BY <1>5, <1>6, <1>7, <1>8, <1>9, <1>10, <1>11, <1>12, Zenon DEF Next, ChildStep

(***************************************************************************)
(* Jobs, their profiles, the worker and its client.                        *)
(***************************************************************************)
\* A step that ends the worker's job.
Ends ==
    \/ CommitAdministration \/ (Publish /\ Usable(worker.data)) \/ SkipRenewal \/ Fail
    \/ Cancelled /\ ~Resumable(worker.job)

\* Steps that change no job.
Quiet ==
    \/ \E c \in Cert, s \in Serial : activate(c, s) \/ import_certificate(c, s)
    \/ \E c \in Cert, auto \in BOOLEAN : edit(c, auto)
    \/ \E c \in Cert : TimePasses(c)
    \/ \E t \in Target : deploy(t) \/ DeployPending(t)
    \/ \E d \in deploys : CommandEnds(d)
    \/ ListPending \/ ListDue \/ NoJob \/ RunLocal \/ RunRemote \/ RunAdministration \/ ReadResult
    \/ Publish /\ ~Usable(worker.data)
    \/ \E c \in Cert : ScheduleDue(c) /\ UNCHANGED <<certs, jobs>>
    \/ ChildStep \/ Cancel \/ Crash \/ UNCHANGED vars

\* Steps that queue the job x for the profile c.
Queues ==
    \/ \E c \in Cert, force \in BOOLEAN, kind \in {"issue", "renew"} : Queue(c, kind, force)
    \/ \E c \in Cert : QueueAccount(c)
    \/ \E c \in Cert : ScheduleDue(c) /\ queue(c, "renew", FALSE)
    \/ \E c \in Cert, s \in Serial : queue_revocation(c, s)

\* Every step is of one of these sorts.
LEMMA Sorts ==
  ASSUME [Next]_vars
  PROVE  Quiet \/ Queues \/ Ends \/ recover \/ TakeJob \/ (Cancelled /\ Resumable(worker.job))
<1>1. CASE Administrator
  BY <1>1, Zenon DEF Administrator, Quiet, Queues
<1>2. CASE WorkerStep
  <2>1. ASSUME NEW c \in Cert, ScheduleDue(c)
        PROVE  Quiet \/ Queues
    BY <2>1, Zenon DEF Quiet, Queues, ScheduleDue
  <2> QED BY <1>2, <2>1, Zenon DEF WorkerStep, Quiet, Ends
<1>3. CASE ChildStep \/ Cancel \/ Crash \/ UNCHANGED vars
  BY <1>3, Zenon DEF Quiet
<1> QED BY <1>1, <1>2, <1>3, Zenon DEF Next

\* A quiet step leaves the jobs as they are.
LEMMA QuietEffect ==
  ASSUME TypeOK, Quiet
  PROVE  jobs' = jobs /\ SameActive
<1>1. certs \in CertsType
  BY Rows
<1>2. ASSUME NEW c \in Cert, NEW s \in Serial, activate(c, s) \/ import_certificate(c, s)
      PROVE  jobs' = jobs /\ SameActive
  BY <1>1, <1>2 DEF activate, import_certificate, SameActive, CertsType, CertType
<1>3. ASSUME NEW c \in Cert, NEW auto \in BOOLEAN, edit(c, auto)
      PROVE  jobs' = jobs /\ SameActive
  BY <1>1, <1>3 DEF edit, SameActive, CertsType, CertType
<1>4. ASSUME NEW c \in Cert, TimePasses(c)
      PROVE  jobs' = jobs /\ SameActive
  BY <1>1, <1>4 DEF TimePasses, SameActive, CertsType, CertType
<1>5. ASSUME UNCHANGED <<certs, jobs>>
      PROVE  jobs' = jobs /\ SameActive
  BY <1>5 DEF SameActive
<1>6. ASSUME ChildStep
      PROVE  UNCHANGED <<certs, jobs>>
  BY <1>6, Zenon
     DEF ChildStep, LegoOrders, LegoSaves, LegoDeclines, RemoteBegins, RemotePosts, RemoteKeeps,
         RemoteFinalizes, CaRevokes, WriteReceipt, ClientFails, ChildKilled, catalog
<1>7. ASSUME ListPending \/ ListDue \/ NoJob \/ RunLocal \/ RunRemote \/ RunAdministration \/ ReadResult
      PROVE  UNCHANGED <<certs, jobs>>
  BY <1>7, Zenon
     DEF ListPending, ListDue, NoJob, RunLocal, RunRemote, RunAdministration, ReadResult, catalog
<1>8. ASSUME (Publish /\ ~Usable(worker.data)) \/ Cancel \/ Crash \/ UNCHANGED vars
      PROVE  UNCHANGED <<certs, jobs>>
  BY <1>8 DEF Publish, Cancel, Crash, vars, catalog
<1>9. ASSUME NEW t \in Target, deploy(t) \/ DeployPending(t)
      PROVE  UNCHANGED <<certs, jobs>>
  BY <1>9 DEF deploy, DeployPending
<1>10. ASSUME NEW d \in deploys, CommandEnds(d)
       PROVE  UNCHANGED <<certs, jobs>>
  BY <1>10 DEF CommandEnds
<1> QED BY <1>2, <1>3, <1>4, <1>5, <1>6, <1>7, <1>8, <1>9, <1>10, Zenon DEF Quiet

\* A queued job is claimed by its profile; the worker and the client are where they were.
LEMMA QueuesEffect ==
  ASSUME TypeOK, Queues
  PROVE  /\ \E c \in Cert, x \in JobType : ClaimedBy(c, x)
         /\ UNCHANGED <<child, disk, ca>> /\ worker'.pc = worker.pc /\ worker'.job = worker.job
<1>1. ASSUME NEW c \in Cert, NEW force \in BOOLEAN, NEW kind \in {"issue", "renew"}, queue(c, kind, force)
      PROVE  \E x \in JobType : ClaimedBy(c, x)
  <2>1. Claims(c, kind, force \/ (certs[c].version # 0 /\ ~Usable(certs[c].version)))
    BY <1>1 DEF queue
  <2>2. (force \/ (certs[c].version # 0 /\ ~Usable(certs[c].version))) \in BOOLEAN
    OBVIOUS
  <2>3. PICK f \in BOOLEAN : Claims(c, kind, f)
    BY <2>1, <2>2
  <2>4. ClaimedBy(c, NewJob(c, kind, f, 0))
    BY <2>3, ClaimsEffect DEF Kind
  <2>5. NewJob(c, kind, f, 0) \in JobType
    BY <2>4 DEF ClaimedBy
  <2> QED BY <2>4, <2>5
<1>2. ASSUME NEW c \in Cert, NEW force \in BOOLEAN, NEW kind \in {"issue", "renew"}, Queue(c, kind, force)
      PROVE  (\E x \in JobType : ClaimedBy(c, x)) /\ UNCHANGED <<child, disk, ca, worker>>
  BY <1>1, <1>2 DEF Queue
<1>3. ASSUME NEW c \in Cert, QueueAccount(c)
      PROVE  (\E x \in JobType : ClaimedBy(c, x)) /\ UNCHANGED <<child, disk, ca, worker>>
  BY <1>3, ClaimsEffect DEF QueueAccount, Kind, ClaimedBy
<1>4. ASSUME NEW c \in Cert, ScheduleDue(c), queue(c, "renew", FALSE)
      PROVE  /\ \E x \in JobType : ClaimedBy(c, x)
             /\ UNCHANGED <<child, disk, ca>> /\ worker'.pc = worker.pc /\ worker'.job = worker.job
  <2>1. worker \in WorkerType
    BY Rows
  <2>2. \E x \in JobType : ClaimedBy(c, x)
    BY <1>1, <1>4
  <2> QED BY <1>4, <2>1, <2>2 DEF ScheduleDue, WorkerType
<1>5. ASSUME NEW c \in Cert, NEW s \in Serial, queue_revocation(c, s)
      PROVE  (\E x \in JobType : ClaimedBy(c, x)) /\ UNCHANGED <<child, disk, ca, worker>>
  <2>1. ClaimedBy(c, NewJob(c, "revoke", FALSE, s))
    BY <1>5, RevocationEffect
  <2>2. UNCHANGED <<child, disk, ca, worker>>
    BY <1>5 DEF queue_revocation
  <2> QED BY <2>1, <2>2 DEF ClaimedBy
<1> QED BY <1>2, <1>3, <1>4, <1>5, Zenon DEF Queues

\* A job that ends is given up by its profile, and the worker has no client then.
LEMMA EndsEffect ==
  ASSUME TypeOK, Running, Ends
  PROVE  /\ worker.pc \in {"commit", "fail", "cancel"} /\ worker'.pc \in {"list", "down"}
         /\ \E st \in {"succeeded", "failed", "skipped", "interrupted"} : Restated(worker.job, st)
         /\ Released /\ UNCHANGED <<child, disk, ca>>
<1>1. worker \in WorkerType /\ certs \in CertsType
  BY Rows
<1>2. worker.pc \in {"commit", "fail", "cancel"} /\ UNCHANGED <<child, disk, ca>>
  BY DEF Ends, CommitAdministration, Publish, SkipRenewal, Fail, Cancelled
<1>3. worker.job \in Number /\ jobs[worker.job].cert \in Cert /\ worker.pc \in Busy
  <2>1. worker.pc \in Busy
    BY <1>2 DEF Busy
  <2> QED BY <2>1, WorkersJob
<1>4. worker'.pc \in {"list", "down"}
  <2>1. Goes("list") \/ worker' = Down
    BY DEF Ends, CommitAdministration, Publish, SkipRenewal, Fail, Cancelled
  <2> QED BY <1>1, <2>1 DEF Goes, Down, WorkerType
<1>5. CASE CommitAdministration
  BY <1>2, <1>4, <1>5, CommitEffect
<1>6. CASE Publish /\ Usable(worker.data)
  <2> DEFINE c == jobs[worker.job].cert
             cs == [certs EXCEPT ![c].version = worker.data, ![c].status = "issued",
                                  ![c].due = FALSE, ![c].wait = TRUE]
  <2>1. certs' = Idle(c, cs) /\ jobs' = Finished(worker.job, "succeeded")
    BY <1>6 DEF Publish
  <2>2. Restated(worker.job, "succeeded")
    BY <1>3, <2>1, FinishedEffect DEF JobStatus
  <2>3. \A e \in Cert : certs'[e].active = IF e = c THEN 0 ELSE certs[e].active
    <3>1. cs = [e \in Cert |-> IF e = c THEN [certs[e] EXCEPT !.version = worker.data, !.status = "issued",
                                                          !.due = FALSE, !.wait = TRUE] ELSE certs[e]]
      <4> HIDE DEF c
      <4> QED BY <1>1 DEF CertsType
    <3>2. \A e \in Cert : certs[e] \in CertType
      BY <1>1 DEF CertsType
    <3> HIDE DEF cs, c
    <3>3. \A e \in Cert : "active" \in DOMAIN cs[e] /\ cs[e].active = certs[e].active
      BY <3>1, <3>2 DEF CertType
    <3> QED BY <2>1, <3>1, <3>3 DEF Idle
  <2> QED BY <1>2, <1>4, <2>2, <2>3 DEF Released
<1>7. CASE SkipRenewal
  <2> DEFINE c == jobs[worker.job].cert
  <2>1. /\ certs' = Idle(c, [certs EXCEPT ![c].status = "issued", ![c].wait = TRUE])
        /\ jobs' = Finished(worker.job, "skipped")
    BY <1>7 DEF SkipRenewal
  <2>2. Restated(worker.job, "skipped")
    BY <1>3, <2>1, FinishedEffect DEF JobStatus
  <2>3. \A e \in Cert : certs'[e].active = IF e = c THEN 0 ELSE certs[e].active
    <3> HIDE DEF c
    <3> QED BY <1>1, <1>3, <2>1 DEF Idle, CertsType, CertType, c
  <2> QED BY <1>2, <1>4, <2>2, <2>3 DEF Released
<1>8. CASE Fail \/ (Cancelled /\ ~Resumable(worker.job))
  <2>1. Gives_up("failed") \/ Gives_up("interrupted")
    BY <1>8 DEF Fail, Cancelled
  <2>2. \E st \in {"failed", "interrupted"} : Restated(worker.job, st) /\ Released
    BY <1>3, <2>1, GivesUpEffect DEF JobStatus
  <2> QED BY <1>2, <1>4, <2>2
<1> QED BY <1>5, <1>6, <1>7, <1>8 DEF Ends

\* A cancelled job that can be resumed is queued again.
LEMMA RequeueEffect ==
  ASSUME TypeOK, Running, Cancelled, Resumable(worker.job)
  PROVE  /\ worker.pc = "cancel" /\ worker'.pc = "down" /\ Restated(worker.job, "queued") /\ SameActive
         /\ UNCHANGED <<child, disk, ca, ledger, versions, deploys>>
         /\ \A e \in Cert : certs'[e].version = certs[e].version /\ certs'[e].auto = certs[e].auto
<1>1. worker.pc = "cancel" /\ worker'.pc = "down" /\ UNCHANGED <<child, disk, ca, ledger, versions, deploys>>
  BY DEF Cancelled, Down
<1>2. worker.job \in Number /\ jobs[worker.job].cert \in Cert /\ certs \in CertsType
  BY <1>1, WorkersJob, Rows DEF Busy
<1>3. /\ jobs' = Finished(worker.job, "queued")
      /\ certs' = [certs EXCEPT ![jobs[worker.job].cert].status = "queued"]
  BY DEF Cancelled
<1>4. Restated(worker.job, "queued")
  BY <1>2, <1>3, FinishedEffect DEF JobStatus
<1>5. SameActive /\ \A e \in Cert : certs'[e].version = certs[e].version /\ certs'[e].auto = certs[e].auto
  BY <1>2, <1>3 DEF SameActive, CertsType, CertType
<1> QED BY <1>1, <1>4, <1>5

\* A profile and its unfinished job go on knowing each other.
LEMMA StepOwned == JobsInv /\ [Next]_vars => Owned'
<1> SUFFICES ASSUME JobsInv, [Next]_vars PROVE Owned'
  OBVIOUS
<1>1. TypeOK /\ Running /\ Owned /\ Len(jobs) \in Nat /\ \A j \in Number : jobs[j] \in JobType
  BY Rows DEF JobsInv
<1>2. CASE Quiet
  <2>1. jobs' = jobs /\ SameActive
    BY <1>1, <1>2, QuietEffect
  <2>2. \A j \in Number : Active(j) => certs'[jobs[j].cert].active = j
    BY <1>1, <2>1 DEF Owned, SameActive, JobType
  <2>3. \A e \in Cert : certs'[e].active # 0 =>
          certs'[e].active \in Number /\ Active(certs'[e].active) /\ jobs[certs'[e].active].cert = e
    BY <1>1, <2>1 DEF Owned, SameActive
  <2> QED BY <2>1, <2>2, <2>3 DEF Owned, Number, Active
<1>3. CASE Queues
  <2>1. PICK c \in Cert, x \in JobType : ClaimedBy(c, x)
    BY <1>1, <1>3, QueuesEffect
  <2>2. ASSUME NEW j \in 1 .. Len(jobs'), Active(j)'
        PROVE  certs'[jobs'[j].cert].active = j
    <3>1. CASE j = Len(jobs) + 1
      BY <2>1, <3>1 DEF ClaimedBy
    <3>2. CASE j \in Number
      <4>1. jobs'[j] = jobs[j] /\ Active(j)
        BY <2>1, <2>2, <3>2 DEF ClaimedBy, Active
      <4>2. certs[jobs[j].cert].active = j /\ jobs[j].cert \in Cert /\ j # 0
        BY <1>1, <3>2, <4>1 DEF Owned, JobType, Number
      <4> QED BY <2>1, <4>1, <4>2 DEF ClaimedBy
    <3> QED BY <1>1, <2>1, <3>1, <3>2 DEF ClaimedBy, Number
  <2>3. ASSUME NEW e \in Cert, certs'[e].active # 0
        PROVE  /\ certs'[e].active \in 1 .. Len(jobs') /\ jobs'[certs'[e].active].status \in {"queued", "running"}
               /\ jobs'[certs'[e].active].cert = e
    <3>1. CASE e = c
      BY <1>1, <2>1, <3>1 DEF ClaimedBy
    <3>2. CASE e # c
      <4>1. certs'[e].active = certs[e].active
        BY <2>1, <3>2 DEF ClaimedBy
      <4>2. certs[e].active \in Number /\ Active(certs[e].active) /\ jobs[certs[e].active].cert = e
        BY <1>1, <2>3, <4>1 DEF Owned
      <4> QED BY <1>1, <2>1, <4>1, <4>2 DEF ClaimedBy, Number, Active
    <3> QED BY <3>1, <3>2
  <2> QED BY <2>2, <2>3 DEF Owned, Number, Active
<1>4. CASE Ends
  <2>1. PICK st \in {"succeeded", "failed", "skipped", "interrupted"} : Restated(worker.job, st)
    BY <1>1, <1>4, EndsEffect
  <2>2. Released /\ worker.pc \in Busy
    BY <1>1, <1>4, EndsEffect DEF Busy
  <2>3. worker.job \in Number /\ jobs[worker.job].cert \in Cert /\ Active(worker.job)
    BY <1>1, <2>2, WorkersJob DEF Running, Active
  <2>4. ASSUME NEW j \in Number
        PROVE  /\ jobs'[j].cert = jobs[j].cert
               /\ j # worker.job => jobs'[j] = jobs[j]
               /\ jobs'[worker.job].status = st
    BY <1>1, <2>1, <2>3 DEF Restated, JobType
  <2>5. ASSUME NEW j \in Number, Active(j)'
        PROVE  certs'[jobs'[j].cert].active = j
    <3>1. j # worker.job /\ Active(j)
      BY <2>4, <2>5 DEF Active
    <3>2. certs[jobs[j].cert].active = j /\ jobs[j].cert \in Cert
      BY <1>1, <3>1 DEF Owned, JobType
    <3>3. jobs[j].cert # jobs[worker.job].cert
      BY <1>1, <2>3, <3>1, <3>2 DEF Owned
    <3> QED BY <2>2, <2>4, <3>2, <3>3 DEF Released
  <2>6. ASSUME NEW e \in Cert, certs'[e].active # 0
        PROVE  /\ certs'[e].active \in Number /\ jobs'[certs'[e].active].status \in {"queued", "running"}
               /\ jobs'[certs'[e].active].cert = e
    <3>1. e # jobs[worker.job].cert /\ certs'[e].active = certs[e].active
      BY <2>2, <2>6 DEF Released
    <3>2. certs[e].active \in Number /\ Active(certs[e].active) /\ jobs[certs[e].active].cert = e
      BY <1>1, <2>6, <3>1 DEF Owned
    <3>3. certs[e].active # worker.job
      BY <3>1, <3>2
    <3> QED BY <2>4, <3>1, <3>2, <3>3 DEF Active
  <2> QED BY <2>1, <2>5, <2>6 DEF Owned, Number, Active, Restated
<1>5. CASE recover
  <2>1. Len(jobs') = Len(jobs)
    BY <1>1, <1>5, RecoverEffect
  <2>2. ASSUME NEW j \in Number
        PROVE  /\ jobs'[j].cert = jobs[j].cert
               /\ jobs[j].status # "running" => jobs'[j] = jobs[j]
               /\ jobs[j].status = "running" => jobs'[j].status = IF Resumable(j) THEN "queued" ELSE "interrupted"
    BY <1>1, <1>5, RecoverEffect DEF JobType, AfterCrash
  <2>3. \A e \in Cert :
          certs'[e].active = IF \/ certs[e].active = 0 \/ jobs[certs[e].active].status # "running"
                                \/ Resumable(certs[e].active)
                             THEN certs[e].active ELSE 0
    BY <1>1, <1>5, RecoverEffect
  <2>4. ASSUME NEW j \in Number, Active(j)'
        PROVE  certs'[jobs'[j].cert].active = j
    <3>1. Active(j) /\ (jobs[j].status = "running" => Resumable(j))
      BY <2>2, <2>4 DEF Active
    <3>2. certs[jobs[j].cert].active = j /\ jobs[j].cert \in Cert
      BY <1>1, <3>1 DEF Owned, JobType
    <3> QED BY <2>2, <2>3, <3>1, <3>2
  <2>5. ASSUME NEW e \in Cert, certs'[e].active # 0
        PROVE  /\ certs'[e].active \in Number /\ jobs'[certs'[e].active].status \in {"queued", "running"}
               /\ jobs'[certs'[e].active].cert = e
    <3>1. certs'[e].active = certs[e].active /\ certs[e].active # 0
          /\ (jobs[certs[e].active].status = "running" => Resumable(certs[e].active))
      BY <2>3, <2>5
    <3>2. certs[e].active \in Number /\ Active(certs[e].active) /\ jobs[certs[e].active].cert = e
      BY <1>1, <3>1 DEF Owned
    <3> QED BY <2>2, <3>1, <3>2 DEF Active
  <2> QED BY <2>1, <2>4, <2>5 DEF Owned, Number, Active
<1>6. CASE TakeJob \/ (Cancelled /\ Resumable(worker.job))
  <2>1. PICK j \in Number, st \in {"running", "queued"} : Restated(j, st) /\ SameActive /\ Active(j)
    <3>1. CASE TakeJob
      BY <1>1, <3>1, TakeEffect DEF Active
    <3>2. CASE Cancelled /\ Resumable(worker.job)
      <4>1. worker.pc \in Busy /\ Restated(worker.job, "queued") /\ SameActive
        BY <1>1, <3>2, RequeueEffect DEF Busy
      <4> QED BY <1>1, <4>1 DEF Running, Active
    <3> QED BY <1>6, <3>1, <3>2
  <2>2. ASSUME NEW i \in Number
        PROVE  jobs'[i].cert = jobs[i].cert /\ (Active(i)' <=> Active(i))
    BY <1>1, <2>1, <2>2 DEF Restated, JobType, Active
  <2>3. Len(jobs') = Len(jobs) /\ SameActive
    BY <2>1 DEF Restated
  <2>4. \A i \in Number : Active(i)' => certs'[jobs'[i].cert].active = i
    BY <1>1, <2>2, <2>3 DEF Owned, SameActive, JobType
  <2>5. ASSUME NEW e \in Cert, certs'[e].active # 0
        PROVE  /\ certs'[e].active \in Number /\ jobs'[certs'[e].active].status \in {"queued", "running"}
               /\ jobs'[certs'[e].active].cert = e
    <3>1. certs'[e].active = certs[e].active /\ certs[e].active \in Number /\ Active(certs[e].active)
          /\ jobs[certs[e].active].cert = e
      BY <1>1, <2>3, <2>5 DEF Owned, SameActive
    <3> QED BY <2>2, <3>1 DEF Active
  <2> QED BY <2>3, <2>4, <2>5 DEF Owned, Number, Active
<1> QED BY <1>2, <1>3, <1>4, <1>5, <1>6, Sorts

\* A job keeps its number, its profile, its kind and its certificate.
Kept == \A j \in Number : /\ j \in Number' /\ jobs'[j].cert = jobs[j].cert
                          /\ jobs'[j].kind = jobs[j].kind /\ jobs'[j].serial = jobs[j].serial

\* No step renames a job.
LEMMA StepKept == JobsInv /\ [Next]_vars => Kept
<1> SUFFICES ASSUME JobsInv, [Next]_vars PROVE Kept
  OBVIOUS
<1>1. TypeOK /\ Running /\ Len(jobs) \in Nat /\ \A j \in Number : jobs[j] \in JobType
  BY Rows DEF JobsInv
<1>2. CASE Quiet
  BY <1>1, <1>2, QuietEffect DEF Kept, Number
<1>3. CASE Queues
  <2>1. PICK c \in Cert, x \in JobType : ClaimedBy(c, x)
    BY <1>1, <1>3, QueuesEffect
  <2> QED BY <1>1, <2>1 DEF ClaimedBy, Kept, Number
<1>4. ASSUME NEW j, NEW st, Restated(j, st)
      PROVE  Kept
  BY <1>1, <1>4 DEF Restated, Kept, Number, JobType
<1>5. CASE Ends
  BY <1>1, <1>4, <1>5, EndsEffect
<1>6. CASE recover
  <2>1. Len(jobs') = Len(jobs)
    BY <1>1, <1>6, RecoverEffect
  <2>2. \A i \in Number : jobs'[i] = IF jobs[i].status = "running"
                                     THEN [jobs[i] EXCEPT !.status = AfterCrash(i)] ELSE jobs[i]
    BY <1>1, <1>6, RecoverEffect
  <2> QED BY <1>1, <2>1, <2>2 DEF Kept, Number, JobType
<1>7. CASE TakeJob
  BY <1>1, <1>4, <1>7, TakeEffect
<1>8. CASE Cancelled /\ Resumable(worker.job)
  BY <1>1, <1>4, <1>8, RequeueEffect
<1> QED BY <1>2, <1>3, <1>5, <1>6, <1>7, <1>8, Sorts

\* Where a quiet step leads the worker and its client.
LEMMA QuietMoves ==
  ASSUME TypeOK, Running, Clients, Quiet
  PROVE  \/ worker' = worker /\ child' = child
         \/ worker.pc \in Idling /\ worker'.pc \in Idling /\ child' = child
         \/ worker.pc \in {"run", "read", "commit"} /\ worker'.pc \in {"commit", "fail"} /\ worker'.job = worker.job
              /\ child' = child
         \/ worker.pc = "run" /\ worker'.pc = "wait" /\ worker'.job = worker.job
              /\ child'.job = worker.job /\ child'.step \in {"order", "begin", "administer"}
         \/ child # NoChild /\ worker' = worker /\ child'.job = child.job /\ child'.step # "none"
         \/ child # NoChild /\ child' = NoChild /\ worker' = worker /\ worker.pc # "wait"
         \/ worker.pc = "wait" /\ worker'.pc \in {"read", "fail", "cancel"} /\ worker'.job = worker.job /\ child' = NoChild
         \/ worker' = Down /\ child' = child
<1>1. worker \in WorkerType /\ child \in ChildType
  BY Rows
<1>2. ASSUME NEW c \in Cert, NEW s \in Serial, activate(c, s) \/ import_certificate(c, s)
      PROVE  worker' = worker /\ child' = child
  BY <1>2 DEF activate, import_certificate
<1>3. ASSUME NEW c \in Cert, TimePasses(c) \/ \E auto \in BOOLEAN : edit(c, auto)
      PROVE  worker' = worker /\ child' = child
  BY <1>3 DEF TimePasses, edit
<1>4. ASSUME (\E t \in Target : deploy(t)) \/ (\E d \in deploys : CommandEnds(d)) \/ UNCHANGED vars
      PROVE  worker' = worker /\ child' = child
  BY <1>4 DEF deploy, CommandEnds, vars
<1>5. ASSUME ListPending \/ ListDue \/ NoJob \/ (\E t \in Target : DeployPending(t))
             \/ (\E c \in Cert : ScheduleDue(c) /\ UNCHANGED <<certs, jobs>>)
      PROVE  worker.pc \in Idling /\ worker'.pc \in Idling /\ child' = child
  BY <1>1, <1>5 DEF ListPending, ListDue, NoJob, DeployPending, ScheduleDue, Goes, Idling, WorkerType
<1>6. ASSUME RunLocal \/ RunRemote \/ RunAdministration
      PROVE  /\ worker.pc = "run" /\ worker'.job = worker.job
             /\ \/ worker'.pc \in {"commit", "fail"} /\ child' = child
                \/ /\ worker'.pc = "wait" /\ child'.job = worker.job
                   /\ child'.step \in {"order", "begin", "administer"}
  <2>1. worker.pc = "run"
    BY <1>6 DEF RunLocal, RunRemote, RunAdministration
  <2>2. \/ (\E data : Ready(data)) /\ child' = child
        \/ Goes("fail") /\ child' = child
        \/ \E step \in {"order", "begin", "administer"} : Starts(step)
    BY <1>6, Zenon DEF RunLocal, RunRemote, RunAdministration
  <2>3. CASE (\E data : Ready(data)) /\ child' = child
    BY <1>1, <2>1, <2>3 DEF Ready, WorkerType
  <2>4. CASE Goes("fail") /\ child' = child
    BY <1>1, <2>1, <2>4 DEF Goes, WorkerType
  <2>5. CASE \E step \in {"order", "begin", "administer"} : Starts(step)
    BY <1>1, <2>1, <2>5 DEF Goes, Starts, WorkerType
  <2> QED BY <2>2, <2>3, <2>4, <2>5
<1>7. ASSUME ReadResult \/ (Publish /\ ~Usable(worker.data))
      PROVE  /\ worker.pc \in {"run", "read", "commit"} /\ worker'.pc \in {"commit", "fail"}
             /\ worker'.job = worker.job /\ child' = child
  <2>1. worker.pc \in {"read", "commit"} /\ child' = child
    BY <1>7 DEF ReadResult, Publish
  <2>2. (\E data : Ready(data)) \/ Goes("fail")
    BY <1>7 DEF ReadResult, Publish
  <2> QED BY <1>1, <2>1, <2>2 DEF Ready, Goes, WorkerType
<1>8. ASSUME ChildStep
      PROVE  \/ child # NoChild /\ worker' = worker /\ child'.job = child.job /\ child'.step # "none"
             \/ child # NoChild /\ child' = NoChild /\ worker' = worker /\ worker.pc # "wait"
             \/ worker.pc = "wait" /\ worker'.pc \in {"read", "fail"} /\ worker'.job = worker.job /\ child' = NoChild
  <2>1. child # NoChild
    BY <1>1, <1>8
       DEF ChildStep, LegoOrders, LegoSaves, LegoDeclines, RemoteBegins, RemotePosts, RemoteKeeps,
           RemoteFinalizes, CaRevokes, WriteReceipt, ClientFails, ChildKilled, NoChild, At
  <2>2. \/ \E step \in {"save", "finalize", "post", "keep", "write"} : ChildGoes(step) /\ worker' = worker
        \/ \E outcome \in {"read", "fail"} : Exits(outcome)
    BY <1>8
       DEF ChildStep, LegoOrders, LegoSaves, LegoDeclines, RemoteBegins, RemotePosts, RemoteKeeps,
           RemoteFinalizes, CaRevokes, WriteReceipt, ClientFails, ChildKilled
  <2>3. CASE \E step \in {"save", "finalize", "post", "keep", "write"} : ChildGoes(step) /\ worker' = worker
    BY <1>1, <2>1, <2>3 DEF ChildGoes, ChildType
  <2>4. CASE \E outcome \in {"read", "fail"} : Exits(outcome)
    BY <1>1, <2>1, <2>4 DEF Exits, WorkerType
  <2> QED BY <2>2, <2>3, <2>4
<1>9. ASSUME Cancel
      PROVE  worker.pc = "wait" /\ worker'.pc = "cancel" /\ worker'.job = worker.job /\ child' = NoChild
  BY <1>1, <1>9 DEF Cancel, Goes, WorkerType
<1>10. ASSUME Crash
       PROVE  worker' = Down /\ child' = child
  BY <1>10 DEF Crash
<1>11. CASE \/ \E c \in Cert, s \in Serial : activate(c, s) \/ import_certificate(c, s)
            \/ \E c \in Cert, auto \in BOOLEAN : edit(c, auto)
            \/ \E c \in Cert : TimePasses(c)
            \/ \E t \in Target : deploy(t)
            \/ \E d \in deploys : CommandEnds(d)
            \/ UNCHANGED vars
  BY <1>2, <1>3, <1>4, <1>11, Zenon
<1>12. CASE ListPending \/ ListDue \/ NoJob \/ (\E t \in Target : DeployPending(t))
            \/ (\E c \in Cert : ScheduleDue(c) /\ UNCHANGED <<certs, jobs>>)
  BY <1>5, <1>12
<1>13. CASE RunLocal \/ RunRemote \/ RunAdministration
  BY <1>6, <1>13
<1>14. CASE ReadResult \/ (Publish /\ ~Usable(worker.data))
  BY <1>7, <1>14
<1>15. CASE ChildStep
  BY <1>8, <1>15
<1>16. CASE Cancel \/ Crash
  BY <1>9, <1>10, <1>16
<1> QED BY <1>11, <1>12, <1>13, <1>14, <1>15, <1>16, Zenon DEF Quiet

\* The worker runs one job and a client belongs to a job that runs.
LEMMA StepRunning == JobsInv /\ [Next]_vars => Running'
<1> SUFFICES ASSUME JobsInv, [Next]_vars PROVE Running'
  OBVIOUS
<1>1. /\ TypeOK /\ Running /\ Clients /\ Len(jobs) \in Nat /\ \A j \in Number : jobs[j] \in JobType
      /\ worker \in WorkerType /\ child \in ChildType
  BY Rows DEF JobsInv
<1>2. /\ Busy \cap Idling = {} /\ "down" \notin Busy \cup Idling /\ "wait" \in Busy
      /\ {"run", "read", "commit", "fail", "cancel"} \subseteq Busy /\ "list" \in Idling
  BY DEF Busy, Idling
<1>3. CASE Quiet
  <2>1. jobs' = jobs
    BY <1>1, <1>3, QuietEffect
  <2>2. \/ worker' = worker /\ child' = child
        \/ worker.pc \in Idling /\ worker'.pc \in Idling /\ child' = child
        \/ worker.pc \in {"run", "read", "commit"} /\ worker'.pc \in {"commit", "fail"} /\ worker'.job = worker.job
             /\ child' = child
        \/ worker.pc = "run" /\ worker'.pc = "wait" /\ worker'.job = worker.job
             /\ child'.job = worker.job /\ child'.step \in {"order", "begin", "administer"}
        \/ child # NoChild /\ worker' = worker /\ child'.job = child.job /\ child'.step # "none"
        \/ child # NoChild /\ child' = NoChild /\ worker' = worker /\ worker.pc # "wait"
        \/ worker.pc = "wait" /\ worker'.pc \in {"read", "fail", "cancel"} /\ worker'.job = worker.job /\ child' = NoChild
        \/ worker' = Down /\ child' = child
    BY <1>1, <1>3, QuietMoves
  <2>3. child'.step # "none" => child' # NoChild
    BY DEF NoChild
  <2>4. CASE worker' = worker /\ child' = child
    BY <1>1, <2>1, <2>4 DEF Running, Number
  <2>5. CASE worker.pc \in Idling /\ worker'.pc \in Idling /\ child' = child
    BY <1>1, <1>2, <2>1, <2>5 DEF Running, Number, Idling
  <2>6. CASE worker.pc \in {"run", "read", "commit"} /\ worker'.pc \in {"commit", "fail"} /\ worker'.job = worker.job
             /\ child' = child
    BY <1>1, <1>2, <2>1, <2>6 DEF Running, Number
  <2>7. CASE worker.pc = "run" /\ worker'.pc = "wait" /\ worker'.job = worker.job
             /\ child'.job = worker.job /\ child'.step \in {"order", "begin", "administer"}
    BY <1>1, <1>2, <2>1, <2>7 DEF Running, Number
  <2>8. CASE child # NoChild /\ worker' = worker /\ child'.job = child.job /\ child'.step # "none"
    BY <1>1, <1>2, <2>1, <2>8 DEF Running, Number
  <2>9. CASE child # NoChild /\ child' = NoChild /\ worker' = worker /\ worker.pc # "wait"
    BY <1>1, <1>2, <2>1, <2>9 DEF Running, Number
  <2>10. CASE worker.pc = "wait" /\ worker'.pc \in {"read", "fail", "cancel"} /\ worker'.job = worker.job /\ child' = NoChild
    BY <1>1, <1>2, <2>1, <2>10 DEF Running, Number
  <2>11. CASE worker' = Down /\ child' = child
    <3>1. worker'.pc = "down" /\ "down" \notin Busy
      BY <1>2, <2>11 DEF Down
    <3> QED BY <1>1, <2>1, <2>11, <3>1 DEF Running, Number
  <2> QED BY <2>2, <2>4, <2>5, <2>6, <2>7, <2>8, <2>9, <2>10, <2>11
<1>4. CASE Queues
  <2>1. PICK c \in Cert, x \in JobType : ClaimedBy(c, x)
    BY <1>1, <1>4, QueuesEffect
  <2>2. child' = child /\ worker'.pc = worker.pc /\ worker'.job = worker.job
    BY <1>1, <1>4, QueuesEffect
  <2>3. \A j \in Number : j \in Number' /\ jobs'[j] = jobs[j]
    BY <1>1, <2>1 DEF ClaimedBy, Number
  <2>4. \A j \in Number' : jobs'[j].status = "running" => j \in Number /\ jobs[j].status = "running"
    <3>1. ASSUME NEW j \in Number', j \notin Number
          PROVE  jobs'[j].status = "queued"
      BY <1>1, <2>1, <3>1 DEF ClaimedBy, Number
    <3> QED BY <2>3, <3>1
  <2> QED BY <1>1, <2>2, <2>3, <2>4 DEF Running
<1>5. CASE Ends
  <2>1. PICK st \in {"succeeded", "failed", "skipped", "interrupted"} : Restated(worker.job, st)
    BY <1>1, <1>5, EndsEffect
  <2>2. worker.pc \in {"commit", "fail", "cancel"} /\ worker'.pc \in {"list", "down"} /\ child' = child
    BY <1>1, <1>5, EndsEffect
  <2>3. child = NoChild /\ worker'.pc \notin Busy
    BY <1>1, <1>2, <2>2 DEF Running
  <2>4. \A j \in Number : jobs'[j].status # "running"
    <3>1. \A j \in Number : j # worker.job => jobs[j].status # "running"
      BY <1>1, <2>2 DEF Running
    <3> QED BY <1>1, <2>1, <3>1 DEF Restated, JobType
  <2> QED BY <2>1, <2>2, <2>3, <2>4 DEF Running, Number, Restated
<1>6. CASE recover
  <2>1. Len(jobs') = Len(jobs)
    BY <1>1, <1>6, RecoverEffect
  <2>2. \A j \in Number : jobs'[j].status # "running"
    BY <1>1, <1>6, RecoverEffect DEF JobType, AfterCrash
  <2>3. child' = NoChild /\ worker'.pc \notin Busy
    BY <1>1, <1>2, <1>6 DEF recover, LockFree, Goes, WorkerType
  <2> QED BY <2>1, <2>2, <2>3 DEF Running, Number
<1>7. CASE TakeJob
  <2>1. /\ worker'.job \in Number /\ worker' = [worker EXCEPT !.pc = "run", !.job = worker'.job]
        /\ Restated(worker'.job, "running")
    BY <1>1, <1>7, TakeEffect
  <2>2. worker.pc = "schedule" /\ child' = child
    BY <1>7 DEF TakeJob
  <2>3. worker'.pc = "run"
    <3>1. PICK j : worker' = [worker EXCEPT !.pc = "run", !.job = j]
      BY <2>1
    <3> QED BY <1>1, <3>1 DEF WorkerType
  <2>4. child = NoChild /\ \A j \in Number : jobs[j].status # "running"
    <3>1. worker.pc \notin Busy \cup {"down"}
      BY <2>2 DEF Busy
    <3> QED BY <1>1, <1>2, <3>1 DEF Running
  <2>5. \A j \in Number : jobs'[j].status = "running" <=> j = worker'.job
    BY <1>1, <2>1, <2>4 DEF Restated, JobType
  <2>6. Len(jobs') = Len(jobs)
    BY <2>1 DEF Restated
  <2> QED BY <1>2, <2>1, <2>2, <2>3, <2>4, <2>5, <2>6 DEF Running, Number
<1>8. CASE Cancelled /\ Resumable(worker.job)
  <2>1. worker.pc = "cancel" /\ worker'.pc = "down" /\ child' = child /\ Restated(worker.job, "queued")
    BY <1>1, <1>8, RequeueEffect
  <2>2. child = NoChild
    BY <1>1, <2>1 DEF Running
  <2> QED BY <1>1, <1>2, <2>1, <2>2 DEF Running, Number, Restated
<1> QED BY <1>3, <1>4, <1>5, <1>6, <1>7, <1>8, Sorts

\* What the worker's and the administrator's steps leave to the client.
LEMMA Outside ==
  ASSUME Administrator \/ WorkerStep \/ Cancel \/ Crash \/ UNCHANGED vars
  PROVE  /\ disk' = disk /\ ca' = ca
         /\ \/ child' = child \/ child' = NoChild
            \/ RunLocal /\ Starts("order")
            \/ RunRemote /\ Starts("begin")
            \/ RunAdministration /\ Starts("administer")
<1>1. CASE Administrator
  BY <1>1
     DEF Administrator, Queue, QueueAccount, queue_revocation, edit, activate, import_certificate, TimePasses,
         deploy, CommandEnds
<1>2. CASE WorkerStep
  <2>1. disk' = disk /\ ca' = ca
    BY <1>2, Zenon
       DEF WorkerStep, recover, ListPending, ListDue, TakeJob, NoJob, DeployPending, ScheduleDue, RunLocal,
           RunRemote, RunAdministration, ReadResult, CommitAdministration, Publish, SkipRenewal, Fail, Cancelled
  <2>2. RunLocal => child' = child \/ Starts("order")
    BY Zenon DEF RunLocal
  <2>3. RunRemote => child' = child \/ Starts("begin")
    BY Zenon DEF RunRemote
  <2>4. RunAdministration => child' = child \/ Starts("administer")
    BY Zenon DEF RunAdministration
  <2>5. RunLocal \/ RunRemote \/ RunAdministration \/ child' = child
    BY <1>2, Zenon
       DEF WorkerStep, recover, ListPending, ListDue, TakeJob, NoJob, DeployPending, ScheduleDue,
           ReadResult, CommitAdministration, Publish, SkipRenewal, Fail, Cancelled
  <2> QED BY <2>1, <2>2, <2>3, <2>4, <2>5
<1>3. CASE Cancel \/ Crash \/ UNCHANGED vars
  BY <1>3 DEF Cancel, Crash, vars
<1> QED BY <1>1, <1>2, <1>3

\* A client starts for a job of its kind and does not change its job.
LEMMA StepClients == JobsInv /\ [Next]_vars => Clients'
<1> SUFFICES ASSUME JobsInv, [Next]_vars PROVE Clients'
  OBVIOUS
<1>1. /\ TypeOK /\ Running /\ Clients /\ Kept
      /\ worker \in WorkerType /\ child \in ChildType /\ disk \in DiskType /\ ca \in CaType
  BY Rows, StepKept DEF JobsInv
<1>2. child.step # "none" => child.job \in Number
  <2>1. child.step # "none" => child # NoChild
    BY DEF NoChild
  <2> QED BY <1>1, <2>1 DEF Running
<1>3. NoChild.step = "none" /\ "none" \notin Posting /\ "write" \notin Posting
  BY DEF NoChild, Posting
<1>4. ASSUME child' = NoChild
      PROVE  Clients'
  BY <1>3, <1>4 DEF Clients
<1>5. ASSUME Administrator \/ WorkerStep \/ Cancel \/ Crash \/ UNCHANGED vars
      PROVE  Clients'
  <2>1. ca' = ca
    BY <1>5, Outside
  <2>2. CASE child' = child
    <3>1. child.step = "none" => child = NoChild
      BY <1>1 DEF Clients
    <3>2. CASE child.step = "none"
      BY <1>4, <2>2, <3>1, <3>2
    <3>3. CASE child.step # "none"
      <4>1. jobs'[child.job].kind = jobs[child.job].kind /\ jobs'[child.job].serial = jobs[child.job].serial
        BY <1>1, <1>2, <3>3 DEF Kept
      <4> QED BY <1>1, <2>1, <2>2, <3>3, <4>1 DEF Clients
    <3> QED BY <3>2, <3>3
  <2>3. CASE (RunLocal /\ Starts("order")) \/ (RunAdministration /\ Starts("administer"))
    <3>1. child'.step \in {"order", "administer"}
      BY <2>3 DEF Starts
    <3>2. child'.step \notin Posting \cup {"none", "write"}
      BY <3>1 DEF Posting
    <3> QED BY <3>2 DEF Clients
  <2>4. CASE RunRemote /\ Starts("begin")
    <3>1. child'.step = "begin" /\ child'.job = worker.job
      BY <2>4 DEF Starts
    <3>2. worker.pc \in Busy /\ jobs[worker.job].kind \notin Administration
      BY <2>4 DEF RunRemote, Busy
    <3>3. jobs'[worker.job].kind = jobs[worker.job].kind
      BY <1>1, <3>2 DEF Kept, Running
    <3>4. child'.step \notin {"none", "write"}
      BY <3>1
    <3> QED BY <3>1, <3>2, <3>3, <3>4 DEF Clients
  <2> QED BY <1>4, <1>5, <2>2, <2>3, <2>4, Outside
<1>6. ASSUME ChildStep
      PROVE  Clients'
  <2>1. jobs' = jobs
    BY <1>6
       DEF ChildStep, LegoOrders, LegoSaves, LegoDeclines, RemoteBegins, RemotePosts, RemoteKeeps,
           RemoteFinalizes, CaRevokes, WriteReceipt, ClientFails, ChildKilled, catalog
  <2>2. \A step : ChildGoes(step) => child'.job = child.job /\ child'.step = step
    BY <1>1 DEF ChildGoes, ChildType
  <2>3. CASE LegoOrders
    <3>1. child'.step = "save"
      BY <2>2, <2>3 DEF LegoOrders
    <3> QED BY <3>1 DEF Clients, Posting
  <2>4. CASE LegoSaves \/ LegoDeclines \/ WriteReceipt \/ ClientFails \/ ChildKilled
    BY <1>4, <2>4 DEF LegoSaves, LegoDeclines, WriteReceipt, ClientFails, ChildKilled, Exits
  <2>5. CASE RemoteBegins \/ RemotePosts \/ RemoteKeeps
    <3>1. child.step \in Posting
      BY <2>5 DEF RemoteBegins, RemotePosts, RemoteKeeps, At, Posting
    <3>2. child' = NoChild \/ (child'.job = child.job /\ child'.step \in {"post", "keep", "finalize"})
      BY <2>2, <2>5 DEF RemoteBegins, RemotePosts, RemoteKeeps, Exits
    <3> QED BY <1>1, <1>4, <2>1, <3>1, <3>2 DEF Clients
  <2>6. CASE RemoteFinalizes
    <3>1. child.step \in Posting /\ child'.step = "write" /\ child'.job = child.job
      BY <2>2, <2>6 DEF RemoteFinalizes, At, Posting
    <3>2. jobs[child.job].kind # "revoke"
      BY <1>1, <3>1 DEF Clients, Administration
    <3> QED BY <1>3, <2>1, <3>1, <3>2 DEF Clients
  <2>7. CASE CaRevokes
    <3>1. child'.step = "write" /\ child'.job = child.job
      BY <2>2, <2>7 DEF CaRevokes
    <3>2. jobs[child.job].kind = "revoke" => jobs[child.job].serial \in ca'.revoked
      BY <1>1, <2>7 DEF CaRevokes, CaType
    <3> QED BY <1>3, <2>1, <3>1, <3>2 DEF Clients
  <2> QED BY <1>6, <2>3, <2>4, <2>5, <2>6, <2>7 DEF ChildStep
<1> QED BY <1>5, <1>6 DEF Next

(***************************************************************************)
(* Revocations.                                                            *)
(***************************************************************************)
\* The worker's revocation is settled in the ledger, and no other.
Settled ==
    LET s == jobs[worker.job].serial
    IN  /\ jobs[worker.job].kind = "revoke"
        /\ \A r \in Serial \ {s} : ledger'[r] = ledger[r]
        /\ ledger'[s].status = "unknown" \/ (ledger'[s].status = "revoked" /\ worker.pc = "commit")

\* What the end of a job writes to the ledger.
LEMMA EndsLedger ==
  ASSUME TypeOK, Running, Revoking, Ends
  PROVE  Settled \/ (ledger' = ledger /\ jobs[worker.job].kind # "revoke")
<1>1. ledger \in LedgerType /\ worker.pc \in Busy
  BY Rows, EndsEffect DEF Busy
<1>2. jobs[worker.job].kind = "revoke" => jobs[worker.job].serial \in Serial
  BY <1>1 DEF Running, Revoking
<1>3. CASE CommitAdministration
  <2>1. worker.pc = "commit"
        /\ ledger' = IF jobs[worker.job].kind = "revoke"
                     THEN [ledger EXCEPT ![jobs[worker.job].serial].status = "revoked"] ELSE ledger
    BY <1>3 DEF CommitAdministration
  <2> QED BY <1>1, <1>2, <2>1 DEF Settled, LedgerType
<1>4. CASE (Publish /\ Usable(worker.data)) \/ SkipRenewal
  BY <1>4 DEF Publish, SkipRenewal, Administration
<1>5. CASE Fail \/ (Cancelled /\ ~Resumable(worker.job))
  <2>1. \E st : Gives_up(st)
    BY <1>5 DEF Fail, Cancelled
  <2>2. ledger' = IF jobs[worker.job].kind = "revoke"
                  THEN [ledger EXCEPT ![jobs[worker.job].serial] = UnconfirmedRevocation] ELSE ledger
    BY <2>1 DEF Gives_up
  <2> QED BY <1>1, <1>2, <2>2 DEF Settled, LedgerType, UnconfirmedRevocation
<1> QED BY <1>3, <1>4, <1>5 DEF Ends

\* Steps that neither queue nor end a job leave the ledger alone.
LEMMA QuietLedger ==
  ASSUME Quiet \/ recover \/ TakeJob \/ (Cancelled /\ Resumable(worker.job))
  PROVE  ledger' = ledger
<1>1. CASE ChildStep
  BY <1>1, Zenon
     DEF ChildStep, LegoOrders, LegoSaves, LegoDeclines, RemoteBegins, RemotePosts, RemoteKeeps,
         RemoteFinalizes, CaRevokes, WriteReceipt, ClientFails, ChildKilled, catalog
<1>2. CASE recover \/ TakeJob \/ (Cancelled /\ Resumable(worker.job))
  BY <1>2 DEF recover, TakeJob, Cancelled
<1>3. CASE Quiet /\ ~ChildStep
  BY <1>3, Zenon
     DEF Quiet, activate, import_certificate, edit, TimePasses, deploy, DeployPending, CommandEnds, ListPending,
         ListDue, NoJob, RunLocal, RunRemote, RunAdministration, ReadResult, Publish, ScheduleDue, Cancel, Crash,
         catalog, vars
<1> QED BY <1>1, <1>2, <1>3

\* What a step of a client writes for its job.
LEMMA Receipts ==
  ASSUME JobsInv, [Next]_vars
  PROVE  /\ \A j \in Job : \/ disk'.result[j] = disk.result[j]
                           \/ j = child.job /\ j \in Number /\ (disk'.result[j] = "succeeded" => child.step = "write")
         /\ ca.revoked \subseteq ca'.revoked
         /\ \A s \in ca'.revoked : \/ s \in ca.revoked
                                   \/ /\ child.job \in Number /\ jobs[child.job].kind = "revoke"
                                      /\ s = jobs[child.job].serial
<1>1. disk \in DiskType /\ ca \in CaType
  BY Rows DEF JobsInv
<1>2. child.step # "none" => child.job \in Number
  <2>1. child.step # "none" => child # NoChild
    BY DEF NoChild
  <2> QED BY <2>1 DEF JobsInv, Running
<1>3. CASE Administrator \/ WorkerStep \/ Cancel \/ Crash \/ UNCHANGED vars
  BY <1>3, Outside
<1>4. CASE LegoOrders \/ LegoDeclines \/ RemotePosts \/ RemoteFinalizes \/ ChildKilled
  <2>1. disk' = disk
    BY <1>4 DEF LegoOrders, LegoDeclines, RemotePosts, RemoteFinalizes, ChildKilled
  <2>2. ca'.revoked = ca.revoked
    BY <1>1, <1>4 DEF LegoOrders, LegoDeclines, RemotePosts, RemoteFinalizes, ChildKilled, CaType
  <2> QED BY <2>1, <2>2
<1>5. CASE LegoSaves \/ RemoteKeeps
  <2>1. disk'.result = disk.result /\ ca' = ca
    BY <1>1, <1>5 DEF LegoSaves, RemoteKeeps, DiskType
  <2> QED BY <2>1
<1>6. CASE RemoteBegins \/ ClientFails
  <2>1. ca' = ca /\ child.step # "none"
    BY <1>6 DEF RemoteBegins, ClientFails, At
  <2>2. disk'.result = disk.result \/ disk'.result = [disk.result EXCEPT ![child.job] = "failed"]
    BY <1>1, <1>6 DEF RemoteBegins, ClientFails, DiskType
  <2> QED BY <1>1, <1>2, <2>1, <2>2 DEF DiskType
<1>7. CASE CaRevokes
  <2>1. disk' = disk /\ child.step # "none"
    BY <1>7 DEF CaRevokes, At
  <2>2. ca'.revoked = IF jobs[child.job].kind = "revoke" THEN ca.revoked \cup {jobs[child.job].serial} ELSE ca.revoked
    BY <1>1, <1>7 DEF CaRevokes, CaType
  <2> QED BY <1>2, <2>1, <2>2
<1>8. CASE WriteReceipt
  <2>1. ca' = ca /\ child.step = "write" /\ disk'.result = [disk.result EXCEPT ![child.job] = "succeeded"]
    BY <1>1, <1>8 DEF WriteReceipt, At, DiskType
  <2> QED BY <1>1, <1>2, <2>1 DEF DiskType
<1> QED BY <1>3, <1>4, <1>5, <1>6, <1>7, <1>8, Zenon DEF Next, ChildStep

\* A result that is committed was read before.
LEMMA CommitReached ==
  ASSUME JobsInv, [Next]_vars, worker'.pc = "commit"
  PROVE  /\ worker.pc \in Busy /\ worker'.job = worker.job
         /\ \/ worker.pc = "commit"
            \/ jobs[worker.job].kind # "revoke" \/ disk.result[worker.job] = "succeeded"
<1>1. worker \in WorkerType /\ TypeOK /\ Running /\ Clients
  BY Rows DEF JobsInv
<1>2. CASE RunLocal \/ RunRemote
  <2>1. worker.pc = "run" /\ jobs[worker.job].kind # "revoke"
    BY <1>2 DEF RunLocal, RunRemote, Local, Administration
  <2>2. worker'.job = worker.job
    <3>1. (\E data : Ready(data)) \/ Goes("fail") \/ Goes("wait")
      BY <1>2 DEF RunLocal, RunRemote, Starts
    <3> QED BY <1>1, <3>1 DEF Ready, Goes, WorkerType
  <2> QED BY <2>1, <2>2 DEF Busy
<1>3. CASE RunAdministration
  <2>1. worker.pc = "run" /\ ((disk.result[worker.job] = "succeeded" /\ Ready(0)) \/ Goes("fail") \/ Goes("wait"))
    BY <1>3 DEF RunAdministration, Starts
  <2> QED BY <1>1, <2>1 DEF Ready, Goes, WorkerType, Busy
<1>4. CASE ReadResult
  <2>1. worker.pc = "read"
    BY <1>4 DEF ReadResult
  <2>2. \/ Local(worker.job) /\ \E data : Ready(data)
        \/ disk.result[worker.job] = "succeeded" /\ \E data : Ready(data)
        \/ Goes("fail")
    BY <1>4 DEF ReadResult
  <2>3. Local(worker.job) => jobs[worker.job].kind # "revoke"
    BY DEF Local, Administration
  <2> QED BY <1>1, <2>1, <2>2, <2>3 DEF Ready, Goes, WorkerType, Busy
<1>5. CASE (Publish /\ ~Usable(worker.data)) \/ Cancel \/ Crash \/ ListPending \/ ListDue \/ NoJob \/ recover
  <2>1. CASE ListPending \/ ListDue
    BY <1>1, <2>1 DEF ListPending, ListDue, WorkerType
  <2>2. CASE Crash
    BY <2>2 DEF Crash, Down
  <2>3. CASE (Publish /\ ~Usable(worker.data)) \/ Cancel \/ NoJob \/ recover
    <3>1. Goes("fail") \/ Goes("cancel") \/ Goes("list")
      BY <2>3 DEF Publish, Cancel, NoJob, recover
    <3> QED BY <1>1, <3>1 DEF Goes, WorkerType
  <2> QED BY <1>5, <2>1, <2>2, <2>3
<1>6. CASE (\E t \in Target : DeployPending(t)) \/ (\E c \in Cert : ScheduleDue(c))
  BY <1>1, <1>6 DEF DeployPending, ScheduleDue, WorkerType
<1>7. CASE Ends \/ TakeJob \/ (Cancelled /\ Resumable(worker.job))
  <2>1. worker'.pc \in {"list", "down", "run"}
    <3>1. CASE Ends
      BY <1>1, <3>1, EndsEffect
    <3>2. CASE TakeJob
      BY <1>1, <3>2 DEF TakeJob, WorkerType
    <3>3. CASE Cancelled /\ Resumable(worker.job)
      BY <1>1, <3>3, RequeueEffect
    <3> QED BY <1>7, <3>1, <3>2, <3>3
  <2> QED BY <2>1
<1>8. CASE ChildStep
  <2>1. worker' = worker \/ \E outcome \in {"read", "fail"} : worker' = [worker EXCEPT !.pc = outcome]
    BY <1>8
       DEF ChildStep, LegoOrders, LegoSaves, LegoDeclines, RemoteBegins, RemotePosts, RemoteKeeps,
           RemoteFinalizes, CaRevokes, WriteReceipt, ClientFails, ChildKilled, Exits
  <2> QED BY <1>1, <2>1 DEF WorkerType, Busy
<1>9. CASE Administrator \/ UNCHANGED vars
  <2>1. worker' = worker
    BY <1>9
       DEF Administrator, Queue, QueueAccount, queue_revocation, edit, activate, import_certificate, TimePasses,
           deploy, CommandEnds, vars
  <2> QED BY <2>1 DEF Busy
<1>10. CASE WorkerStep
  BY <1>2, <1>3, <1>4, <1>5, <1>6, <1>7, <1>10, Zenon DEF WorkerStep, Ends
<1> QED BY <1>5, <1>8, <1>9, <1>10, Zenon DEF Next

\* How a step moves the jobs that revoke and the ledger: a certificate enters the ledger with the job that
\* is queued for it, and a revocation that is unfinished goes on being so until it is settled.
LEMMA LedgerMoves ==
  ASSUME JobsInv, [Next]_vars
  PROVE  \/ \E c \in Cert, s \in Serial :
               /\ queue_revocation(c, s) /\ ClaimedBy(c, NewJob(c, "revoke", FALSE, s))
               /\ ledger' = [ledger EXCEPT ![s] = [status |-> "pending", job |-> Len(jobs) + 1]]
         \/ /\ ledger' = ledger
            /\ \A j \in Number : Active(j) /\ jobs[j].kind = "revoke" => jobs'[j].status \in {"queued", "running"}
            /\ \A j \in Number' \ Number : jobs'[j].kind # "revoke"
         \/ /\ Ends /\ Settled /\ Number' = Number
            /\ \A j \in Number \ {worker.job} : jobs'[j] = jobs[j]
<1>1. /\ TypeOK /\ Running /\ Revoking /\ ledger \in LedgerType /\ Len(jobs) \in Nat
      /\ \A j \in Number : jobs[j] \in JobType
  BY Rows DEF JobsInv
<1>2. CASE Quiet
  <2>1. jobs' = jobs /\ ledger' = ledger
    BY <1>1, <1>2, QuietEffect, QuietLedger
  <2> QED BY <2>1 DEF Active, Number
<1>3. CASE \E c \in Cert, s \in Serial : queue_revocation(c, s)
  <2>1. PICK c \in Cert, s \in Serial : queue_revocation(c, s)
    BY <1>3
  <2>2. ClaimedBy(c, NewJob(c, "revoke", FALSE, s))
    BY <1>1, <2>1, RevocationEffect
  <2>3. ledger' = [ledger EXCEPT ![s] = [status |-> "pending", job |-> Len(jobs) + 1]]
    BY <2>1 DEF queue_revocation
  <2> QED BY <2>1, <2>2, <2>3
<1>4. CASE Queues /\ ~ \E c \in Cert, s \in Serial : queue_revocation(c, s)
  <2>1. ASSUME NEW c \in Cert, NEW force \in BOOLEAN, NEW kind \in {"issue", "renew"}, queue(c, kind, force)
        PROVE  \E x \in JobType : ClaimedBy(c, x) /\ x.kind # "revoke"
    <3>1. PICK f \in BOOLEAN : Claims(c, kind, f)
      <4>1. (force \/ (certs[c].version # 0 /\ ~Usable(certs[c].version))) \in BOOLEAN
        OBVIOUS
      <4> QED BY <2>1, <4>1 DEF queue
    <3>2. ClaimedBy(c, NewJob(c, kind, f, 0))
      BY <1>1, <3>1, ClaimsEffect DEF Kind
    <3>3. NewJob(c, kind, f, 0).kind # "revoke" /\ NewJob(c, kind, f, 0) \in JobType
      BY <3>2 DEF ClaimedBy, NewJob
    <3> QED BY <3>2, <3>3
  <2>2. ASSUME NEW c \in Cert, QueueAccount(c)
        PROVE  \E x \in JobType : ClaimedBy(c, x) /\ x.kind # "revoke"
    <3>1. ClaimedBy(c, NewJob(c, "account", FALSE, 0))
      BY <1>1, <2>2, ClaimsEffect DEF Kind, QueueAccount
    <3>2. NewJob(c, "account", FALSE, 0).kind # "revoke" /\ NewJob(c, "account", FALSE, 0) \in JobType
      BY <3>1 DEF ClaimedBy, NewJob
    <3> QED BY <3>1, <3>2
  <2>3. /\ \E c \in Cert, force \in BOOLEAN, kind \in {"issue", "renew"} :
             QueueAccount(c) \/ queue(c, kind, force)
        /\ ledger' = ledger
    BY <1>4 DEF Queues, Queue, QueueAccount, ScheduleDue
  <2>4. PICK c \in Cert, x \in JobType : ClaimedBy(c, x) /\ x.kind # "revoke"
    BY <2>1, <2>2, <2>3
  <2>5. \A j \in Number : jobs'[j] = jobs[j]
    BY <2>4 DEF ClaimedBy
  <2>6. \A j \in Number' \ Number : jobs'[j] = x
    BY <1>1, <2>4 DEF ClaimedBy, Number
  <2> QED BY <2>3, <2>4, <2>5, <2>6 DEF Active
<1>5. CASE Ends
  <2>1. PICK st \in {"succeeded", "failed", "skipped", "interrupted"} : Restated(worker.job, st)
    BY <1>1, <1>5, EndsEffect
  <2>2. Number' = Number /\ \A j \in Number \ {worker.job} : jobs'[j] = jobs[j]
    BY <2>1 DEF Restated, Number
  <2>3. Settled \/ (ledger' = ledger /\ jobs[worker.job].kind # "revoke")
    BY <1>1, <1>5, EndsLedger
  <2> QED BY <1>5, <2>2, <2>3 DEF Active
<1>6. CASE recover
  <2>1. ledger' = ledger /\ Number' = Number
    BY <1>1, <1>6, QuietLedger, RecoverEffect DEF Number
  <2>2. \A i \in Number : jobs'[i] = IF jobs[i].status = "running"
                                     THEN [jobs[i] EXCEPT !.status = AfterCrash(i)] ELSE jobs[i]
    BY <1>1, <1>6, RecoverEffect
  <2>3. \A i \in Number : jobs[i].kind = "revoke" => AfterCrash(i) = "queued"
    BY DEF AfterCrash, Resumable, Administration
  <2> QED BY <1>1, <2>1, <2>2, <2>3 DEF Active, JobType
<1>7. CASE TakeJob \/ (Cancelled /\ Resumable(worker.job))
  <2>1. PICK j \in Number, st \in {"running", "queued"} : Restated(j, st)
    <3>1. CASE TakeJob
      BY <1>1, <3>1, TakeEffect
    <3>2. CASE Cancelled /\ Resumable(worker.job)
      <4>1. worker.pc \in Busy /\ Restated(worker.job, "queued")
        BY <1>1, <3>2, RequeueEffect DEF Busy
      <4> QED BY <1>1, <4>1 DEF Running
    <3> QED BY <1>7, <3>1, <3>2
  <2>2. ledger' = ledger /\ Number' = Number
    BY <1>7, <2>1, QuietLedger DEF Number, Restated
  <2> QED BY <1>1, <2>1, <2>2 DEF Active, Restated, JobType
<1> QED BY <1>2, <1>3, <1>4, <1>5, <1>6, <1>7, Sorts

\* A certificate that is not usable never becomes usable again.
LEMMA NeverUsableAgain == JobsInv /\ [Next]_vars => \A s \in Serial : ~Usable(s) => ~Usable(s)'
<1> SUFFICES ASSUME JobsInv, [Next]_vars, NEW s \in Serial, ~Usable(s) PROVE ~Usable(s)'
  OBVIOUS
<1>1. ledger \in LedgerType
  BY Rows DEF JobsInv
<1>2. CASE \E r \in Serial : \E j : ledger' = [ledger EXCEPT ![r] = [status |-> "pending", job |-> j]]
  BY <1>1, <1>2 DEF Usable, LedgerType
<1>3. CASE ledger' = ledger
  BY <1>3 DEF Usable
<1>4. CASE Settled
  BY <1>4 DEF Usable, Settled
<1> QED BY <1>2, <1>3, <1>4, LedgerMoves

\* What the ledger, the receipts and the CA say of a revocation goes together after every step.
LEMMA StepRevoking == JobsInv /\ [Next]_vars => Revoking'
<1> SUFFICES ASSUME JobsInv, [Next]_vars PROVE Revoking'
  OBVIOUS
<1>1. /\ TypeOK /\ Running /\ Clients /\ Revoking /\ Kept /\ ledger \in LedgerType /\ ca \in CaType
      /\ Len(jobs) \in Nat /\ MaxJobs \in Nat /\ \A j \in Number : jobs[j] \in JobType /\ j \in Job
  BY Rows, StepKept DEF JobsInv
<1>2. Len(jobs') \in Nat /\ Len(jobs') <= MaxJobs
  BY StepTyped, JobFields DEF TypeOK
<1>3. \A s \in Serial : ~Usable(s) => ~Usable(s)'
  BY NeverUsableAgain
<1>4. ca.revoked \subseteq ca'.revoked
  BY Receipts
<1>5. \A j \in Job : \/ disk'.result[j] = disk.result[j]
                     \/ j = child.job /\ j \in Number /\ (disk'.result[j] = "succeeded" => child.step = "write")
  BY Receipts
<1>6. ASSUME NEW j \in Number'
      PROVE  jobs'[j].kind = "revoke" =>
               /\ jobs'[j].serial \in Serial /\ ledger'[jobs'[j].serial].status # "none"
               /\ disk'.result[j] = "succeeded" => jobs'[j].serial \in ca'.revoked
  <2>1. CASE j \in Number
    <3>1. jobs'[j].kind = jobs[j].kind /\ jobs'[j].serial = jobs[j].serial /\ j \in Job
      BY <1>1, <2>1 DEF Kept
    <3>2. jobs[j].kind = "revoke" => jobs[j].serial \in Serial /\ ~Usable(jobs[j].serial)
      BY <1>1, <2>1 DEF Revoking
    <3>3. jobs[j].kind = "revoke" => ledger'[jobs[j].serial].status # "none"
      BY <1>3, <3>2 DEF Usable
    <3>4. jobs[j].kind = "revoke" /\ disk'.result[j] = "succeeded" => jobs[j].serial \in ca.revoked
      BY <1>1, <1>5, <2>1, <3>1 DEF Revoking, Clients
    <3> QED BY <1>4, <3>1, <3>2, <3>3, <3>4
  <2>2. CASE j \notin Number
    <3> SUFFICES ASSUME jobs'[j].kind = "revoke"
                 PROVE  /\ jobs'[j].serial \in Serial /\ ledger'[jobs'[j].serial].status # "none"
                        /\ disk'.result[j] # "succeeded"
      OBVIOUS
    <3>1. PICK c \in Cert, s \in Serial :
             /\ ClaimedBy(c, NewJob(c, "revoke", FALSE, s))
             /\ ledger' = [ledger EXCEPT ![s] = [status |-> "pending", job |-> Len(jobs) + 1]]
      BY <2>2, LedgerMoves
    <3>2. j = Len(jobs) + 1
      BY <1>1, <2>2, <3>1 DEF ClaimedBy, Number
    <3>3. jobs'[j].serial = s
      BY <3>1, <3>2 DEF ClaimedBy, NewJob
    <3>4. ledger'[s].status = "pending"
      BY <1>1, <3>1 DEF LedgerType
    <3>5. j \in Job
      BY <1>1, <1>2, <3>2 DEF Job, Number
    <3>6. disk.result[j] = "none"
      BY <1>1, <2>2, <3>5 DEF Revoking
    <3>7. disk'.result[j] = "none"
      BY <1>5, <2>2, <3>5, <3>6
    <3> QED BY <3>3, <3>4, <3>7
  <2> QED BY <2>1, <2>2
<1>7. ASSUME NEW j \in Job \ Number'
      PROVE  disk'.result[j] = "none"
  BY <1>1, <1>5 DEF Kept, Revoking
<1>8. worker'.pc = "commit" /\ jobs'[worker'.job].kind = "revoke" => jobs'[worker'.job].serial \in ca'.revoked
  <2> SUFFICES ASSUME worker'.pc = "commit", jobs'[worker'.job].kind = "revoke"
               PROVE  jobs'[worker'.job].serial \in ca'.revoked
    OBVIOUS
  <2>1. worker.pc \in Busy /\ worker'.job = worker.job
    BY CommitReached
  <2>2. worker.job \in Number
    BY <1>1, <2>1 DEF Running
  <2>3. jobs[worker.job].kind = "revoke" /\ jobs'[worker.job].serial = jobs[worker.job].serial
    BY <1>1, <2>1, <2>2 DEF Kept
  <2>4. worker.pc = "commit" \/ disk.result[worker.job] = "succeeded"
    BY <2>3, CommitReached
  <2>5. jobs[worker.job].serial \in ca.revoked
    BY <1>1, <2>2, <2>3, <2>4 DEF Revoking
  <2> QED BY <1>4, <2>1, <2>3, <2>5
<1>9. ASSUME NEW r \in Serial
      PROVE  /\ ledger'[r].status = "pending" =>
                  /\ ledger'[r].job \in Number' /\ jobs'[ledger'[r].job].status \in {"queued", "running"}
                  /\ jobs'[ledger'[r].job].kind = "revoke" /\ jobs'[ledger'[r].job].serial = r
             /\ ledger'[r].status = "revoked" => r \in ca.revoked
  <2>1. ledger[r].status = "pending" =>
          LET j == ledger[r].job IN j \in Number /\ Active(j) /\ jobs[j].kind = "revoke" /\ jobs[j].serial = r
    BY <1>1 DEF Revoking
  <2>2. ledger[r].status = "revoked" => r \in ca.revoked
    BY <1>1 DEF Revoking
  <2>3. CASE /\ ledger' = ledger
             /\ \A j \in Number : Active(j) /\ jobs[j].kind = "revoke" => jobs'[j].status \in {"queued", "running"}
    BY <1>1, <2>1, <2>2, <2>3 DEF Kept
  <2>4. CASE \E c \in Cert, s \in Serial :
               /\ ClaimedBy(c, NewJob(c, "revoke", FALSE, s))
               /\ ledger' = [ledger EXCEPT ![s] = [status |-> "pending", job |-> Len(jobs) + 1]]
    <3>1. PICK c \in Cert, s \in Serial :
               /\ ClaimedBy(c, NewJob(c, "revoke", FALSE, s))
               /\ ledger' = [ledger EXCEPT ![s] = [status |-> "pending", job |-> Len(jobs) + 1]]
      BY <2>4
    <3>2. CASE r = s
      <4>1. ledger'[r].status = "pending" /\ ledger'[r].job = Len(jobs) + 1
        BY <1>1, <3>1, <3>2 DEF LedgerType
      <4>2. jobs'[Len(jobs) + 1] = NewJob(c, "revoke", FALSE, s) /\ Len(jobs) + 1 \in Number'
        BY <1>1, <3>1 DEF ClaimedBy, Number
      <4> QED BY <3>2, <4>1, <4>2 DEF NewJob
    <3>3. CASE r # s
      <4>1. ledger'[r] = ledger[r]
        BY <1>1, <3>1, <3>3 DEF LedgerType
      <4>2. \A j \in Number : jobs'[j] = jobs[j] /\ j \in Number'
        BY <1>1, <3>1 DEF ClaimedBy, Number
      <4> QED BY <2>1, <2>2, <4>1, <4>2 DEF Active
    <3> QED BY <3>2, <3>3
  <2>5. CASE Settled /\ Number' = Number /\ \A j \in Number \ {worker.job} : jobs'[j] = jobs[j]
    <3>1. CASE r = jobs[worker.job].serial
      <4>1. worker.pc = "commit" => jobs[worker.job].serial \in ca.revoked
        BY <1>1, <2>5 DEF Revoking, Settled
      <4> QED BY <2>5, <3>1, <4>1 DEF Settled
    <3>2. CASE r # jobs[worker.job].serial
      <4>1. ledger'[r] = ledger[r]
        BY <2>5, <3>2 DEF Settled
      <4>2. ledger[r].status = "pending" => ledger[r].job # worker.job
        BY <2>1, <3>2
      <4> QED BY <2>1, <2>2, <2>5, <4>1, <4>2 DEF Active
    <3> QED BY <3>1, <3>2
  <2> QED BY <2>3, <2>4, <2>5, LedgerMoves
<1>10. ASSUME NEW r \in Serial, r \in ca'.revoked
       PROVE  ~Usable(r)'
  <2>1. CASE r \in ca.revoked
    BY <1>1, <1>3, <2>1 DEF Revoking
  <2>2. CASE child.job \in Number /\ jobs[child.job].kind = "revoke" /\ r = jobs[child.job].serial
    BY <1>1, <1>3, <2>2 DEF Revoking
  <2> QED BY <1>10, <2>1, <2>2, Receipts
<1>11. \A r \in Serial : /\ ledger'[r].status = "revoked" => r \in ca'.revoked
                         /\ r \in ca'.revoked => ledger'[r].status # "none"
  BY <1>4, <1>9, <1>10 DEF Usable
<1> QED BY <1>6, <1>7, <1>8, <1>9, <1>11 DEF Revoking, Active, Usable

\* Only deploy, of the administrator or of the worker, sends a certificate to a node.
LEMMA DeploysFrom ==
  ASSUME [Next]_vars, NEW d \in deploys', d \notin deploys
  PROVE  \E t \in Target : (deploy(t) \/ DeployPending(t)) /\ Deployable(t) /\ Deploys(t)
<1>1. CASE Administrator
  BY <1>1
     DEF Administrator, Queue, QueueAccount, queue_revocation, edit, activate, import_certificate, TimePasses,
         deploy, CommandEnds
<1>2. CASE WorkerStep
  <2>1. ASSUME NEW t \in Target, DeployPending(t)
        PROVE  Deployable(t) /\ Deploys(t)
    BY <2>1 DEF DeployPending
  <2>2. (\E t \in Target : DeployPending(t)) \/ deploys' = deploys
    BY <1>2, Zenon
       DEF WorkerStep, recover, ListPending, ListDue, TakeJob, NoJob, ScheduleDue, RunLocal,
           RunRemote, RunAdministration, ReadResult, CommitAdministration, Publish, SkipRenewal, Fail, Cancelled,
           catalog
  <2> QED BY <2>1, <2>2
<1>3. CASE ChildStep
  BY <1>3, Zenon
     DEF ChildStep, LegoOrders, LegoSaves, LegoDeclines, RemoteBegins, RemotePosts, RemoteKeeps,
         RemoteFinalizes, CaRevokes, WriteReceipt, ClientFails, ChildKilled, catalog
<1>4. CASE Cancel \/ Crash \/ UNCHANGED vars
  BY <1>4 DEF Cancel, Crash, vars, catalog
<1> QED BY <1>1, <1>2, <1>3, <1>4 DEF Next

\* A certificate whose revocation begins is on its way to no node, and none that is in the ledger is
\* sent to one.
LEMMA StepDeployed == JobsInv /\ [Next]_vars => RevokedNotDeployed'
<1> SUFFICES ASSUME JobsInv, [Next]_vars, NEW d \in deploys' PROVE ledger'[d.serial].status = "none"
  BY DEF RevokedNotDeployed, Usable
<1>1. /\ RevokedNotDeployed /\ TypeOK /\ Running /\ Revoking /\ ledger \in LedgerType
      /\ deploys \subseteq [target : Target, serial : Serial]
  BY Rows DEF JobsInv, TypeOK
<1>2. CASE d \notin deploys
  <2>1. PICK t \in Target : (deploy(t) \/ DeployPending(t)) /\ Deployable(t) /\ Deploys(t)
    BY <1>2, DeploysFrom
  <2>2. ledger' = ledger /\ d.serial = certs[TargetOf[t]].version
    BY <1>2, <2>1 DEF deploy, DeployPending, Deploys
  <2> QED BY <2>1, <2>2 DEF Deployable, Usable
<1>3. CASE d \in deploys
  <2>1. ledger[d.serial].status = "none" /\ d.serial \in Serial
    BY <1>1, <1>3 DEF RevokedNotDeployed, Usable
  <2>2. CASE ledger' = ledger
    BY <2>1, <2>2
  <2>3. CASE \E c \in Cert, s \in Serial :
               /\ queue_revocation(c, s) /\ ClaimedBy(c, NewJob(c, "revoke", FALSE, s))
               /\ ledger' = [ledger EXCEPT ![s] = [status |-> "pending", job |-> Len(jobs) + 1]]
    <3>1. PICK c \in Cert, s \in Serial :
             queue_revocation(c, s) /\ ledger' = [ledger EXCEPT ![s] = [status |-> "pending", job |-> Len(jobs) + 1]]
      BY <2>3
    <3>2. d.serial # s
      BY <1>3, <3>1 DEF queue_revocation, NoDeploymentOf
    <3> QED BY <1>1, <2>1, <3>1, <3>2 DEF LedgerType
  <2>4. CASE Ends /\ Settled
    <3>1. worker.job \in Number /\ jobs[worker.job].kind = "revoke"
      BY <1>1, <2>4, EndsEffect DEF Settled, Running, Busy
    <3>2. ledger[jobs[worker.job].serial].status # "none"
      BY <1>1, <3>1 DEF Revoking, Usable
    <3> QED BY <2>1, <2>4, <3>2 DEF Settled
  <2> QED BY <2>2, <2>3, <2>4, LedgerMoves
<1> QED BY <1>2, <1>3

\* How a step moves the version and the auto_renew of a profile.
ProfileMoves(e) ==
    \/ certs'[e].version = certs[e].version /\ certs'[e].auto \in {FALSE, certs[e].auto}
    \/ ledger' = ledger /\ (certs'[e].version # 0 => ledger[certs'[e].version].status = "none")

\* A profile gets another version, or auto_renew again, only with a usable certificate.
LEMMA ProfileSteps ==
  ASSUME JobsInv, [Next]_vars, NEW e \in Cert
  PROVE  ProfileMoves(e)
<1>1. TypeOK /\ Running /\ certs \in CertsType /\ certs[e] \in CertType /\ MaxSerial \in Nat
  BY Rows DEF JobsInv, CertsType
<1>2. ASSUME certs' = certs
      PROVE  ProfileMoves(e)
  BY <1>2 DEF ProfileMoves
<1>3. ASSUME NEW c \in Cert, NEW s \in Serial, activate(c, s) \/ import_certificate(c, s)
      PROVE  ProfileMoves(e)
  <2>1. Usable(s) /\ ledger' = ledger /\ certs' = [certs EXCEPT ![c].version = s, ![c].status = "issued"]
    BY <1>3 DEF activate, import_certificate, MayActivate
  <2>2. CASE e = c
    <3>1. certs'[e].version = s
      BY <1>1, <2>1, <2>2 DEF CertsType, CertType
    <3> QED BY <2>1, <3>1 DEF ProfileMoves, Usable
  <2>3. CASE e # c
    BY <1>1, <2>1, <2>3 DEF ProfileMoves, CertsType
  <2> QED BY <2>2, <2>3
<1>4. ASSUME NEW c \in Cert, NEW auto \in BOOLEAN, edit(c, auto)
      PROVE  ProfileMoves(e)
  <2>1. /\ ledger' = ledger /\ certs' = [certs EXCEPT ![c].auto = auto]
        /\ auto => (certs[c].version # 0 => Usable(certs[c].version))
    BY <1>4 DEF edit
  <2>2. CASE e # c
    BY <1>1, <2>1, <2>2 DEF ProfileMoves, CertsType
  <2>3. CASE e = c
    <3>1. certs'[e].version = certs[e].version /\ certs'[e].auto = auto
      BY <1>1, <2>1, <2>3 DEF CertsType, CertType
    <3>2. CASE auto = FALSE
      BY <3>1, <3>2 DEF ProfileMoves
    <3>3. CASE auto = TRUE
      BY <2>1, <2>3, <3>1, <3>3 DEF ProfileMoves, Usable
    <3> QED BY <3>2, <3>3
  <2> QED BY <2>2, <2>3
<1>5. ASSUME NEW c \in Cert, TimePasses(c)
      PROVE  ProfileMoves(e)
  BY <1>1, <1>5 DEF TimePasses, ProfileMoves, CertsType, CertType
<1>6. ASSUME NEW c \in Cert, NEW kind \in Kind, NEW force, Claims(c, kind, force)
      PROVE  ProfileMoves(e)
  <2>1. certs' = [certs EXCEPT ![c].active = Len(jobs) + 1, ![c].status = "queued"]
    BY <1>6 DEF Claims
  <2> QED BY <1>1, <2>1 DEF ProfileMoves, CertsType, CertType
<1>7. ASSUME NEW c \in Cert, NEW s \in Serial, queue_revocation(c, s)
      PROVE  ProfileMoves(e)
  BY <1>1, <1>7, RevocationEffect DEF ProfileMoves
<1>8. CASE recover
  BY <1>1, <1>8, RecoverEffect DEF ProfileMoves
<1>9. CASE TakeJob
  BY <1>1, <1>9, TakeEffect DEF ProfileMoves
<1>10. CASE Cancelled /\ Resumable(worker.job)
  BY <1>1, <1>10, RequeueEffect DEF ProfileMoves
<1>11. CASE CommitAdministration
  BY <1>1, <1>11, CommitEffect DEF ProfileMoves, SameVersion, AutoOff
<1>12. CASE Fail \/ (Cancelled /\ ~Resumable(worker.job))
  <2>1. (Gives_up("failed") \/ Gives_up("interrupted")) /\ worker.pc \in Busy
    BY <1>12 DEF Fail, Cancelled, Busy
  <2>2. SameVersion /\ AutoOff(worker.job)
    BY <1>1, <2>1, GivesUpEffect DEF JobStatus
  <2> QED BY <2>2 DEF ProfileMoves, SameVersion, AutoOff
<1>13. CASE Publish /\ Usable(worker.data)
  <2> DEFINE c == jobs[worker.job].cert
             cs == [certs EXCEPT ![c].version = worker.data, ![c].status = "issued",
                                  ![c].due = FALSE, ![c].wait = TRUE]
  <2>1. certs' = Idle(c, cs) /\ ledger' = ledger
    BY <1>13 DEF Publish
  <2>2. cs = [x \in Cert |-> IF x = c THEN [certs[x] EXCEPT !.version = worker.data, !.status = "issued",
                                                      !.due = FALSE, !.wait = TRUE] ELSE certs[x]]
    <3> HIDE DEF c
    <3> QED BY <1>1 DEF CertsType
  <2> HIDE DEF cs, c
  <2>3. certs'[e].version = cs[e].version /\ certs'[e].auto = cs[e].auto
    <3>1. "version" \in DOMAIN cs[e] /\ "auto" \in DOMAIN cs[e]
      BY <1>1, <2>2 DEF CertType
    <3> QED BY <2>1, <2>2, <3>1 DEF Idle
  <2>4. CASE e = c
    <3>1. cs[e].version = worker.data
      BY <1>1, <2>2, <2>4 DEF CertType
    <3> QED BY <1>13, <2>1, <2>3, <3>1 DEF ProfileMoves, Usable
  <2>5. CASE e # c
    <3>1. cs[e] = certs[e]
      BY <2>2, <2>5
    <3> QED BY <2>3, <3>1 DEF ProfileMoves
  <2> QED BY <2>4, <2>5
<1>14. CASE SkipRenewal
  <2> DEFINE c == jobs[worker.job].cert
  <2>1. certs' = Idle(c, [certs EXCEPT ![c].status = "issued", ![c].wait = TRUE])
    BY <1>14 DEF SkipRenewal
  <2> HIDE DEF c
  <2> QED BY <1>1, <2>1 DEF Idle, ProfileMoves, CertsType, CertType
<1>15. CASE Ends
  BY <1>11, <1>12, <1>13, <1>14, <1>15 DEF Ends
<1>16. CASE Queues
  <2>1. ASSUME NEW c \in Cert, NEW force \in BOOLEAN, NEW kind \in {"issue", "renew"}, queue(c, kind, force)
        PROVE  ProfileMoves(e)
    BY <1>6, <2>1 DEF queue, Kind
  <2>2. ASSUME NEW c \in Cert, QueueAccount(c)
        PROVE  ProfileMoves(e)
    BY <1>6, <2>2 DEF QueueAccount, Kind
  <2> QED BY <1>7, <1>16, <2>1, <2>2 DEF Queues, Queue
<1>17. CASE Quiet
  <2>1. CASE \/ \E c \in Cert, s \in Serial : activate(c, s) \/ import_certificate(c, s)
             \/ \E c \in Cert, auto \in BOOLEAN : edit(c, auto)
             \/ \E c \in Cert : TimePasses(c)
    BY <1>3, <1>4, <1>5, <2>1, Zenon
  <2>2. CASE ChildStep
    BY <1>2, <2>2, Zenon
       DEF ChildStep, LegoOrders, LegoSaves, LegoDeclines, RemoteBegins, RemotePosts, RemoteKeeps,
           RemoteFinalizes, CaRevokes, WriteReceipt, ClientFails, ChildKilled, catalog
  <2>3. CASE ListPending \/ ListDue \/ NoJob \/ RunLocal \/ RunRemote \/ RunAdministration \/ ReadResult
    BY <1>2, <2>3, Zenon
       DEF ListPending, ListDue, NoJob, RunLocal, RunRemote, RunAdministration, ReadResult, catalog
  <2>4. CASE (Publish /\ ~Usable(worker.data)) \/ Cancel \/ Crash \/ UNCHANGED vars
    BY <1>2, <2>4 DEF Publish, Cancel, Crash, vars, catalog
  <2>5. CASE \/ \E t \in Target : deploy(t) \/ DeployPending(t)
             \/ \E d \in deploys : CommandEnds(d)
             \/ \E c \in Cert : ScheduleDue(c) /\ UNCHANGED <<certs, jobs>>
    BY <1>2, <2>5 DEF deploy, DeployPending, CommandEnds
  <2> QED BY <1>17, <2>1, <2>2, <2>3, <2>4, <2>5, Zenon DEF Quiet
<1> QED BY <1>8, <1>9, <1>10, <1>15, <1>16, <1>17, Sorts

\* A profile whose certificate is in the ledger is not renewed automatically.
LEMMA StepRenewed == JobsInv /\ [Next]_vars => RevokedNotRenewed'
<1> SUFFICES ASSUME JobsInv, [Next]_vars, NEW e \in Cert,
                    certs'[e].version # 0, ledger'[certs'[e].version].status # "none"
             PROVE  certs'[e].auto = FALSE
  BY DEF RevokedNotRenewed, Usable
<1>1. /\ RevokedNotRenewed /\ TypeOK /\ Running /\ Revoking /\ ledger \in LedgerType /\ certs \in CertsType
      /\ certs[e] \in CertType
  BY Rows DEF JobsInv, CertsType
<1>2. certs'[e].version = certs[e].version /\ certs'[e].auto \in {FALSE, certs[e].auto}
  BY ProfileSteps DEF ProfileMoves
<1>3. certs[e].version \in Serial
  BY <1>1, <1>2 DEF CertType, Serial
<1>4. ledger[certs[e].version].status # "none" => certs[e].auto = FALSE
  <2>1. ledger[certs[e].version].status # "none" => ~certs[e].auto
    BY <1>1, <1>2 DEF RevokedNotRenewed, Usable
  <2>2. certs[e].auto \in BOOLEAN
    BY <1>1 DEF CertType
  <2> QED BY <2>1, <2>2
<1>5. CASE ledger' = ledger
  BY <1>2, <1>4, <1>5
<1>6. CASE \E c \in Cert, s \in Serial :
             /\ queue_revocation(c, s) /\ ClaimedBy(c, NewJob(c, "revoke", FALSE, s))
             /\ ledger' = [ledger EXCEPT ![s] = [status |-> "pending", job |-> Len(jobs) + 1]]
  <2>1. PICK c \in Cert, s \in Serial :
           queue_revocation(c, s) /\ ledger' = [ledger EXCEPT ![s] = [status |-> "pending", job |-> Len(jobs) + 1]]
    BY <1>6
  <2>2. CASE certs[e].version = s
    BY <1>1, <2>1, <2>2, RevocationEffect
  <2>3. CASE certs[e].version # s
    <3>1. ledger'[certs[e].version] = ledger[certs[e].version]
      BY <1>1, <1>3, <2>1, <2>3 DEF LedgerType
    <3> QED BY <1>2, <1>4, <3>1
  <2> QED BY <2>2, <2>3
<1>7. CASE Ends /\ Settled
  <2>1. worker.job \in Number /\ jobs[worker.job].kind = "revoke"
    BY <1>1, <1>7, EndsEffect DEF Settled, Running, Busy
  <2>2. ledger[jobs[worker.job].serial].status # "none"
    BY <1>1, <2>1 DEF Revoking, Usable
  <2>3. ledger[certs[e].version].status # "none"
    BY <1>2, <1>3, <1>7, <2>2 DEF Settled
  <2> QED BY <1>2, <1>4, <2>3
<1> QED BY <1>5, <1>6, <1>7, LedgerMoves

(***************************************************************************)
(* The theorems.                                                           *)
(***************************************************************************)
\* Nothing is queued, running, stored or revoked at first.
LEMMA InitInv == Init => JobsInv
<1> SUFFICES ASSUME Init PROVE JobsInv
  OBVIOUS
<1>1. /\ MaxJobs \in Nat /\ MaxSerial \in Nat /\ MaxCrashes \in Nat
      /\ 0 \in 0 .. MaxJobs /\ 0 \in 0 .. MaxSerial /\ 0 \in 0 .. MaxCrashes
  BY CertificateAssumption
<1>2. certs \in CertsType
  <2>1. \A c \in Cert : (c \notin Imported) \in BOOLEAN
    OBVIOUS
  <2>2. \A c \in Cert : [active |-> 0, status |-> "idle", version |-> 0, auto |-> c \notin Imported,
                         due |-> FALSE, wait |-> FALSE] \in CertType
    BY <1>1, <2>1 DEF CertType, Status
  <2> QED BY <2>2 DEF Init, CertsType
<1>3. jobs \in Seq(JobType) /\ Len(jobs) = 0 /\ Number = {}
  BY DEF Init, Number
<1>4. ledger \in LedgerType /\ \A s \in Serial : ledger[s].status = "none"
  BY <1>1 DEF Init, Unlisted, LedgerType
<1>5. worker \in WorkerType /\ worker.pc = "down" /\ child = NoChild /\ child \in ChildType /\ child.step = "none"
  BY <1>1 DEF Init, Down, NoChild, WorkerType, ChildType, ChildStepName
<1>6. disk \in DiskType /\ \A j \in Job : disk.result[j] = "none"
  BY <1>1 DEF Init, DiskType
<1>7. ca \in CaType /\ ca.revoked = {} /\ \A j \in Job : ca.orders[j] = 0
  BY <1>1 DEF Init, CaType
<1>8. TypeOK
  BY <1>1, <1>2, <1>3, <1>4, <1>5, <1>6, <1>7
     DEF TypeOK, Init, CertsType, LedgerType, WorkerType, ChildType, DiskType, CaType
<1>9. Orders
  BY <1>5, <1>7 DEF Orders
<1>10. Owned
  BY <1>3 DEF Owned, Init
<1>11. Running /\ Clients
  BY <1>3, <1>5 DEF Running, Clients, Busy, Posting
<1>12. Revoking
  BY <1>3, <1>4, <1>5, <1>6, <1>7 DEF Revoking
<1>13. RevokedNotDeployed /\ RevokedNotRenewed
  BY DEF RevokedNotDeployed, RevokedNotRenewed, Init
<1> QED BY <1>8, <1>9, <1>10, <1>11, <1>12, <1>13 DEF JobsInv

\* The invariant holds in every behaviour.
LEMMA Invariance == Spec => []JobsInv
<1>1. JobsInv /\ [Next]_vars => JobsInv'
  BY StepTyped, StepOrders, StepOwned, StepRunning, StepClients, StepRevoking, StepDeployed, StepRenewed
     DEF JobsInv
<1> QED BY <1>1, InitInv, PTL DEF Spec

\* The state has the shape the code gives it, whatever the numbers of profiles, jobs and crashes.
THEOREM JobsTyped == Spec => []TypeOK
<1>1. JobsInv => TypeOK
  BY DEF JobsInv
<1> QED BY <1>1, Invariance, PTL

\* However often a remote job is interrupted and resumed, the CA gets one order for it
\* (certificate_remote_acme.obtain writes the intent before it posts the order).
THEOREM OneOrder == Spec => []OneOrderPerJob
<1>1. JobsInv => OneOrderPerJob
  BY DEF JobsInv, Orders, OneOrderPerJob
<1> QED BY <1>1, Invariance, PTL

\* A profile and its unfinished job know each other through success, failure, interruption, cancellation
\* and recovery (CertificateStore.claim, CertificateWorker._recover and _run_one).
THEOREM ActiveJobs == Spec => []OneActiveJob
<1>1. JobsInv => OneActiveJob
  BY DEF JobsInv, Owned, OneActiveJob, Number
<1> QED BY <1>1, Invariance, PTL

\* A client that outlived the panel works for a job that is still recorded as running
\* (worker.lock, CertificateWorker.run and _recover).
THEOREM ClientsJob == Spec => []ChildOwnsJob
<1>1. JobsInv => ChildOwnsJob
  BY DEF JobsInv, Running, ChildOwnsJob
<1> QED BY <1>1, Invariance, PTL

\* What the panel says of a revocation is so at the CA, on the nodes and in the profiles
\* (queue_revocation, mark_revocation, publish, activate, deploy).
THEOREM RevocationSafe == Spec => []RevocationHonest
<1>1. JobsInv => RevocationHonest
  <2> SUFFICES ASSUME JobsInv PROVE RevocationHonest
    OBVIOUS
  <2>1. LedgerHonest
    BY DEF JobsInv, Revoking, LedgerHonest
  <2> QED BY <2>1 DEF JobsInv, RevocationHonest
<1> QED BY <1>1, Invariance, PTL

(***************************************************************************)
(* HTTP-01 challenge leases.                                               *)
(***************************************************************************)
\* The panel's records of a lease and of a command, and the types of both stores.
Lease ==
    [profile : Profile, tokens : SUBSET Token, expires : Nat, present : Nat, cleanup : Nat,
     requested : BOOLEAN, released : BOOLEAN]

Command ==
    [method : {"PUT", "DELETE"}, lease : Nat, status : {"pending", "succeeded", "failed"}]

LeaseTypes ==
    /\ now \in Nat
    /\ job \in [Profile -> [pc : {"idle", "drain", "create", "confirm", "validate"}, lease : Nat]]
    /\ leases \in Seq(Lease) /\ Len(leases) <= MaxLease
    /\ commands \in Seq(Command)
    /\ taken \subseteq H!CommandId /\ checked \subseteq taken
    /\ row \in [H!LeaseId -> {"absent", "preparing", "ready", "releasing", "released"}]
    /\ file \subseteq Token
    /\ op \in [kind : {"none", "present", "release", "run"}, cmd : Nat, lease : Nat,
               pc : {"none", "sweep", "guard", "write", "undo"}, todo : SUBSET H!LeaseId,
               rel : Nat, bad : BOOLEAN]

\* A lease and its commands know each other, and a removal is sent only for a lease given up.
Linked ==
    /\ \A c \in DOMAIN commands :
        /\ commands[c].lease \in DOMAIN leases
        /\ commands[c].method = "PUT" => leases[commands[c].lease].present = c
        /\ commands[c].method = "DELETE" => leases[commands[c].lease].requested
    /\ \A l \in DOMAIN leases :
        /\ leases[l].present \in DOMAIN commands
        /\ commands[leases[l].present].method = "PUT" /\ commands[leases[l].present].lease = l
        /\ leases[l].cleanup # 0 =>
             /\ leases[l].cleanup \in DOMAIN commands
             /\ commands[leases[l].cleanup].method = "DELETE"
             /\ commands[leases[l].cleanup].lease = l
        /\ leases[l].released => leases[l].cleanup # 0 /\ H!confirmed(leases[l].cleanup)

\* A job holds on to its lease until it ends.
Wanting ==
    \A p \in Profile : job[p].pc \in {"confirm", "validate"} =>
        /\ job[p].lease \in DOMAIN leases
        /\ leases[job[p].lease].profile = p /\ ~leases[job[p].lease].requested
        /\ job[p].pc = "validate" => H!confirmed(leases[job[p].lease].present)

\* What the agent has begun is unanswered.
Working ==
    /\ \A c \in checked : commands[c].status = "pending"
    /\ op.kind \in {"present", "release"} =>
        /\ op.cmd \in taken \ checked /\ commands[op.cmd].status = "pending"
        /\ op.lease = commands[op.cmd].lease
        /\ commands[op.cmd].method = IF op.kind = "present" THEN "PUT" ELSE "DELETE"
    /\ op.kind \in {"none", "run"} => op.cmd = 0 /\ op.lease = 0
    /\ op.kind = "none" => op.pc = "none"

\* What is under the lock.
Sweeping ==
    /\ op.pc = "sweep" => op.kind # "none"
    /\ op.pc = "sweep" /\ op.kind \in {"run", "present"} =>
         \A l \in op.todo : l \in DOMAIN leases /\ H!Expired(l)
    /\ op.pc = "sweep" /\ op.kind = "release" => op.todo = {op.lease}
    /\ op.pc \in {"write", "undo"} => op.kind = "present"
    /\ op.pc = "undo" => op.todo \subseteq {op.lease}
    /\ op.rel # 0 => op.rel \in op.todo /\ op.pc \in {"sweep", "undo"} /\ row[op.rel] = "releasing"
    /\ op.pc = "write" => row[op.lease] \in {"preparing", "ready"}
    /\ op.pc = "guard" /\ op.kind = "release" /\ ~op.bad => row[op.lease] = "released"

\* A presentation that has not been carried out finds nothing of its lease, and comes in time.
Early ==
    /\ \A l \in DOMAIN leases :
        \/ leases[l].present \notin taken
        \/ leases[l].present \in checked
        \/ op.cmd = leases[l].present /\ op.pc \in {"sweep", "guard"}
        => row[l] \in {"absent", "released"}
    /\ \A c \in checked : commands[c].method = "PUT" => now <= leases[commands[c].lease].expires + Keep
    /\ op.kind = "present" => now <= leases[op.lease].expires + Keep

\* The node's rows are of leases, and those it holds share no token.
StoreRows ==
    /\ \A l \in H!LeaseId : row[l] # "absent" => l \in DOMAIN leases
    /\ \A k, l \in H!Held : k # l => H!Tokens(k) \cap H!Tokens(l) = {}

\* Once a removal is confirmed the node remembers it until no presentation can come.
Gone ==
    \A c \in DOMAIN commands :
        commands[c].method = "DELETE" /\ commands[c].status = "succeeded" =>
            LET l == commands[c].lease IN
            /\ \/ row[l] = "released"
               \/ row[l] = "absent" /\ leases[l].expires + Keep < now
            /\ ~(op.lease = l /\ op.pc \in {"write", "undo"})

\* What is presented is there while it is wanted.
Served ==
    \A l \in DOMAIN leases :
        H!confirmed(leases[l].present) /\ ~leases[l].requested /\ ~H!Expired(l) =>
            /\ row[l] = "ready"
            /\ H!Mode(l) = "webroot" => H!Tokens(l) \subseteq file

\* Wherever the panel, the agent or a command was interrupted, all of it holds.
LeaseInv ==
    /\ LeaseTypes /\ Linked /\ Wanting /\ Working /\ Sweeping /\ Early
    /\ StoreRows /\ Gone /\ Served /\ H!FilesOwned

\* Leases and commands are numbered, and each is a record.
LEMMA LeaseTyped ==
    ASSUME LeaseTypes
    PROVE  /\ DOMAIN leases = 1 .. Len(leases) /\ DOMAIN leases \subseteq H!LeaseId
           /\ \A l \in DOMAIN leases : leases[l] \in Lease
           /\ DOMAIN commands = H!CommandId
           /\ \A c \in H!CommandId : commands[c] \in Command
  BY LeaseAssumption DEF LeaseTypes, H!LeaseId, H!CommandId

\* What the panel knows survives an answer.
LEMMA Answered ==
    ASSUME LeaseInv, UNCHANGED <<job, leases>>, DOMAIN commands' = DOMAIN commands,
           \A c \in DOMAIN commands :
               /\ commands'[c].method = commands[c].method /\ commands'[c].lease = commands[c].lease
               /\ commands[c].status = "succeeded" => commands'[c].status = "succeeded"
    PROVE  Linked' /\ Wanting'
<1>1. Linked'
  <2>1. \A c \in DOMAIN commands' :
          /\ commands'[c].lease \in DOMAIN leases
          /\ commands'[c].method = "PUT" => leases[commands'[c].lease].present = c
          /\ commands'[c].method = "DELETE" => leases[commands'[c].lease].requested
    BY DEF LeaseInv, Linked
  <2>2. ASSUME NEW l \in DOMAIN leases
        PROVE  /\ leases[l].present \in DOMAIN commands'
               /\ commands'[leases[l].present].method = "PUT"
               /\ commands'[leases[l].present].lease = l
    BY <2>2 DEF LeaseInv, Linked
  <2>3. ASSUME NEW l \in DOMAIN leases, leases[l].cleanup # 0
        PROVE  /\ leases[l].cleanup \in DOMAIN commands'
               /\ commands'[leases[l].cleanup].method = "DELETE"
               /\ commands'[leases[l].cleanup].lease = l
    BY <2>3 DEF LeaseInv, Linked
  <2>4. ASSUME NEW l \in DOMAIN leases, leases[l].released
        PROVE  leases[l].cleanup # 0 /\ commands'[leases[l].cleanup].status = "succeeded"
    BY <2>4 DEF LeaseInv, Linked, H!confirmed
  <2> QED BY <2>1, <2>2, <2>3, <2>4 DEF Linked, H!confirmed
<1>2. Wanting'
  BY DEF LeaseInv, Linked, Wanting, H!confirmed
<1> QED BY <1>1, <1>2

\* Whatever the panel adds does not touch the node.
LEMMA PanelMoves ==
    ASSUME LeaseInv, UNCHANGED <<now, H!agent>>, LeaseTypes', Linked', Wanting',
           DOMAIN leases \subseteq DOMAIN leases', DOMAIN commands \subseteq DOMAIN commands',
           \A l \in DOMAIN leases :
               /\ leases'[l].profile = leases[l].profile /\ leases'[l].tokens = leases[l].tokens
               /\ leases'[l].expires = leases[l].expires /\ leases'[l].present = leases[l].present
               /\ leases[l].requested => leases'[l].requested,
           \A l \in DOMAIN leases' \ DOMAIN leases : leases'[l].present \notin DOMAIN commands,
           \A c \in DOMAIN commands : commands'[c] = commands[c],
           \A c \in DOMAIN commands' \ DOMAIN commands : commands'[c].status = "pending"
    PROVE  LeaseInv'
<1>1. /\ DOMAIN leases \subseteq H!LeaseId /\ taken \subseteq DOMAIN commands /\ checked \subseteq taken
      /\ taken' = taken /\ checked' = checked /\ row' = row /\ file' = file /\ op' = op /\ now' = now
  BY LeaseTyped DEF LeaseInv, LeaseTypes, H!agent
<1>2. Working'
  BY <1>1 DEF LeaseInv, Working
<1>3. Sweeping'
  BY <1>1 DEF LeaseInv, Sweeping, H!Expired
<1>4. Early'
  <2>1. DOMAIN leases' \subseteq H!LeaseId
    BY LeaseAssumption DEF LeaseTypes, H!LeaseId
  <2>2. \A l \in DOMAIN leases' \ DOMAIN leases : row[l] = "absent"
    BY <2>1 DEF LeaseInv, StoreRows
  <2>3. ASSUME NEW l \in DOMAIN leases, \/ leases[l].present \notin taken
                                        \/ leases[l].present \in checked
                                        \/ op.cmd = leases[l].present /\ op.pc \in {"sweep", "guard"}
        PROVE  row[l] \in {"absent", "released"}
    BY <2>3 DEF LeaseInv, Early
  <2>4. ASSUME NEW c \in checked, commands'[c].method = "PUT"
        PROVE  now <= leases'[commands'[c].lease].expires + Keep
    BY <1>1, <2>4 DEF LeaseInv, Early, Linked
  <2>5. op.kind = "present" => now <= leases'[op.lease].expires + Keep
    BY <1>1 DEF LeaseInv, Early, Working, Linked
  <2> QED BY <1>1, <2>2, <2>3, <2>4, <2>5 DEF Early
<1>5. StoreRows'
  BY <1>1 DEF LeaseInv, StoreRows, H!Held, H!Tokens
<1>6. Gone'
  BY <1>1 DEF LeaseInv, Gone, Linked
<1>7. Served'
  <2>1. ASSUME NEW l \in DOMAIN leases', commands'[leases'[l].present].status = "succeeded",
               ~leases'[l].requested, ~H!Expired(l)'
        PROVE  row'[l] = "ready" /\ (H!Mode(l)' = "webroot" => H!Tokens(l)' \subseteq file')
    BY <1>1, <2>1 DEF LeaseInv, Served, Linked, H!confirmed, H!Mode, H!Tokens, H!Expired
  <2> QED BY <2>1 DEF Served, H!confirmed
<1>8. H!FilesOwned'
  BY <1>1 DEF LeaseInv, H!FilesOwned, StoreRows, H!Held, H!Tokens, H!Mode
<1> QED BY <1>2, <1>3, <1>4, <1>5, <1>6, <1>7, <1>8 DEF LeaseInv

\* Steps of a job that change nothing but its place.
LEMMA JobKeeps ==
    ASSUME LeaseInv, NEW p \in Profile, H!present(p) \/ H!Drained(p) \/ H!Presented(p)
    PROVE  LeaseInv'
<1>1. UNCHANGED <<now, leases, commands, H!agent>>
  BY DEF H!present, H!Drained, H!Presented
<1> DEFINE J == [pc : {"idle", "drain", "create", "confirm", "validate"}, lease : Nat]
<1>2. /\ job' \in [Profile -> J] /\ \A q \in Profile \ {p} : job'[q] = job[q]
      /\ job'[p].pc \in {"confirm", "validate"} =>
           /\ job[p].pc = "confirm" /\ job'[p].lease = job[p].lease
           /\ H!confirmed(leases[job[p].lease].present)
  <2>1. job \in [Profile -> J]
    BY DEF LeaseInv, LeaseTypes
  <2>2. CASE H!present(p)
    BY <2>1, <2>2 DEF H!present
  <2>3. CASE H!Drained(p)
    BY <2>1, <2>3 DEF H!Drained
  <2>4. CASE H!Presented(p)
    BY <2>1, <2>4 DEF H!Presented
  <2> QED BY <2>2, <2>3, <2>4
<1>3. LeaseTypes'
  BY <1>1, <1>2 DEF LeaseInv, LeaseTypes, H!agent, H!CommandId
<1>4. Linked'
  BY <1>1 DEF LeaseInv, Linked, H!confirmed
<1> HIDE DEF J
<1>5. Wanting'
  BY <1>1, <1>2 DEF LeaseInv, Wanting, H!confirmed
<1> QED BY <1>1, <1>3, <1>4, <1>5, PanelMoves

\* The lease and its command are one transaction.
LEMMA CreateLeaseKeeps ==
    ASSUME LeaseInv, NEW p \in Profile, NEW tokens \in SUBSET Token,
           H!CreateLease(p, tokens)
    PROVE  LeaseInv'
<1> DEFINE n == Len(leases) + 1
           m == Len(commands) + 1
           L == [profile |-> p, tokens |-> tokens, expires |-> now + TTL, present |-> m,
                 cleanup |-> 0, requested |-> FALSE, released |-> FALSE]
           C == [method |-> "PUT", lease |-> n, status |-> "pending"]
<1>1. /\ leases' = Append(leases, L) /\ commands' = Append(commands, C)
      /\ job' = [job EXCEPT ![p] = [pc |-> "confirm", lease |-> n]]
      /\ Len(leases) < MaxLease /\ UNCHANGED <<now, H!agent>>
  BY DEF H!CreateLease
<1>2. L \in Lease /\ C \in Command /\ n \in Nat
  BY LeaseAssumption DEF LeaseInv, LeaseTypes, Lease, Command
<1>3. /\ DOMAIN leases = 1 .. Len(leases) /\ DOMAIN commands = 1 .. Len(commands)
      /\ Len(leases) \in Nat /\ Len(commands) \in Nat
  BY DEF LeaseInv, LeaseTypes
<1>4. /\ leases' \in Seq(Lease) /\ Len(leases') = n /\ DOMAIN leases' = 1 .. n /\ leases'[n] = L
      /\ \A l \in DOMAIN leases : leases'[l] = leases[l]
  BY <1>1, <1>2 DEF LeaseInv, LeaseTypes
<1>5. /\ commands' \in Seq(Command) /\ Len(commands') = m /\ DOMAIN commands' = 1 .. m
      /\ commands'[m] = C /\ \A c \in DOMAIN commands : commands'[c] = commands[c]
  BY <1>1, <1>2 DEF LeaseInv, LeaseTypes
<1>6. LeaseTypes'
  BY <1>1, <1>2, <1>3, <1>4, <1>5, LeaseAssumption DEF LeaseInv, LeaseTypes, H!agent, H!CommandId
<1>7. /\ L.present = m /\ L.cleanup = 0 /\ L.released = FALSE /\ L.requested = FALSE /\ L.profile = p
      /\ C.method = "PUT" /\ C.lease = n /\ C.status = "pending"
  OBVIOUS
<1> HIDE DEF L, C
<1>8. Linked'
  <2>1. ASSUME NEW c \in DOMAIN commands'
        PROVE  /\ commands'[c].lease \in DOMAIN leases'
               /\ commands'[c].method = "PUT" => leases'[commands'[c].lease].present = c
               /\ commands'[c].method = "DELETE" => leases'[commands'[c].lease].requested
    BY <1>3, <1>4, <1>5, <1>7 DEF LeaseInv, Linked
  <2>2. ASSUME NEW l \in DOMAIN leases, l \in DOMAIN leases'
        PROVE  /\ leases'[l].present \in DOMAIN commands'
               /\ commands'[leases'[l].present].method = "PUT"
               /\ commands'[leases'[l].present].lease = l
               /\ leases'[l].cleanup # 0 =>
                    /\ leases'[l].cleanup \in DOMAIN commands'
                    /\ commands'[leases'[l].cleanup].method = "DELETE"
                    /\ commands'[leases'[l].cleanup].lease = l
               /\ leases'[l].released =>
                    leases'[l].cleanup # 0 /\ commands'[leases'[l].cleanup].status = "succeeded"
    BY <1>3, <1>4, <1>5, <2>2 DEF LeaseInv, Linked, H!confirmed
  <2> QED BY <1>3, <1>4, <1>5, <1>7, <2>1, <2>2 DEF Linked, H!confirmed
<1>9. Wanting'
  BY <1>1, <1>2, <1>3, <1>4, <1>5, <1>7 DEF LeaseInv, LeaseTypes, Linked, Wanting, H!confirmed
<1> QED BY <1>1, <1>3, <1>4, <1>5, <1>6, <1>7, <1>8, <1>9, PanelMoves

\* Giving up leases marks them.
LEMMA Requesting ==
    ASSUME LeaseInv, NEW which, leases' = H!Requested(which),
           UNCHANGED <<now, commands, H!agent>>, LeaseTypes', Wanting'
    PROVE  LeaseInv'
<1>1. /\ DOMAIN leases' = DOMAIN leases
      /\ \A l \in DOMAIN leases :
          /\ leases'[l].profile = leases[l].profile /\ leases'[l].tokens = leases[l].tokens
          /\ leases'[l].expires = leases[l].expires /\ leases'[l].present = leases[l].present
          /\ leases'[l].cleanup = leases[l].cleanup /\ leases'[l].released = leases[l].released
          /\ leases[l].requested => leases'[l].requested
  BY LeaseTyped DEF LeaseInv, H!Requested, Lease
<1>2. Linked'
  BY <1>1 DEF LeaseInv, Linked, H!confirmed
<1> QED BY <1>1, <1>2, PanelMoves

\* A lease with the mark is a lease.
LEMMA RequestedTyped ==
    ASSUME LeaseTypes, NEW which
    PROVE  H!Requested(which) \in Seq(Lease) /\ Len(H!Requested(which)) = Len(leases)
<1>1. \A l \in DOMAIN leases : H!Requested(which)[l] \in Lease
  BY LeaseTyped DEF H!Requested, Lease
<1>2. DOMAIN H!Requested(which) = 1 .. Len(leases) /\ Len(leases) \in Nat
  BY LeaseTyped DEF H!Requested, LeaseTypes
<1>3. H!Requested(which) = [l \in DOMAIN leases |-> H!Requested(which)[l]]
  BY DEF H!Requested
<1> QED BY <1>1, <1>2, <1>3

\* obtain gives up the leases of its profile only.
LEMMA ObtainEndsKeeps ==
    ASSUME LeaseInv, NEW p \in Profile, H!obtain_ends(p)
    PROVE  LeaseInv'
<1>1. /\ leases' = H!Requested(H!Pending(p)) /\ UNCHANGED <<now, commands, H!agent>>
      /\ job' = [job EXCEPT ![p] = [pc |-> "idle", lease |-> 0]]
  BY DEF H!obtain_ends
<1>2. leases' \in Seq(Lease) /\ Len(leases') = Len(leases)
  BY <1>1, RequestedTyped DEF LeaseInv
<1>3. LeaseTypes'
  BY <1>1, <1>2 DEF LeaseInv, LeaseTypes, H!agent, H!CommandId
<1>4. \A l \in DOMAIN leases : leases[l].profile # p => leases'[l] = leases[l]
  BY <1>1 DEF H!Requested, H!Pending
<1>5. DOMAIN leases' = DOMAIN leases
  BY <1>1 DEF H!Requested
<1>6. Wanting'
  BY <1>1, <1>4, <1>5 DEF LeaseInv, LeaseTypes, Wanting, H!confirmed
<1> QED BY <1>1, <1>3, <1>6, Requesting

\* A panel that restarts gives up every lease.
LEMMA PanelRestartsKeeps == ASSUME LeaseInv, H!PanelRestarts PROVE LeaseInv'
<1>1. /\ leases' = H!Requested(DOMAIN leases) /\ UNCHANGED <<now, commands, H!agent>>
      /\ job' = [p \in Profile |-> [pc |-> "idle", lease |-> 0]]
  BY DEF H!PanelRestarts
<1>2. leases' \in Seq(Lease) /\ Len(leases') = Len(leases)
  BY <1>1, RequestedTyped DEF LeaseInv
<1>3. LeaseTypes'
  BY <1>1, <1>2 DEF LeaseInv, LeaseTypes, H!agent, H!CommandId
<1>4. Wanting'
  BY <1>1 DEF Wanting
<1> QED BY <1>1, <1>3, <1>4, Requesting

\* drain sends a removal, or records what the last one answered.
LEMMA DrainKeeps == ASSUME LeaseInv, NEW k \in H!LeaseId, H!drain(k) PROVE LeaseInv'
<1>1. /\ k \in DOMAIN leases /\ leases[k].requested /\ UNCHANGED <<now, job, H!agent>>
  BY DEF H!drain, H!Created, LeaseInv, LeaseTypes, H!LeaseId
<1>2. CASE /\ leases[k].cleanup # 0 /\ H!confirmed(leases[k].cleanup)
           /\ leases' = [leases EXCEPT ![k] = [@ EXCEPT !.released = TRUE]]
           /\ commands' = commands
  <2>1. /\ leases' \in Seq(Lease) /\ Len(leases') = Len(leases)
    <3>1. [leases[k] EXCEPT !.released = TRUE] \in Lease
      BY <1>1, LeaseTyped DEF LeaseInv, Lease
    <3> QED BY <1>1, <1>2, <3>1 DEF LeaseInv, LeaseTypes
  <2>2. LeaseTypes'
    BY <1>1, <1>2, <2>1 DEF LeaseInv, LeaseTypes, H!agent, H!CommandId
  <2>3. /\ DOMAIN leases' = DOMAIN leases
        /\ \A l \in DOMAIN leases :
          /\ leases'[l].profile = leases[l].profile /\ leases'[l].tokens = leases[l].tokens
          /\ leases'[l].expires = leases[l].expires /\ leases'[l].present = leases[l].present
          /\ leases'[l].cleanup = leases[l].cleanup /\ leases'[l].requested = leases[l].requested
          /\ l # k => leases'[l].released = leases[l].released
    BY <1>1, <1>2, LeaseTyped DEF LeaseInv, Lease
  <2>4. Linked'
    BY <1>2, <2>3 DEF LeaseInv, Linked, H!confirmed
  <2>5. Wanting'
    BY <1>1, <1>2, <2>3 DEF LeaseInv, Wanting, H!confirmed
  <2> QED BY <1>1, <1>2, <2>2, <2>3, <2>4, <2>5, PanelMoves
<1>3. CASE /\ leases' = [leases EXCEPT ![k] = [@ EXCEPT !.cleanup = Len(commands) + 1]]
           /\ commands' = Append(commands, [method |-> "DELETE", lease |-> k, status |-> "pending"])
           /\ ~(leases[k].cleanup # 0 /\ H!confirmed(leases[k].cleanup))
  <2> DEFINE m == Len(commands) + 1
             C == [method |-> "DELETE", lease |-> k, status |-> "pending"]
  <2>1. C \in Command /\ k \in Nat
    BY <1>1 DEF Command, H!LeaseId
  <2>2. /\ leases' \in Seq(Lease) /\ Len(leases') = Len(leases)
    <3>1. m \in Nat
      BY DEF LeaseInv, LeaseTypes
    <3>2. [leases[k] EXCEPT !.cleanup = m] \in Lease
      BY <1>1, <3>1, LeaseTyped DEF LeaseInv, Lease
    <3> QED BY <1>1, <1>3, <3>2 DEF LeaseInv, LeaseTypes
  <2>3. /\ commands' \in Seq(Command) /\ Len(commands') = m /\ DOMAIN commands' = 1 .. m
        /\ DOMAIN commands = 1 .. Len(commands) /\ Len(commands) \in Nat
        /\ commands'[m] = C /\ \A c \in DOMAIN commands : commands'[c] = commands[c]
    BY <1>3, <2>1 DEF LeaseInv, LeaseTypes
  <2>4. LeaseTypes'
    BY <1>1, <2>2, <2>3 DEF LeaseInv, LeaseTypes, H!agent, H!CommandId
  <2>5. /\ DOMAIN leases' = DOMAIN leases
        /\ \A l \in DOMAIN leases :
          /\ leases'[l].profile = leases[l].profile /\ leases'[l].tokens = leases[l].tokens
          /\ leases'[l].expires = leases[l].expires /\ leases'[l].present = leases[l].present
          /\ leases'[l].cleanup = IF l = k THEN m ELSE leases[l].cleanup
          /\ leases'[l].requested = leases[l].requested
          /\ leases'[l].released = leases[l].released
    BY <1>1, <1>3, LeaseTyped DEF LeaseInv, Lease
  <2>6. C.method = "DELETE" /\ C.lease = k /\ C.status = "pending"
    OBVIOUS
  <2> HIDE DEF C
  <2>7. Linked'
    BY <1>1, <1>3, <2>3, <2>5, <2>6 DEF LeaseInv, Linked, H!confirmed
  <2>8. Wanting'
    BY <1>1, <2>3, <2>5 DEF LeaseInv, Linked, Wanting, H!confirmed
  <2> QED BY <1>1, <2>3, <2>4, <2>5, <2>6, <2>7, <2>8, PanelMoves
<1> QED BY <1>2, <1>3 DEF H!drain

\* Nothing has happened to the node's store, and nothing was confirmed.
LEMMA StoreKept ==
    ASSUME LeaseInv, UNCHANGED <<now, leases, row, file>>, DOMAIN commands' = DOMAIN commands,
           \A c \in DOMAIN commands :
               /\ commands'[c].method = commands[c].method /\ commands'[c].lease = commands[c].lease
               /\ commands'[c].status = "succeeded" => commands[c].status = "succeeded"
    PROVE  StoreRows' /\ Served' /\ H!FilesOwned'
<1>1. StoreRows'
  BY DEF LeaseInv, StoreRows, H!Held, H!Tokens
<1>2. Served'
  BY DEF LeaseInv, Linked, Served, H!confirmed, H!Mode, H!Tokens, H!Expired
<1>3. H!FilesOwned'
  BY DEF LeaseInv, H!FilesOwned, H!Held, H!Tokens, H!Mode
<1> QED BY <1>1, <1>2, <1>3

\* A presentation that has expired is refused before it waits for the lock.
LEMMA TakeKeeps == ASSUME LeaseInv, NEW c \in H!CommandId, H!Take(c) PROVE LeaseInv'
<1>1. /\ UNCHANGED <<now, job, leases, row, file, op, listener, faults>>
      /\ c \notin taken /\ commands[c].status = "pending" /\ taken' = taken \cup {c}
      /\ checked' \in {checked, checked \cup {c}}
      /\ c \in checked' /\ commands[c].method = "PUT" => now < leases[commands[c].lease].expires
      /\ \/ commands' = commands
         \/ commands' = [commands EXCEPT ![c].status = "failed"] /\ checked' = checked
      /\ checked' = checked => commands' = [commands EXCEPT ![c].status = "failed"]
  BY DEF H!Take, LeaseInv, LeaseTypes
<1>2. /\ DOMAIN commands' = DOMAIN commands /\ c \in DOMAIN commands /\ commands' \in Seq(Command)
      /\ \A d \in DOMAIN commands :
          /\ commands'[d].method = commands[d].method /\ commands'[d].lease = commands[d].lease
          /\ commands'[d].status = "succeeded" <=> commands[d].status = "succeeded"
          /\ d # c \/ c \in checked' => commands'[d].status = commands[d].status
  <2>1. [commands[c] EXCEPT !.status = "failed"] \in Command
    BY LeaseTyped DEF LeaseInv, Command
  <2>2. CASE commands' = commands
    BY <1>1, <2>2, LeaseTyped DEF LeaseInv, LeaseTypes
  <2>3. CASE commands' = [commands EXCEPT ![c].status = "failed"] /\ checked' = checked
    <3>1. c \notin checked'
      BY <1>1, <2>3 DEF LeaseInv, LeaseTypes
    <3>3. c \in DOMAIN commands /\ commands[c] \in Command
      BY LeaseTyped DEF LeaseInv
    <3>2. commands' \in Seq(Command) /\ DOMAIN commands' = DOMAIN commands
      <4>1. commands \in Seq(Command) /\ c \in 1 .. Len(commands)
        BY <3>3 DEF LeaseInv, LeaseTypes
      <4>2. commands' = [commands EXCEPT ![c] = [commands[c] EXCEPT !.status = "failed"]]
        BY <2>3
      <4> QED BY <2>1, <4>1, <4>2
    <3>4. /\ commands'[c].method = commands[c].method /\ commands'[c].lease = commands[c].lease
          /\ commands'[c].status = "failed"
          /\ \A d \in DOMAIN commands : d # c => commands'[d] = commands[d]
      BY <2>3, <3>3 DEF Command
    <3> QED BY <1>1, <3>1, <3>2, <3>3, <3>4
  <2> QED BY <1>1, <2>2, <2>3
<1>3. LeaseTypes'
  BY <1>1, <1>2 DEF LeaseInv, LeaseTypes, H!CommandId
<1>4. Linked' /\ Wanting'
  BY <1>1, <1>2, Answered
<1>5. StoreRows' /\ Served' /\ H!FilesOwned'
  BY <1>1, <1>2, StoreKept
<1>6. Working'
  <2>1. \A d \in checked' : commands'[d].status = "pending"
    BY <1>1, <1>2 DEF LeaseInv, LeaseTypes, Working, H!CommandId
  <2>2. op.kind \in {"present", "release"} =>
          /\ op.cmd \in DOMAIN commands /\ op.cmd # c /\ op.cmd \in taken' \ checked'
          /\ commands'[op.cmd].status = "pending"
    BY <1>1, <1>2 DEF LeaseInv, LeaseTypes, Working, H!CommandId
  <2> QED BY <1>1, <1>2, <2>1, <2>2 DEF LeaseInv, Working
<1>7. Sweeping'
  BY <1>1 DEF LeaseInv, Sweeping, H!Expired
<1>8. Early'
  <2>1. \A l \in DOMAIN leases :
          \/ leases[l].present \notin taken' \/ leases[l].present \in checked'
          \/ op.cmd = leases[l].present /\ op.pc \in {"sweep", "guard"}
          => row[l] \in {"absent", "released"}
    BY <1>1 DEF LeaseInv, Early
  <2>2. ASSUME NEW d \in checked', commands'[d].method = "PUT"
        PROVE  now <= leases[commands'[d].lease].expires + Keep
    <3>1. d \in DOMAIN commands /\ commands[d].method = "PUT" /\ commands'[d].lease = commands[d].lease
      BY <1>1, <1>2, <2>2 DEF LeaseInv, LeaseTypes, H!CommandId
    <3>2. CASE d = c
      <4>1. leases[commands[c].lease] \in Lease /\ now < leases[commands[c].lease].expires
        BY <1>1, <2>2, <3>1, <3>2, LeaseTyped DEF LeaseInv, Linked
      <4>2. now \in Nat /\ Keep \in Nat /\ leases[commands[c].lease].expires \in Nat
        BY <4>1, LeaseAssumption DEF LeaseInv, LeaseTypes, Lease
      <4>3. now <= leases[commands[c].lease].expires + Keep
        BY <4>1, <4>2
      <4> QED BY <3>1, <3>2, <4>3
    <3>3. CASE d # c
      BY <1>1, <2>2, <3>1, <3>3 DEF LeaseInv, Early
    <3> QED BY <3>2, <3>3
  <2> QED BY <1>1, <2>1, <2>2 DEF LeaseInv, Early
<1>9. Gone'
  BY <1>1, <1>2 DEF LeaseInv, Gone
<1> QED BY <1>3, <1>4, <1>5, <1>6, <1>7, <1>8, <1>9 DEF LeaseInv

\* What the agent was running or held is answered as failed.
LEMMA AgentRestartsKeeps == ASSUME LeaseInv, H!AgentRestarts PROVE LeaseInv'
<1>1. /\ UNCHANGED <<now, job, leases, taken, row, file>> /\ op' = H!Idle /\ checked' = {}
      /\ commands' = [c \in H!CommandId |->
                        IF c \in checked \/ c = op.cmd THEN [commands[c] EXCEPT !.status = "failed"]
                        ELSE commands[c]]
  BY DEF H!AgentRestarts
<1>2. \A c \in H!CommandId : c \in checked \/ c = op.cmd => commands[c].status = "pending"
  BY DEF LeaseInv, LeaseTypes, Working, H!CommandId
<1>3. /\ DOMAIN commands' = DOMAIN commands
      /\ \A d \in DOMAIN commands :
          /\ commands'[d].method = commands[d].method /\ commands'[d].lease = commands[d].lease
          /\ commands'[d].status = "succeeded" <=> commands[d].status = "succeeded"
  BY <1>1, <1>2, LeaseTyped DEF LeaseInv, Command
<1>4. commands' \in Seq(Command) /\ Len(commands') = Len(commands)
  <2>1. \A c \in H!CommandId : commands'[c] \in Command
    BY <1>1, LeaseTyped DEF LeaseInv, Command
  <2>2. Len(commands) \in Nat
    BY DEF LeaseInv, LeaseTypes
  <2> QED BY <1>1, <2>1, <2>2 DEF H!CommandId
<1>5. LeaseTypes'
  BY <1>1, <1>4 DEF LeaseInv, LeaseTypes, H!CommandId, H!Idle
<1>6. Linked' /\ Wanting'
  BY <1>1, <1>3, Answered
<1>7. StoreRows' /\ Served' /\ H!FilesOwned'
  BY <1>1, <1>3, StoreKept
<1>8. Working' /\ Sweeping'
  BY <1>1 DEF Working, Sweeping, H!Idle
<1>9. Early'
  BY <1>1 DEF LeaseInv, Linked, LeaseTypes, H!CommandId, Early, H!Idle
<1>10. Gone'
  BY <1>1, <1>3 DEF LeaseInv, Gone, H!Idle
<1> QED BY <1>5, <1>6, <1>7, <1>8, <1>9, <1>10 DEF LeaseInv

\* Whoever takes the lock first sweeps what it has to.
LEMMA EnterKeeps ==
    ASSUME LeaseInv, NEW c \in checked \cup {0}, NEW kind, NEW todo \in SUBSET H!LeaseId,
           H!Enter(c, kind, todo),
           \/ kind = "run" /\ c = 0
           \/ kind = "present" /\ c \in checked /\ commands[c].method = "PUT"
           \/ kind = "release" /\ c \in checked /\ commands[c].method = "DELETE",
           kind # "release" => \A l \in todo : l \in DOMAIN leases /\ H!Expired(l),
           kind = "release" => todo = {commands[c].lease}
    PROVE  LeaseInv'
<1>1. /\ UNCHANGED <<now, job, leases, commands, taken, row, file>> /\ checked' = checked \ {c}
      /\ op = H!Idle
      /\ op' = [kind |-> kind, cmd |-> c, lease |-> IF c = 0 THEN 0 ELSE commands[c].lease,
                pc |-> IF todo = {} THEN "guard" ELSE "sweep", todo |-> todo, rel |-> 0, bad |-> FALSE]
  BY DEF H!Enter, H!panel
<1>2. checked \subseteq H!CommandId /\ 0 \notin H!CommandId /\ checked \subseteq taken
  BY DEF LeaseInv, LeaseTypes, H!CommandId
<1>3. \A d \in H!CommandId : commands[d].lease \in DOMAIN leases
  BY LeaseTyped DEF LeaseInv, Linked
<1>4. c \in Nat /\ (c # 0 => c \in checked /\ commands[c].lease \in Nat)
  BY <1>2, LeaseTyped DEF LeaseInv, Command, H!CommandId
<1>5. LeaseTypes'
  BY <1>1, <1>4 DEF LeaseInv, LeaseTypes, H!CommandId
<1>6. Linked' /\ Wanting'
  BY <1>1, Answered
<1>7. StoreRows' /\ Served' /\ H!FilesOwned'
  BY <1>1, StoreKept
<1>8. Working'
  BY <1>1, <1>2 DEF LeaseInv, Working
<1>9. Sweeping'
  BY <1>1, <1>2, <1>4 DEF Sweeping, H!Expired
<1>10. Early'
  <2>1. \A l \in DOMAIN leases :
          \/ leases[l].present \notin taken' \/ leases[l].present \in checked'
          \/ op'.cmd = leases[l].present /\ op'.pc \in {"sweep", "guard"}
          => row[l] \in {"absent", "released"}
    <3> SUFFICES ASSUME NEW l \in DOMAIN leases,
                        \/ leases[l].present \notin taken' \/ leases[l].present \in checked'
                        \/ op'.cmd = leases[l].present
                 PROVE  row[l] \in {"absent", "released"}
      OBVIOUS
    <3>1. leases[l].present \in H!CommandId
      BY LeaseTyped DEF LeaseInv, Linked
    <3> QED BY <1>1, <1>2, <3>1 DEF LeaseInv, Early
  <2>2. kind = "present" => now <= leases[op'.lease].expires + Keep
    BY <1>1, <1>2, <1>4 DEF LeaseInv, Early
  <2> QED BY <1>1, <2>1, <2>2 DEF LeaseInv, Early
<1>11. Gone'
  BY <1>1 DEF LeaseInv, Gone
<1> QED BY <1>5, <1>6, <1>7, <1>8, <1>9, <1>10, <1>11 DEF LeaseInv

\* The three who take it.
LEMMA EntersKeep ==
    ASSUME LeaseInv,
           H!run \/ \E c \in H!CommandId : H!PresentEnters(c) \/ H!ReleaseEnters(c)
    PROVE  LeaseInv'
<1>1. H!ExpiredHeld \in SUBSET H!LeaseId /\ \A l \in H!ExpiredHeld : l \in DOMAIN leases /\ H!Expired(l)
  BY DEF H!ExpiredHeld, H!Held, LeaseInv, StoreRows
<1>2. CASE H!run
  BY <1>1, <1>2, EnterKeeps DEF H!run
<1>3. ASSUME NEW c \in H!CommandId, H!PresentEnters(c) PROVE LeaseInv'
  BY <1>1, <1>3, EnterKeeps DEF H!PresentEnters
<1>4. ASSUME NEW c \in H!CommandId, H!ReleaseEnters(c) PROVE LeaseInv'
  <2>1. {commands[c].lease} \in SUBSET H!LeaseId
    BY LeaseTyped DEF LeaseInv, Linked
  <2> QED BY <1>4, <2>1, EnterKeeps DEF H!ReleaseEnters
<1> QED BY <1>2, <1>3, <1>4

\* A released lease is forgotten only when no presentation of it can come any more.
LEMMA Forgetting ==
    ASSUME LeaseInv, NEW l \in H!LeaseId
    PROVE  /\ H!Forgotten(row)[l] \in {"absent", "preparing", "ready", "releasing", "released"}
           /\ H!Forgotten(row)[l] # row[l] =>
                /\ row[l] = "released" /\ H!Forgotten(row)[l] = "absent"
                /\ l \in DOMAIN leases /\ leases[l].expires + Keep < now
           /\ row[l] = "released" => leases[l].expires + Keep < now \/ H!Forgotten(row)[l] = "released"
  BY DEF H!Forgotten, LeaseInv, LeaseTypes, StoreRows

\* The node's store after it has forgotten such leases.
LEMMA StoreForgets ==
    ASSUME LeaseInv, UNCHANGED <<now, leases, file>>, row' = H!Forgotten(row),
           DOMAIN commands' = DOMAIN commands,
           \A c \in DOMAIN commands :
               /\ commands'[c].method = commands[c].method /\ commands'[c].lease = commands[c].lease
               /\ commands'[c].status = "succeeded" => commands[c].status = "succeeded"
    PROVE  StoreRows' /\ Served' /\ H!FilesOwned'
<1>1. H!Held' = H!Held
  BY Forgetting DEF H!Held
<1>2. StoreRows'
  BY <1>1, Forgetting DEF LeaseInv, StoreRows, H!Tokens
<1>3. Served'
  <2>1. ASSUME NEW l \in DOMAIN leases, row[l] = "ready" PROVE row'[l] = "ready"
    BY <2>1, LeaseTyped, Forgetting DEF LeaseInv
  <2> QED BY <2>1 DEF LeaseInv, Linked, Served, H!confirmed, H!Mode, H!Tokens, H!Expired
<1>4. H!FilesOwned'
  BY <1>1 DEF LeaseInv, H!FilesOwned, H!Tokens, H!Mode
<1> QED BY <1>2, <1>3, <1>4

\* A turn of run with nothing to do.
LEMMA RunIdleKeeps == ASSUME LeaseInv, H!run_idle PROVE LeaseInv'
<1>1. /\ UNCHANGED <<now, job, leases, commands, taken, checked, file, op>>
      /\ op = H!Idle /\ row' = H!Forgotten(row)
  BY DEF H!run_idle, H!panel
<1>2. LeaseTypes'
  BY <1>1, Forgetting DEF LeaseInv, LeaseTypes, H!CommandId, H!Forgotten
<1>3. Linked' /\ Wanting'
  BY <1>1, Answered
<1>4. StoreRows' /\ Served' /\ H!FilesOwned'
  BY <1>1, StoreForgets
<1>5. Working' /\ Sweeping'
  BY <1>1 DEF LeaseInv, Working, Sweeping, H!Idle
<1>6. Early'
  BY <1>1, LeaseTyped, Forgetting DEF LeaseInv, Early
<1>7. Gone'
  <2>1. \A c \in DOMAIN commands : commands[c].lease \in H!LeaseId
    BY LeaseTyped DEF LeaseInv, Linked
  <2> QED BY <1>1, <2>1, Forgetting DEF LeaseInv, Gone
<1> QED BY <1>2, <1>3, <1>4, <1>5, <1>6, <1>7 DEF LeaseInv

\* What is being released was never presented, is expired, or was given up.
LEMMA ReleasingWhy ==
    ASSUME LeaseInv, NEW l \in H!LeaseId, H!Releasing(l)
    PROVE  /\ l \in DOMAIN leases /\ op.kind \in {"run", "present", "release"}
           /\ ~(H!confirmed(leases[l].present) /\ ~leases[l].requested /\ ~H!Expired(l))
<1>1. l \in op.todo /\ op.pc \in {"sweep", "undo"}
  BY DEF H!Releasing
<1>2. CASE op.pc = "sweep" /\ op.kind \in {"run", "present"}
  BY <1>1, <1>2 DEF LeaseInv, Sweeping
<1>3. CASE op.pc = "sweep" /\ op.kind = "release"
  <2>1. l = op.lease /\ op.cmd \in DOMAIN commands
    BY <1>1, <1>3, LeaseTyped DEF LeaseInv, LeaseTypes, Sweeping, Working
  <2>2. commands[op.cmd].method = "DELETE" /\ commands[op.cmd].lease = l
    BY <1>3, <2>1 DEF LeaseInv, Working
  <2> QED BY <1>3, <2>1, <2>2 DEF LeaseInv, Linked
<1>4. CASE op.pc = "undo"
  <2>1. l = op.lease /\ op.kind = "present" /\ op.cmd \in DOMAIN commands
    BY <1>1, <1>4, LeaseTyped DEF LeaseInv, LeaseTypes, Sweeping, Working
  <2>2. /\ commands[op.cmd].method = "PUT" /\ commands[op.cmd].lease = l
        /\ commands[op.cmd].status = "pending"
    BY <2>1 DEF LeaseInv, Working
  <2> QED BY <2>1, <2>2 DEF LeaseInv, Linked, H!confirmed
<1> QED BY <1>1, <1>2, <1>3, <1>4 DEF LeaseInv, LeaseTypes, Sweeping

\* A step of a release changes the row and the todo list of one lease.
LEMMA ReleaseMoves ==
    ASSUME LeaseInv, NEW l \in H!LeaseId, H!Releasing(l),
           UNCHANGED <<now, H!panel, taken, checked>>, file' \subseteq file,
           NEW s \in {"releasing", "released"}, row' = [row EXCEPT ![l] = s],
           op'.kind = op.kind, op'.cmd = op.cmd, op'.lease = op.lease, op'.todo \subseteq op.todo,
           op'.pc = op.pc \/ (op.pc = "sweep" /\ op.todo = {l} /\ op'.pc = "guard"),
           LeaseTypes',
           op'.rel # 0 => op'.rel = l /\ s = "releasing" /\ op' = [op EXCEPT !.rel = l],
           op'.pc = "sweep" /\ op.kind = "release" => op'.todo = {op.lease},
           op'.pc = "guard" /\ op.kind = "release" /\ ~op'.bad => s = "released",
           s = "releasing" => row[l] \notin {"absent", "released"},
           H!FilesOwned',
           \A k \in DOMAIN leases :
               k # l /\ row[k] = "ready" /\ H!Mode(k) = "webroot" /\ H!Tokens(k) \subseteq file
               => H!Tokens(k) \subseteq file'
    PROVE  LeaseInv'
<1>1. /\ UNCHANGED <<now, job, leases, commands, taken, checked>>
      /\ row'[l] = s /\ \A k \in H!LeaseId \ {l} : row'[k] = row[k]
  BY DEF H!panel, LeaseInv, LeaseTypes
<1>2. l \in DOMAIN leases /\ l \in op.todo /\ op.pc \in {"sweep", "undo"} /\ l # 0
  BY ReleasingWhy DEF H!Releasing, H!LeaseId
<1>3. Linked' /\ Wanting'
  BY <1>1, Answered
<1>4. Working'
  BY <1>1, <1>2 DEF LeaseInv, Working, Sweeping
<1>5. Sweeping'
  <2>1. op'.rel # 0 => op'.rel \in op'.todo /\ op'.pc \in {"sweep", "undo"} /\ row'[op'.rel] = "releasing"
    BY <1>1, <1>2 DEF LeaseInv, LeaseTypes
  <2>2. op'.pc = "guard" /\ op'.kind = "release" /\ ~op'.bad => row'[op'.lease] = "released"
    BY <1>1, <1>2 DEF LeaseInv, Sweeping
  <2> QED BY <1>1, <1>2, <2>1, <2>2 DEF LeaseInv, Sweeping, H!Expired
<1>6. Early'
  BY <1>1, <1>2, LeaseTyped DEF LeaseInv, Early
<1>7. StoreRows'
  <2>1. H!Held' \subseteq H!Held \/ (H!Held' \subseteq H!Held \cup {l} /\ s = "releasing")
    BY <1>1 DEF H!Held
  <2>2. H!Held' \subseteq H!Held
    BY <1>1, <2>1 DEF H!Held, LeaseInv, LeaseTypes
  <2> QED BY <1>1, <1>2, <2>2 DEF LeaseInv, StoreRows, H!Tokens
<1>8. Gone'
  BY <1>1, <1>2, LeaseTyped DEF LeaseInv, Gone, Linked
<1>9. Served'
  <2> SUFFICES ASSUME NEW k \in DOMAIN leases, H!confirmed(leases[k].present), ~leases[k].requested,
                      ~H!Expired(k)
               PROVE  row'[k] = "ready" /\ (H!Mode(k) = "webroot" => H!Tokens(k) \subseteq file')
    BY <1>1 DEF Served, H!confirmed, H!Expired, H!Mode, H!Tokens
  <2>1. row[k] = "ready" /\ (H!Mode(k) = "webroot" => H!Tokens(k) \subseteq file)
    BY DEF LeaseInv, Served
  <2>2. k # l /\ k \in H!LeaseId
    BY ReleasingWhy, LeaseTyped DEF LeaseInv
  <2> QED BY <1>1, <2>1, <2>2
<1> QED BY <1>3, <1>4, <1>5, <1>6, <1>7, <1>8, <1>9 DEF LeaseInv

\* The first transaction of _release.
LEMMA ReleaseMarksKeeps ==
    ASSUME LeaseInv, NEW l \in H!LeaseId, H!ReleaseMarks(l)
    PROVE  LeaseInv'
<1>1. /\ H!Releasing(l) /\ op.rel = 0 /\ UNCHANGED <<now, H!panel, taken, checked, file>>
      /\ l \in op.todo /\ l # 0 /\ op.pc \in {"sweep", "undo"}
  BY DEF H!ReleaseMarks, H!Releasing, H!LeaseId
<1>2. CASE row[l] \in {"absent", "released"}
  <2>1. /\ row' = [row EXCEPT ![l] = "released"]
        /\ op' = [op EXCEPT !.todo = @ \ {l}, !.rel = 0, !.bad = @ \/ FALSE,
                            !.pc = IF op.pc = "sweep" /\ op.todo = {l} THEN "guard" ELSE @]
    BY <1>2 DEF H!ReleaseMarks, H!Tombstone, H!ReleaseDone
  <2>2. LeaseTypes'
    BY <1>1, <2>1 DEF LeaseInv, LeaseTypes, H!panel, H!CommandId
  <2>3. /\ op'.kind = op.kind /\ op'.cmd = op.cmd /\ op'.lease = op.lease /\ op'.rel = 0
        /\ op'.todo = op.todo \ {l}
        /\ op'.pc = IF op.pc = "sweep" /\ op.todo = {l} THEN "guard" ELSE op.pc
    BY <2>1 DEF LeaseInv, LeaseTypes
  <2>4. op'.pc = "sweep" /\ op.kind = "release" => op'.todo = {op.lease}
    BY <1>1, <2>3 DEF LeaseInv, Sweeping
  <2>5. H!FilesOwned'
    BY <1>1, <1>2, <2>1 DEF LeaseInv, LeaseTypes, H!FilesOwned, H!Held, H!Mode, H!Tokens, H!panel
  <2> QED BY <1>1, <2>1, <2>2, <2>3, <2>4, <2>5, ReleaseMoves
<1>3. CASE row[l] \notin {"absent", "released"}
  <2>1. row' = [row EXCEPT ![l] = "releasing"] /\ op' = [op EXCEPT !.rel = l]
    BY <1>3 DEF H!ReleaseMarks
  <2>2. LeaseTypes'
    <3>1. l \in Nat
      BY LeaseAssumption DEF H!LeaseId
    <3> QED BY <1>1, <2>1, <3>1 DEF LeaseInv, LeaseTypes, H!panel, H!CommandId
  <2>3. /\ op'.kind = op.kind /\ op'.cmd = op.cmd /\ op'.lease = op.lease /\ op'.rel = l
        /\ op'.todo = op.todo /\ op'.pc = op.pc
    BY <2>1 DEF LeaseInv, LeaseTypes
  <2>4. op'.pc = "sweep" /\ op.kind = "release" => op'.todo = {op.lease}
    BY <1>1, <2>3 DEF LeaseInv, Sweeping
  <2>5. H!FilesOwned'
    BY <1>1, <1>3, <2>1 DEF LeaseInv, LeaseTypes, H!FilesOwned, H!Held, H!Mode, H!Tokens, H!panel
  <2> QED BY <1>1, <1>3, <2>1, <2>2, <2>3, <2>4, <2>5, ReleaseMoves
<1> QED BY <1>2, <1>3

\* The end of the release of one lease.
LEMMA ReleaseEndsKeeps ==
    ASSUME LeaseInv, NEW l \in H!LeaseId, H!ReleaseEnds(l)
    PROVE  LeaseInv'
<1>1. /\ H!Releasing(l) /\ op.rel = l /\ UNCHANGED <<now, H!panel, taken, checked, file>>
      /\ l \in op.todo /\ op.pc \in {"sweep", "undo"}
      /\ row' = [row EXCEPT ![l] = "released"]
      /\ H!Mode(l) = "webroot" => H!Tokens(l) \cap file = {}
      /\ op' = [op EXCEPT !.todo = @ \ {l}, !.rel = 0, !.bad = @ \/ FALSE,
                          !.pc = IF op.pc = "sweep" /\ op.todo = {l} THEN "guard" ELSE @]
  BY DEF H!ReleaseEnds, H!Releasing, H!ReleaseDone
<1>2. LeaseTypes'
  BY <1>1 DEF LeaseInv, LeaseTypes, H!panel, H!CommandId
<1>3. /\ op'.kind = op.kind /\ op'.cmd = op.cmd /\ op'.lease = op.lease /\ op'.rel = 0
      /\ op'.todo = op.todo \ {l}
      /\ op'.pc = IF op.pc = "sweep" /\ op.todo = {l} THEN "guard" ELSE op.pc
  BY <1>1 DEF LeaseInv, LeaseTypes
<1>4. op'.pc = "sweep" /\ op.kind = "release" => op'.todo = {op.lease}
  BY <1>1, <1>3 DEF LeaseInv, Sweeping
<1>5. H!FilesOwned'
  BY <1>1 DEF LeaseInv, LeaseTypes, H!FilesOwned, H!Held, H!Mode, H!Tokens, H!panel
<1> QED BY <1>1, <1>2, <1>3, <1>4, <1>5, ReleaseMoves

\* A challenge file that was changed outside its lease keeps the lease.
LEMMA ReleaseFailsKeeps ==
    ASSUME LeaseInv, NEW l \in H!LeaseId, H!ReleaseFails(l)
    PROVE  LeaseInv'
<1>1. /\ H!Releasing(l) /\ op.rel = l /\ UNCHANGED <<now, H!panel, taken, checked, row, file>>
      /\ l \in op.todo /\ op.pc \in {"sweep", "undo"} /\ l # 0
      /\ op' = [op EXCEPT !.todo = @ \ {l}, !.rel = 0, !.bad = @ \/ TRUE,
                          !.pc = IF op.pc = "sweep" /\ op.todo = {l} THEN "guard" ELSE @]
  BY DEF H!ReleaseFails, H!Releasing, H!ReleaseDone, H!LeaseId
<1>2. LeaseTypes'
  BY <1>1 DEF LeaseInv, LeaseTypes, H!panel, H!CommandId
<1>3. /\ op'.kind = op.kind /\ op'.cmd = op.cmd /\ op'.lease = op.lease /\ op'.rel = 0
      /\ op'.todo = op.todo \ {l} /\ op'.bad = TRUE
      /\ op'.pc = IF op.pc = "sweep" /\ op.todo = {l} THEN "guard" ELSE op.pc
  BY <1>1 DEF LeaseInv, LeaseTypes
<1>4. op'.pc = "sweep" /\ op.kind = "release" => op'.todo = {op.lease}
  BY <1>1, <1>3 DEF LeaseInv, Sweeping
<1>5. row[l] = "releasing" /\ row' = [row EXCEPT ![l] = "releasing"]
  BY <1>1 DEF LeaseInv, LeaseTypes, Sweeping
<1>6. H!FilesOwned'
  BY <1>1 DEF LeaseInv, H!FilesOwned, H!Held, H!Mode, H!Tokens, H!panel
<1> QED BY <1>1, <1>2, <1>3, <1>4, <1>5, <1>6, ReleaseMoves

\* One file goes; no lease that is served shares it.
LEMMA ReleaseRemovesKeeps ==
    ASSUME LeaseInv, NEW l \in H!LeaseId, NEW t \in Token, H!ReleaseRemoves(l, t)
    PROVE  LeaseInv'
<1>1. /\ H!Releasing(l) /\ op.rel = l /\ UNCHANGED <<now, H!panel, taken, checked, row, op>>
      /\ l \in op.todo /\ op.pc \in {"sweep", "undo"} /\ l # 0
      /\ file' = file \ {t} /\ t \in H!Tokens(l)
  BY DEF H!ReleaseRemoves, H!Releasing, H!LeaseId
<1>2. LeaseTypes'
  BY <1>1 DEF LeaseInv, LeaseTypes, H!panel, H!CommandId
<1>3. row[l] = "releasing" /\ row' = [row EXCEPT ![l] = "releasing"] /\ op' = [op EXCEPT !.rel = l]
  BY <1>1 DEF LeaseInv, LeaseTypes, Sweeping
<1>4. op.pc = "sweep" /\ op.kind = "release" => op'.todo = {op.lease}
  BY <1>1 DEF LeaseInv, Sweeping
<1>5. H!FilesOwned'
  BY <1>1 DEF LeaseInv, H!FilesOwned, H!Held, H!Mode, H!Tokens, H!panel
<1>6. \A k \in DOMAIN leases : k # l /\ row[k] = "ready" => t \notin H!Tokens(k)
  BY <1>1, <1>3, LeaseTyped DEF LeaseInv, StoreRows, H!Held
<1>7. /\ op'.kind = op.kind /\ op'.cmd = op.cmd /\ op'.lease = op.lease /\ op'.rel = l
      /\ op'.todo = op.todo /\ op'.pc = op.pc /\ file' \subseteq file
  BY <1>1
<1>8. \A k \in DOMAIN leases :
        k # l /\ row[k] = "ready" /\ H!Mode(k) = "webroot" /\ H!Tokens(k) \subseteq file
        => H!Tokens(k) \subseteq file'
  BY <1>1, <1>6
<1>9. op'.pc # "guard" /\ row[l] \notin {"absent", "released"}
  BY <1>1, <1>3
<1> QED BY <1>1, <1>2, <1>3, <1>4, <1>5, <1>7, <1>8, <1>9, ReleaseMoves

\* A command is answered when its turn under the lock is over.
LEMMA AnswerMoves ==
    ASSUME LeaseInv, op.kind \in {"present", "release"}, NEW s \in {"succeeded", "failed"},
           H!Answer(op.cmd, s), op' = H!Idle, UNCHANGED <<now, job, leases, taken, checked>>,
           row' \in [H!LeaseId -> {"absent", "preparing", "ready", "releasing", "released"}],
           file' \subseteq Token
    PROVE  /\ LeaseTypes' /\ Linked' /\ Wanting' /\ Working' /\ Sweeping'
           /\ DOMAIN commands' = DOMAIN commands /\ op.cmd \in DOMAIN commands
           /\ op.lease \in DOMAIN leases /\ op.lease = commands[op.cmd].lease
           /\ commands[op.cmd].method = IF op.kind = "present" THEN "PUT" ELSE "DELETE"
           /\ commands[op.cmd].status = "pending" /\ commands'[op.cmd].status = s
           /\ \A c \in DOMAIN commands :
               /\ commands'[c].method = commands[c].method /\ commands'[c].lease = commands[c].lease
               /\ c # op.cmd => commands'[c].status = commands[c].status
           /\ op'.kind = "none" /\ op'.lease = 0 /\ op'.pc = "none" /\ op'.cmd = 0
<1>1. /\ op.cmd \in H!CommandId /\ op.cmd \in taken \ checked /\ commands[op.cmd].status = "pending"
      /\ op.lease = commands[op.cmd].lease
      /\ commands[op.cmd].method = IF op.kind = "present" THEN "PUT" ELSE "DELETE"
  BY DEF LeaseInv, LeaseTypes, Working
<1>2. DOMAIN commands = H!CommandId /\ commands[op.cmd] \in Command /\ op.lease \in DOMAIN leases
  BY <1>1, LeaseTyped DEF LeaseInv, Linked
<1> DEFINE C == [commands[op.cmd] EXCEPT !.status = s]
<1>3. C \in Command /\ C.method = commands[op.cmd].method /\ C.lease = commands[op.cmd].lease /\ C.status = s
  BY <1>2 DEF Command
<1>4. commands' = [commands EXCEPT ![op.cmd] = C]
  BY DEF H!Answer
<1> HIDE DEF C
<1>5. commands' \in Seq(Command) /\ Len(commands') = Len(commands) /\ DOMAIN commands' = DOMAIN commands
  <2>1. commands \in Seq(Command) /\ op.cmd \in 1 .. Len(commands)
    BY <1>1 DEF LeaseInv, LeaseTypes, H!CommandId
  <2> QED BY <1>3, <1>4, <2>1
<1>6. /\ commands'[op.cmd] = C
      /\ \A c \in DOMAIN commands : c # op.cmd => commands'[c] = commands[c]
  BY <1>1, <1>2, <1>4
<1>7. LeaseTypes'
  BY <1>5 DEF LeaseInv, LeaseTypes, H!CommandId, H!Idle
<1>8. Linked' /\ Wanting'
  BY <1>1, <1>3, <1>5, <1>6, Answered
<1>9. Working' /\ Sweeping'
  <2>1. /\ op'.kind = "none" /\ op'.cmd = 0 /\ op'.lease = 0 /\ op'.pc = "none"
        /\ op'.todo = {} /\ op'.rel = 0
    BY DEF H!Idle
  <2>2. \A c \in checked : c \in DOMAIN commands /\ c # op.cmd /\ commands[c].status = "pending"
    BY <1>1, <1>2 DEF LeaseInv, LeaseTypes, Working
  <2>3. Working'
    BY <1>6, <2>1, <2>2 DEF Working
  <2> QED BY <2>1, <2>3 DEF Sweeping
<1> QED BY <1>1, <1>2, <1>3, <1>5, <1>6, <1>7, <1>8, <1>9 DEF H!Idle

\* A removal is confirmed once the lease is gone.
LEMMA ReleaseAnswersKeeps == ASSUME LeaseInv, H!ReleaseAnswers PROVE LeaseInv'
<1>1. PICK s \in {"succeeded", "failed"} :
        /\ op.kind = "release" /\ op.pc = "guard" /\ op' = H!Idle /\ H!Answer(op.cmd, s)
        /\ s = "succeeded" => ~op.bad
        /\ UNCHANGED <<now, job, leases, taken, checked, row, file>>
  BY DEF H!ReleaseAnswers
<1>2. row' \in [H!LeaseId -> {"absent", "preparing", "ready", "releasing", "released"}] /\ file' \subseteq Token
  BY <1>1 DEF LeaseInv, LeaseTypes
<1>3. /\ LeaseTypes' /\ Linked' /\ Wanting' /\ Working' /\ Sweeping'
      /\ DOMAIN commands' = DOMAIN commands /\ op.cmd \in DOMAIN commands
      /\ op.lease = commands[op.cmd].lease /\ commands[op.cmd].method = "DELETE"
      /\ \A c \in DOMAIN commands :
          /\ commands'[c].method = commands[c].method /\ commands'[c].lease = commands[c].lease
          /\ c # op.cmd => commands'[c].status = commands[c].status
      /\ op'.kind = "none" /\ op'.lease = 0 /\ op'.pc = "none" /\ op'.cmd = 0
      /\ commands'[op.cmd].status = s
  BY <1>1, <1>2, AnswerMoves
<1>4. StoreRows'
  BY <1>1 DEF LeaseInv, StoreRows, H!Held, H!Tokens
<1>5. Served'
  <2>1. \A l \in DOMAIN leases : leases[l].present \in DOMAIN commands /\ leases[l].present # op.cmd
    BY <1>3 DEF LeaseInv, Linked
  <2>2. \A l \in DOMAIN leases : H!confirmed(leases[l].present)' => H!confirmed(leases[l].present)
    BY <1>1, <1>3, <2>1 DEF H!confirmed
  <2> QED BY <1>1, <2>2 DEF LeaseInv, Served, H!Mode, H!Tokens, H!Expired
<1>6. H!FilesOwned'
  BY <1>1 DEF LeaseInv, H!FilesOwned, H!Held, H!Tokens, H!Mode
<1>7. Early'
  <2>1. \A l \in DOMAIN leases : leases[l].present # 0
    BY LeaseTyped DEF LeaseInv, Linked, H!CommandId
  <2>2. \A c \in checked : c \in DOMAIN commands
    BY LeaseTyped DEF LeaseInv, LeaseTypes
  <2> QED BY <1>1, <1>3, <2>1, <2>2 DEF LeaseInv, Early
<1>8. Gone'
  BY <1>1, <1>3 DEF LeaseInv, Sweeping, Gone
<1> QED BY <1>3, <1>4, <1>5, <1>6, <1>7, <1>8 DEF LeaseInv

\* The end of a sweep of run.
LEMMA RunEndsKeeps == ASSUME LeaseInv, H!run_ends PROVE LeaseInv'
<1>1. /\ UNCHANGED <<now, job, leases, commands, taken, checked, file>>
      /\ op.kind = "run" /\ op' = H!Idle /\ row' = H!Forgotten(row)
  BY DEF H!run_ends, H!panel
<1>2. LeaseTypes'
  BY <1>1, Forgetting DEF LeaseInv, LeaseTypes, H!CommandId, H!Forgotten, H!Idle
<1>3. Linked' /\ Wanting'
  BY <1>1, Answered
<1>4. StoreRows' /\ Served' /\ H!FilesOwned'
  BY <1>1, StoreForgets
<1>5. Working' /\ Sweeping'
  BY <1>1 DEF LeaseInv, Working, Sweeping, H!Idle
<1>6. Early'
  <2>1. \A l \in DOMAIN leases : leases[l].present # 0
    BY LeaseTyped DEF LeaseInv, Linked, H!CommandId
  <2> QED BY <1>1, <2>1, LeaseTyped, Forgetting DEF LeaseInv, Early, H!Idle
<1>7. Gone'
  <2>1. \A c \in DOMAIN commands : commands[c].lease \in H!LeaseId
    BY LeaseTyped DEF LeaseInv, Linked
  <2> QED BY <1>1, <2>1, Forgetting DEF LeaseInv, Gone, H!Idle
<1> QED BY <1>2, <1>3, <1>4, <1>5, <1>6, <1>7 DEF LeaseInv

\* A refusal forgets old leases and answers.
LEMMA PresentRefusedKeeps == ASSUME LeaseInv, H!PresentRefused PROVE LeaseInv'
<1>1. /\ op.kind = "present" /\ op' = H!Idle /\ H!Answer(op.cmd, "failed") /\ row' = H!Forgotten(row)
      /\ UNCHANGED <<now, job, leases, taken, checked, file>>
  BY DEF H!PresentRefused, H!Refuse
<1>2. row' \in [H!LeaseId -> {"absent", "preparing", "ready", "releasing", "released"}] /\ file' \subseteq Token
  BY <1>1, Forgetting DEF LeaseInv, LeaseTypes, H!Forgotten
<1>3. /\ LeaseTypes' /\ Linked' /\ Wanting' /\ Working' /\ Sweeping'
      /\ DOMAIN commands' = DOMAIN commands
      /\ \A c \in DOMAIN commands :
          /\ commands'[c].method = commands[c].method /\ commands'[c].lease = commands[c].lease
          /\ commands'[c].status = "succeeded" => commands[c].status = "succeeded"
      /\ op'.kind = "none" /\ op'.lease = 0 /\ op'.pc = "none" /\ op'.cmd = 0
  BY <1>1, <1>2, AnswerMoves
<1>4. StoreRows' /\ Served' /\ H!FilesOwned'
  BY <1>1, <1>3, StoreForgets
<1>5. Early'
  <2>1. \A l \in DOMAIN leases : leases[l].present # 0
    BY LeaseTyped DEF LeaseInv, Linked, H!CommandId
  <2>2. \A c \in checked : c \in DOMAIN commands
    BY LeaseTyped DEF LeaseInv, LeaseTypes
  <2> QED BY <1>1, <1>3, <2>1, <2>2, LeaseTyped, Forgetting DEF LeaseInv, Early
<1>6. Gone'
  <2>1. \A c \in DOMAIN commands : commands[c].lease \in H!LeaseId
    BY LeaseTyped DEF LeaseInv, Linked
  <2> QED BY <1>1, <1>3, <2>1, Forgetting DEF LeaseInv, Gone
<1> QED BY <1>3, <1>4, <1>5, <1>6 DEF LeaseInv

\* What is presented under the lock.
LEMMA Presenting ==
    ASSUME LeaseInv, op.kind = "present"
    PROVE  /\ op.lease \in DOMAIN leases /\ op.lease \in H!LeaseId /\ op.lease # 0
           /\ leases[op.lease].present = op.cmd /\ op.cmd \in taken \ checked
           /\ op.cmd \in DOMAIN commands /\ commands[op.cmd].status = "pending"
           /\ DOMAIN leases \subseteq H!LeaseId
<1>1. /\ op.cmd \in H!CommandId /\ op.cmd \in taken \ checked /\ commands[op.cmd].status = "pending"
      /\ op.lease = commands[op.cmd].lease /\ commands[op.cmd].method = "PUT"
  BY DEF LeaseInv, LeaseTypes, Working
<1>2. op.lease \in DOMAIN leases /\ leases[op.lease].present = op.cmd
  BY <1>1, LeaseTyped DEF LeaseInv, Linked
<1> QED BY <1>1, <1>2, LeaseTyped DEF LeaseInv, H!LeaseId

\* A presentation that is accepted finds nothing of its lease.
LEMMA PresentPreparesKeeps == ASSUME LeaseInv, H!PresentPrepares PROVE LeaseInv'
<1>1. /\ op.kind = "present" /\ op.pc = "guard" /\ H!MayPresent(op.lease)
      /\ row' = [H!Forgotten(row) EXCEPT ![op.lease] = IF @ = "absent" THEN "preparing" ELSE @]
      /\ op' = [op EXCEPT !.pc = "write"]
      /\ UNCHANGED <<now, job, leases, commands, taken, checked, file>>
  BY DEF H!PresentPrepares, H!panel
<1> DEFINE F == H!Forgotten(row)
           Row == {"absent", "preparing", "ready", "releasing", "released"}
<1>2. F \in [H!LeaseId -> Row] /\ F[op.lease] \notin {"released", "releasing"}
      /\ \A k \in H!Held \ {op.lease} : H!Tokens(op.lease) \cap H!Tokens(k) = {}
  BY <1>1, Forgetting DEF LeaseInv, LeaseTypes, H!Forgotten, H!MayPresent
<1>3. /\ \A l \in DOMAIN leases : F[l] = row[l] \/ (row[l] = "released" /\ F[l] = "absent"
                                              /\ leases[l].expires + Keep < now)
      /\ \A l \in H!LeaseId : F[l] = row[l] \/ (row[l] = "released" /\ F[l] = "absent")
  BY LeaseTyped DEF LeaseInv, H!Forgotten
<1> HIDE DEF F
<1>4. row[op.lease] = "absent" /\ F[op.lease] = "absent"
  <2>1. row[op.lease] \in {"absent", "released"} /\ now <= leases[op.lease].expires + Keep
    BY <1>1, Presenting DEF LeaseInv, Early
  <2>2. leases[op.lease].expires \in Nat /\ now \in Nat /\ Keep \in Nat
    BY Presenting, <1>1, LeaseTyped, LeaseAssumption DEF LeaseInv, LeaseTypes, Lease
  <2>3. ~(leases[op.lease].expires + Keep < now)
    BY <2>1, <2>2
  <2> QED BY <1>1, <1>2, <1>3, <2>1, <2>3, Presenting
<1>5. /\ row'[op.lease] = "preparing" /\ row' \in [H!LeaseId -> Row]
      /\ \A l \in H!LeaseId \ {op.lease} : row'[l] = F[l]
  BY <1>1, <1>2, <1>4, Presenting DEF F
<1>6. /\ op'.kind = "present" /\ op'.cmd = op.cmd /\ op'.lease = op.lease /\ op'.pc = "write"
      /\ op'.rel = op.rel /\ op'.todo = op.todo
  BY <1>1 DEF LeaseInv, LeaseTypes
<1>7. LeaseTypes'
  BY <1>1, <1>5 DEF LeaseInv, LeaseTypes, H!CommandId
<1>8. Linked' /\ Wanting'
  BY <1>1, Answered
<1>9. Working'
  BY <1>1, <1>6 DEF LeaseInv, Working
<1>10. Sweeping'
  BY <1>1, <1>5, <1>6 DEF LeaseInv, Sweeping
<1>11. Early'
  BY <1>1, <1>3, <1>5, <1>6, Presenting DEF LeaseInv, Early
<1>12. StoreRows'
  <2>1. \A l \in H!LeaseId : row'[l] # "absent" => l \in DOMAIN leases
    BY <1>1, <1>3, <1>5, Presenting DEF LeaseInv, StoreRows
  <2>2. H!Held' = H!Held \cup {op.lease}
    BY <1>1, <1>3, <1>5, Presenting DEF H!Held
  <2>3. ASSUME NEW k \in H!Held', NEW l \in H!Held', k # l
        PROVE  leases[k].tokens \cap leases[l].tokens = {}
    BY <1>2, <2>2, <2>3 DEF LeaseInv, StoreRows, H!Tokens
  <2> QED BY <1>1, <2>1, <2>3 DEF StoreRows, H!Tokens
<1>13. Gone'
  <2>1. ASSUME NEW c \in DOMAIN commands, commands[c].method = "DELETE",
               commands[c].status = "succeeded"
        PROVE  commands[c].lease # op.lease /\ commands[c].lease \in DOMAIN leases
    <3>1. now <= leases[op.lease].expires + Keep
      BY <1>1 DEF LeaseInv, Early
    <3>2. leases[op.lease].expires \in Nat /\ now \in Nat /\ Keep \in Nat
      BY Presenting, <1>1, LeaseTyped, LeaseAssumption DEF LeaseInv, LeaseTypes, Lease
    <3>3. ~(leases[op.lease].expires + Keep < now)
      BY <3>1, <3>2
    <3> QED BY <1>4, <2>1, <3>3 DEF LeaseInv, Gone, Linked
  <2> QED BY <1>1, <1>3, <1>5, <1>6, <2>1, Presenting DEF LeaseInv, Gone
<1>14. Served'
  <2>1. \A l \in DOMAIN leases : H!confirmed(leases[l].present) => l # op.lease
    BY <1>1, Presenting DEF H!confirmed
  <2> QED BY <1>1, <1>3, <1>5, <2>1, Presenting DEF LeaseInv, Served, H!confirmed, H!Mode,
     H!Tokens, H!Expired
<1>15. H!FilesOwned'
  BY <1>1, <1>3, <1>5 DEF LeaseInv, H!FilesOwned, H!Held, H!Mode, H!Tokens
<1> QED BY <1>7, <1>8, <1>9, <1>10, <1>11, <1>12, <1>13, <1>14, <1>15 DEF LeaseInv

\* One file of the lease is written.
LEMMA PresentWritesKeeps ==
    ASSUME LeaseInv, NEW t \in Token, H!PresentWrites(t)
    PROVE  LeaseInv'
<1>1. /\ op.pc = "write" /\ H!Mode(op.lease) = "webroot" /\ t \in H!Tokens(op.lease)
      /\ file' = file \cup {t}
      /\ UNCHANGED <<now, job, leases, commands, taken, checked, row, op>>
  BY DEF H!PresentWrites, H!panel
<1>2. op.kind = "present" /\ row[op.lease] \in {"preparing", "ready"}
  BY <1>1 DEF LeaseInv, Sweeping
<1>3. LeaseTypes'
  BY <1>1 DEF LeaseInv, LeaseTypes, H!CommandId
<1>4. Linked' /\ Wanting'
  BY <1>1, Answered
<1>5. Working' /\ Sweeping'
  BY <1>1 DEF LeaseInv, Working, Sweeping, H!Expired
<1>6. Early' /\ Gone'
  BY <1>1 DEF LeaseInv, Early, Gone
<1>7. StoreRows'
  BY <1>1 DEF LeaseInv, StoreRows, H!Held, H!Tokens
<1>8. Served'
  BY <1>1 DEF LeaseInv, Served, H!confirmed, H!Mode, H!Tokens, H!Expired
<1>9. H!FilesOwned'
  BY <1>1, <1>2, Presenting DEF LeaseInv, H!FilesOwned, H!Held, H!Mode, H!Tokens
<1> QED BY <1>3, <1>4, <1>5, <1>6, <1>7, <1>8, <1>9 DEF LeaseInv

\* A presentation is confirmed when its files are there.
LEMMA PresentReadyKeeps == ASSUME LeaseInv, H!PresentReady PROVE LeaseInv'
<1>1. /\ op.pc = "write" /\ (H!Mode(op.lease) = "webroot" => H!Tokens(op.lease) \subseteq file)
      /\ row' = [row EXCEPT ![op.lease] = "ready"]
      /\ H!Answer(op.cmd, "succeeded") /\ op' = H!Idle
      /\ UNCHANGED <<now, job, leases, taken, checked, file>>
  BY DEF H!PresentReady
<1>2. op.kind = "present" /\ row[op.lease] \in {"preparing", "ready"}
  BY <1>1 DEF LeaseInv, Sweeping
<1>3. /\ op.lease \in DOMAIN leases /\ op.lease \in H!LeaseId /\ op.lease # 0
      /\ leases[op.lease].present = op.cmd /\ op.cmd \in taken \ checked
      /\ op.cmd \in DOMAIN commands /\ DOMAIN leases \subseteq H!LeaseId
  BY <1>2, Presenting
<1>4. /\ row' \in [H!LeaseId -> {"absent", "preparing", "ready", "releasing", "released"}]
      /\ row'[op.lease] = "ready" /\ \A l \in H!LeaseId \ {op.lease} : row'[l] = row[l]
      /\ file' \subseteq Token
  BY <1>1, <1>3 DEF LeaseInv, LeaseTypes
<1>5. /\ LeaseTypes' /\ Linked' /\ Wanting' /\ Working' /\ Sweeping'
      /\ DOMAIN commands' = DOMAIN commands /\ commands[op.cmd].method = "PUT"
      /\ op.lease = commands[op.cmd].lease
      /\ \A c \in DOMAIN commands :
          /\ commands'[c].method = commands[c].method /\ commands'[c].lease = commands[c].lease
          /\ c # op.cmd => commands'[c].status = commands[c].status
      /\ op'.kind = "none" /\ op'.lease = 0 /\ op'.pc = "none" /\ op'.cmd = 0
  BY <1>1, <1>2, <1>4, AnswerMoves
<1>6. H!Held' = H!Held
  BY <1>2, <1>4 DEF H!Held
<1>7. StoreRows'
  BY <1>1, <1>3, <1>4, <1>6 DEF LeaseInv, StoreRows, H!Tokens
<1>8. Served'
  <2>1. ASSUME NEW l \in DOMAIN leases, l # op.lease
        PROVE  /\ leases[l].present \in DOMAIN commands /\ leases[l].present # op.cmd
               /\ row'[l] = row[l]
    BY <1>3, <1>4, <1>5, <2>1 DEF LeaseInv, Linked
  <2> QED BY <1>1, <1>3, <1>4, <1>5, <2>1 DEF LeaseInv, Served, H!confirmed, H!Mode, H!Tokens,
     H!Expired
<1>9. H!FilesOwned'
  BY <1>1, <1>6 DEF LeaseInv, H!FilesOwned, H!Mode, H!Tokens
<1>10. Early'
  <2>1. \A l \in DOMAIN leases : leases[l].present # 0
    BY LeaseTyped DEF LeaseInv, Linked, H!CommandId
  <2>2. \A c \in checked : c \in DOMAIN commands
    BY LeaseTyped DEF LeaseInv, LeaseTypes
  <2> QED BY <1>1, <1>3, <1>4, <1>5, <2>1, <2>2 DEF LeaseInv, Early
<1>11. Gone'
  <2>1. \A c \in DOMAIN commands : commands[c].lease \in DOMAIN leases
    BY DEF LeaseInv, Linked
  <2> QED BY <1>1, <1>3, <1>4, <1>5, <2>1 DEF LeaseInv, Gone
<1> QED BY <1>5, <1>7, <1>8, <1>9, <1>10, <1>11 DEF LeaseInv

\* A presentation that failed takes its lease back.
LEMMA PresentFailsKeeps == ASSUME LeaseInv, H!PresentFails PROVE LeaseInv'
<1>1. /\ op.pc = "write" /\ op' = [op EXCEPT !.pc = "undo", !.todo = {op.lease}]
      /\ UNCHANGED <<now, job, leases, commands, taken, checked, row, file>>
  BY DEF H!PresentFails, H!panel
<1>2. op.kind = "present" /\ op.rel = 0
  BY <1>1 DEF LeaseInv, Sweeping
<1>3. op.lease \in H!LeaseId
  BY <1>2, Presenting
<1>4. /\ op'.kind = "present" /\ op'.cmd = op.cmd /\ op'.lease = op.lease /\ op'.pc = "undo"
      /\ op'.rel = 0 /\ op'.todo = {op.lease}
  BY <1>1, <1>2 DEF LeaseInv, LeaseTypes
<1>5. LeaseTypes'
  BY <1>1, <1>3 DEF LeaseInv, LeaseTypes, H!CommandId
<1>6. Linked' /\ Wanting'
  BY <1>1, Answered
<1>7. Working' /\ Sweeping'
  BY <1>1, <1>2, <1>4 DEF LeaseInv, Working, Sweeping
<1>8. Early' /\ Gone'
  BY <1>1, <1>2, <1>4 DEF LeaseInv, Early, Gone
<1>9. StoreRows' /\ Served' /\ H!FilesOwned'
  BY <1>1, StoreKept
<1> QED BY <1>5, <1>6, <1>7, <1>8, <1>9 DEF LeaseInv

\* It is answered as failed once its lease is gone.
LEMMA PresentUndoneKeeps == ASSUME LeaseInv, H!PresentUndone PROVE LeaseInv'
<1>1. /\ op.pc = "undo" /\ op' = H!Idle /\ H!Answer(op.cmd, "failed")
      /\ UNCHANGED <<now, job, leases, taken, checked, row, file>>
  BY DEF H!PresentUndone, H!Refuse
<1>2. op.kind = "present"
  BY <1>1 DEF LeaseInv, Sweeping
<1>3. row' \in [H!LeaseId -> {"absent", "preparing", "ready", "releasing", "released"}] /\ file' \subseteq Token
  BY <1>1 DEF LeaseInv, LeaseTypes
<1>4. /\ LeaseTypes' /\ Linked' /\ Wanting' /\ Working' /\ Sweeping'
      /\ DOMAIN commands' = DOMAIN commands
      /\ \A c \in DOMAIN commands :
          /\ commands'[c].method = commands[c].method /\ commands'[c].lease = commands[c].lease
          /\ commands'[c].status = "succeeded" => commands[c].status = "succeeded"
      /\ op'.kind = "none" /\ op'.lease = 0 /\ op'.pc = "none" /\ op'.cmd = 0
  BY <1>1, <1>2, <1>3, AnswerMoves
<1>5. StoreRows' /\ Served' /\ H!FilesOwned'
  BY <1>1, <1>4, StoreKept
<1>6. Early'
  <2>1. \A l \in DOMAIN leases : leases[l].present # 0
    BY LeaseTyped DEF LeaseInv, Linked, H!CommandId
  <2>2. \A c \in checked : c \in DOMAIN commands
    BY LeaseTyped DEF LeaseInv, LeaseTypes
  <2> QED BY <1>1, <1>4, <2>1, <2>2 DEF LeaseInv, Early
<1>7. Gone'
  BY <1>1, <1>4 DEF LeaseInv, Gone
<1> QED BY <1>4, <1>5, <1>6, <1>7 DEF LeaseInv

\* Time only lets leases expire, and waits for what is already accepted.
LEMMA TickKeeps == ASSUME LeaseInv, H!Tick PROVE LeaseInv'
<1>1. /\ now' = now + 1 /\ now \in Nat /\ Keep \in Nat
      /\ UNCHANGED <<job, leases, commands, taken, checked, row, file, op>>
      /\ \A c \in checked : now < leases[commands[c].lease].expires + Keep
      /\ op.kind = "present" => now < leases[commands[op.cmd].lease].expires + Keep
  BY LeaseAssumption DEF H!Tick, H!panel, H!agent, LeaseInv, LeaseTypes
<1>2. \A l \in DOMAIN leases : leases[l].expires \in Nat
  BY LeaseTyped DEF LeaseInv, Lease
<1>3. \A l \in DOMAIN leases : H!Expired(l) => H!Expired(l)'
  BY <1>1, <1>2 DEF H!Expired
<1>4. LeaseTypes'
  BY <1>1 DEF LeaseInv, LeaseTypes, H!CommandId
<1>5. Linked' /\ Wanting'
  BY <1>1, Answered
<1>6. Working'
  BY <1>1 DEF LeaseInv, Working
<1>7. Sweeping'
  BY <1>1, <1>3 DEF LeaseInv, Sweeping
<1>8. Early'
  <2>1. ASSUME NEW c \in checked
        PROVE  now + 1 <= leases[commands[c].lease].expires + Keep
    <3>1. leases[commands[c].lease].expires \in Nat
      BY <1>2, LeaseTyped DEF LeaseInv, LeaseTypes, Linked
    <3> QED BY <1>1, <3>1
  <2>2. ASSUME op.kind = "present"
        PROVE  now + 1 <= leases[op.lease].expires + Keep
    <3>1. op.lease = commands[op.cmd].lease /\ leases[op.lease].expires \in Nat
      BY <1>2, <2>2, Presenting DEF LeaseInv, Working
    <3> QED BY <1>1, <2>2, <3>1
  <2> QED BY <1>1, <2>1, <2>2 DEF LeaseInv, Early
<1>9. StoreRows' /\ H!FilesOwned'
  BY <1>1 DEF LeaseInv, StoreRows, H!FilesOwned, H!Held, H!Tokens, H!Mode
<1>10. Gone'
  <2>1. \A l \in DOMAIN leases : leases[l].expires + Keep < now => leases[l].expires + Keep < now + 1
    BY <1>1, <1>2
  <2> QED BY <1>1, <2>1 DEF LeaseInv, Gone, Linked
<1>11. Served'
  BY <1>1, <1>3 DEF LeaseInv, Served, H!confirmed, H!Mode, H!Tokens
<1> QED BY <1>4, <1>5, <1>6, <1>7, <1>8, <1>9, <1>10, <1>11 DEF LeaseInv

\* Nothing is begun, and nothing is known.
LEMMA LeaseInit == ASSUME H!Init PROVE LeaseInv
<1>1. /\ now = 0 /\ leases = <<>> /\ commands = <<>> /\ taken = {} /\ checked = {} /\ file = {}
      /\ job = [p \in Profile |-> [pc |-> "idle", lease |-> 0]]
      /\ row = [l \in H!LeaseId |-> "absent"] /\ op = H!Idle
  BY DEF H!Init
<1>2. LeaseTypes
  BY <1>1, LeaseAssumption DEF LeaseTypes, H!CommandId, H!Idle
<1>3. DOMAIN leases = {} /\ DOMAIN commands = {}
  BY <1>1
<1>4. Linked /\ Wanting /\ Working /\ Sweeping
  BY <1>1, <1>3 DEF Linked, Wanting, Working, Sweeping, H!Idle
<1>5. Early /\ StoreRows /\ Gone /\ Served /\ H!FilesOwned
  BY <1>1, <1>3 DEF Early, StoreRows, Gone, Served, H!FilesOwned, H!Held, H!Idle
<1> QED BY <1>2, <1>4, <1>5 DEF LeaseInv

\* Every step keeps it.
LEMMA LeaseStep == ASSUME LeaseInv, [H!Next]_H!vars PROVE LeaseInv'
<1>1. CASE H!Panel
  BY <1>1, JobKeeps, ObtainEndsKeeps, CreateLeaseKeeps, DrainKeeps DEF H!Panel
<1>2. CASE H!Handler
  <2>1. CASE \E c \in H!CommandId : H!Take(c) \/ H!PresentEnters(c) \/ H!ReleaseEnters(c)
    BY <2>1, TakeKeeps, EntersKeep
  <2>2. CASE H!run \/ H!run_idle \/ H!run_ends \/ H!ReleaseAnswers
    BY <2>2, EntersKeep, RunIdleKeeps, RunEndsKeeps, ReleaseAnswersKeeps
  <2>3. CASE \E l \in H!LeaseId : H!ReleaseMarks(l) \/ H!ReleaseEnds(l) \/ H!ReleaseFails(l)
    BY <2>3, ReleaseMarksKeeps, ReleaseEndsKeeps, ReleaseFailsKeeps
  <2>4. CASE \E l \in H!LeaseId, t \in Token : H!ReleaseRemoves(l, t)
    BY <2>4, ReleaseRemovesKeeps
  <2>5. CASE H!PresentRefused \/ H!PresentPrepares \/ H!PresentReady \/ H!PresentFails \/ H!PresentUndone
    BY <2>5, PresentRefusedKeeps, PresentPreparesKeeps, PresentReadyKeeps, PresentFailsKeeps,
       PresentUndoneKeeps
  <2>6. CASE \E t \in Token : H!PresentWrites(t)
    BY <2>6, PresentWritesKeeps
  <2> QED BY <1>2, <2>1, <2>2, <2>3, <2>4, <2>5, <2>6 DEF H!Handler
<1>3. CASE UNCHANGED H!vars
  <2>1. UNCHANGED <<now, job, leases, commands, taken, checked, row, file, op>>
    BY <1>3 DEF H!vars, H!panel, H!agent
  <2>2. LeaseTypes'
    BY <2>1 DEF LeaseInv, LeaseTypes, H!CommandId
  <2>3. Linked' /\ Wanting'
    BY <2>1, Answered
  <2>4. Working' /\ Sweeping'
    BY <2>1 DEF LeaseInv, Working, Sweeping, H!Expired
  <2>5. Early' /\ Gone'
    BY <2>1 DEF LeaseInv, Early, Gone
  <2>6. StoreRows' /\ Served' /\ H!FilesOwned'
    BY <2>1, StoreKept
  <2> QED BY <2>2, <2>3, <2>4, <2>5, <2>6 DEF LeaseInv
<1> QED BY <1>1, <1>2, <1>3, PanelRestartsKeeps, AgentRestartsKeeps, TickKeeps DEF H!Next

\* What the panel believes follows.
LEMMA LeaseHolds == ASSUME LeaseInv PROVE H!LeasesHonest
<1>1. H!ReleasedStaysGone
  <2>1. ASSUME NEW l \in DOMAIN leases, leases[l].released
        PROVE  row[l] \in {"released", "absent"} /\ ~(op.lease = l /\ op.pc \in {"write", "undo"})
    <3>1. /\ leases[l].cleanup \in DOMAIN commands /\ commands[leases[l].cleanup].method = "DELETE"
          /\ commands[leases[l].cleanup].lease = l
          /\ commands[leases[l].cleanup].status = "succeeded"
      BY <2>1 DEF LeaseInv, Linked, H!confirmed
    <3> QED BY <3>1 DEF LeaseInv, Gone
  <2> QED BY <2>1 DEF H!ReleasedStaysGone
<1>2. H!ValidatedIsServed
  BY DEF LeaseInv, Wanting, Served, H!ValidatedIsServed, H!Responds
<1> QED BY <1>1, <1>2 DEF LeaseInv, H!LeasesHonest

\* What the panel believes of a lease holds on the node, for any number of profiles, leases, tokens,
\* restarts and faults: a release it recorded is final (_release's record, present's refusals), what
\* is being validated is served, and every file on disk has a lease that will remove it.
THEOREM LeasesSafe == H!Spec => []LeasesHonest
<1>1. H!Init => LeaseInv
  BY LeaseInit
<1>2. LeaseInv /\ [H!Next]_H!vars => LeaseInv'
  BY LeaseStep
<1>3. LeaseInv => LeasesHonest
  BY LeaseHolds DEF LeasesHonest
<1> QED BY <1>1, <1>2, <1>3, PTL DEF H!Spec
==============================================================================
