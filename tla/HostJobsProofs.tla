--------------------------- MODULE HostJobsProofs ---------------------------
(***************************************************************************)
(* Proofs about AgentRelease and HostJobs for any releases, requests, kills *)
(* and faults: at rest the manifest tells the truth about the host and the  *)
(* agent runs as it was meant to; a request is carried out once, and what   *)
(* the helper answers is so.                                               *)
(*                                                                         *)
(* What holds of the host while an operation is under way depends on how    *)
(* far it is: StateInv holds everywhere, PlaceInv adds what is known at the *)
(* place of the process.  A process that is killed leaves StateInv.         *)
(***************************************************************************)
EXTENDS HostJobs, TLAPS

(***************************************************************************)
(* The deployment.                                                         *)
(***************************************************************************)
\* The process has the fields that Begin gives it.
ProcType ==
    /\ proc = [op |-> proc.op, pc |-> proc.pc, release |-> proc.release,
               policy |-> proc.policy, keep |-> proc.keep]
    /\ proc.release \in Choice /\ proc.policy \in Policy /\ proc.keep \in BOOLEAN

\* What the manifest itself says fits together.
RecordInv ==
    /\ record.status = "absent" => record = NoRecord
    /\ record.pending.kind = "none" => record.pending = NoPending
    /\ record.pending.kind # "none" =>
         record.pending.from = record.current /\ record.staging = None /\ record.restore = "none"
    /\ record.pending.kind = "policy" => record.status = "installed"
    /\ record.restore # "none" => record.status = "installed" /\ record.staging = None
    /\ record.previous # None => record.status \in {"installed", "removing"}

\* The link is the recorded release outside a switch or a removal, and the agent, if it runs, is the
\* one it selects; the selected release is there.
LinkInv ==
    /\ record.pending.kind # "switch" /\ record.status # "removing" => disk.link = record.current
    /\ disk.link # None => disk.link \in disk.releases /\ disk.link \in record.releases
    /\ Running => service.running = disk.link

\* The policy outside a policy change.
UnitInv ==
    /\ record.pending.kind # "policy" =>
        /\ disk.unit \in {"absent", record.policy}
        /\ record.status = "installed" => \A f \in File : disk.files[f] = record.policy
        /\ Running => service.policy = record.policy
    /\ record.status = "installed" => disk.unit # "absent"
    /\ disk.unit = "absent" => ~Running

\* Whether the agent is meant to run is in the manifest while it is stopped for an operation.
WantedInv ==
    record.status = "installed" =>
        (wanted <=> IF record.pending.kind = "none" THEN Running ELSE record.pending.was_active)

\* The helper is paused only for a policy change that knows it.
PausedInv ==
    /\ paused => \/ record.pending.kind = "policy" /\ record.pending.helper
                 \/ record.restore = "start"
    /\ record.pending.kind = "policy" /\ helper => record.pending.helper

\* The places of each operation.
StagingPlaces == {"mkdir", "venv", "clean", "unstage"}
InstallPlaces == {"stage", "staged", "prepare", "helper on"} \cup StagingPlaces
SwitchPlaces == {"stop", "switch", "start", "ready", "commit"}
BackPlaces == {"back link", "back start", "back ready", "back save"}
RemovePlaces == {"disable", "unit off", "unlink", "remove"}
PolicyPlaces == {"pause", "policy stop", "unit", "files", "policy ready", "policy commit"}
UndoPlaces == {"undo stop", "undo", "undo ready", "undo save"}
DownPlaces == {"switch", "start", "back link", "back start", "unit", "files", "undo",
               "unit off", "unlink", "remove", "userdel", "rmtree"}

\* What is known of the manifest at each place of an operation.
AtRecord ==
    /\ proc.pc = "record" => record.status = "absent"
    /\ proc.pc \in {"account", "uid", "tree"} =>
         record.status = "preparing" /\ record.pending.kind = "none" /\ record.staging = None
    /\ proc.pc \in InstallPlaces \cup {"account", "uid", "tree", "record"} =>
         /\ record.pending.kind = "none" /\ record.restore = "none" /\ record.status # "removing"
         /\ proc.op = "install" => record.current = None
         /\ proc.op = "upgrade" => record.status = "installed"
         /\ proc.op \in {"install", "upgrade"} /\ proc.release \in Release
         /\ proc.pc # "record" => record.status # "absent"
         /\ proc.pc \notin StagingPlaces => record.staging = None
    /\ proc.pc \in StagingPlaces => record.staging = proc.release /\ proc.release \notin record.releases
    /\ proc.pc \in {"prepare", "helper on"} => proc.op = "install"
    /\ proc.pc \in {"staged", "prepare", "helper on", "activate"} \cup SwitchPlaces =>
         proc.release \in record.releases
    /\ proc.pc \in {"activate"} \cup SwitchPlaces => proc.op \in {"install", "upgrade", "rollback"}
    /\ proc.pc \in SwitchPlaces \cup BackPlaces =>
         record.pending.kind = "switch" /\ record.status # "removing"
    /\ proc.pc = "back" => record.pending.kind # "policy" /\ record.status # "removing"
    /\ proc.pc \in {"unstaged", "restaged"} =>
         record.status \notin {"removing", "absent"} /\ record.pending.kind = "none"
    /\ proc.pc \in {"helper off", "removing"} =>
         record.restore = "none" /\ record.pending.kind # "policy" /\ record.status # "absent"
    /\ proc.pc \in RemovePlaces => record.status = "removing"
    /\ proc.pc \in {"userdel", "rmtree"} =>
         /\ record.status = "removed" /\ record.releases = {} /\ record.pending.kind = "none"
         /\ record.staging = None /\ record.restore = "none"
    /\ proc.pc = "publish" =>
         /\ record.status = "installed" /\ record.pending.kind = "none" /\ record.staging = None
         /\ record.restore = "none"
    /\ proc.pc \in PolicyPlaces \cup UndoPlaces => record.pending.kind = "policy"
    /\ proc.pc \in {"restore", "restored"} => record.restore # "none"

\* Configuration and tool are those of a policy.
Carries(selected) == \A f \in File : disk.files[f] = selected

\* What is known of the release directories and the link at each place,
AtTree ==
    /\ proc.pc \in {"mkdir", "unstage"} => proc.release \notin disk.releases
    /\ proc.pc = "venv" => proc.release \in disk.releases
    /\ proc.pc = "restaged" => disk.releases \subseteq record.releases
    /\ proc.pc \in {"start", "ready", "commit"} => disk.link = proc.release
    /\ proc.pc \in {"back start", "back ready", "back save"} => disk.link = record.pending.from
    /\ proc.pc \in {"remove", "userdel", "rmtree"} => disk.link = None

\* of the unit and the policy files,
AtPolicy ==
    /\ proc.pc = "activate" /\ record.pending.kind = "none" /\ record.status # "removing" =>
         Carries(record.policy)
    /\ proc.pc \in {"prepare", "helper on"} \cup SwitchPlaces => Carries(record.policy)
    /\ proc.pc \in {"prepare", "helper on"} \cup SwitchPlaces \cup BackPlaces =>
         disk.unit = record.policy
    /\ proc.pc \in {"unlink", "remove", "userdel", "rmtree", "record"} => disk.unit = "absent"
    /\ proc.pc \in {"files", "policy ready", "policy commit"} => disk.unit = proc.policy
    /\ proc.pc \in {"policy ready", "policy commit"} => Carries(proc.policy)
    /\ proc.pc \in {"undo ready", "undo save"} =>
         disk.unit = record.policy /\ Carries(record.policy)

AtDisk == AtTree /\ AtPolicy

\* And of the agent's process and the helper.
AtService ==
    /\ proc.pc \in DownPlaces => ~Running
    /\ proc.pc = "ready" => First \/ record.pending.was_active
    /\ proc.pc = "commit" => (Running <=> First \/ record.pending.was_active)
    /\ proc.pc = "back ready" => StartsAgain
    /\ proc.pc = "back save" => (Running <=> StartsAgain)
    /\ proc.pc \in {"policy ready", "policy commit"} =>
         (Running => record.pending.was_active /\ service.policy = proc.policy)
    /\ proc.pc = "policy commit" => (record.pending.was_active => Running)
    /\ proc.pc \in {"undo ready", "undo save"} =>
         (Running => record.pending.was_active /\ service.policy = record.policy)
    /\ proc.pc = "undo save" => (record.pending.was_active => Running)
    /\ proc.pc = "restored" => ~paused

\* What holds wherever a process is, or was killed.
StateInv ==
    TypeOK /\ RecordInv /\ LinkInv /\ DirectoriesOwned /\ UnitInv /\ WantedInv /\ PausedInv

\* What is known where it is.
PlaceInv == AtRecord /\ AtDisk /\ AtService

\* The inductive invariant of the deployment.
DeployInv == StateInv /\ ProcType /\ PlaceInv

\* A process goes on with what it was begun for.
SameTask ==
    /\ proc'.op = proc.op /\ proc'.release = proc.release
    /\ proc'.policy = proc.policy /\ proc'.keep = proc.keep

\* Nothing is required of the places of no process.
LEMMA AtRest == ASSUME proc' = NoProc PROVE ProcType' /\ PlaceInv'
  BY DEF NoProc, ProcType, Choice, Policy, PlaceInv, AtRecord, AtDisk, AtTree, AtPolicy, Carries,
    AtService, SwitchPlaces, InstallPlaces, StagingPlaces, BackPlaces, RemovePlaces,
    PolicyPlaces, UndoPlaces, DownPlaces

\* Between transactions the manifest has none.
LEMMA NoTransaction ==
    /\ NoPending \in Transaction /\ NoPending.kind = "none" /\ NoPending.from = None
    /\ NoPending.was_active = FALSE /\ NoPending.helper = FALSE
  BY DEF NoPending, Transaction, Choice

\* Before initialize() there is no manifest.
LEMMA EmptyManifest == NoRecord \in Manifest
  BY NoTransaction DEF NoRecord, Manifest, Choice, Policy

\* Going on changes the place only.
LEMMA Moves ==
    ASSUME ProcType, NEW pc, proc' = [proc EXCEPT !.pc = pc]
    PROVE  ProcType' /\ proc'.pc = pc /\ SameTask
  BY DEF ProcType, SameTask

\* Where nothing that a place speaks of changes, it is known as before: of the manifest,
LEMMA RecordStays == ASSUME AtRecord, record' = record, proc' = proc PROVE AtRecord'
  BY ZenonT(40) DEF AtRecord

\* the files,
LEMMA DiskStays == ASSUME AtDisk, record' = record, disk' = disk, proc' = proc PROVE AtDisk'
<1>1. ASSUME AtTree PROVE AtTree'
  BY <1>1 DEF AtTree
<1>2. ASSUME AtPolicy PROVE AtPolicy'
  BY <1>2 DEF AtPolicy, Carries
<1> QED BY <1>1, <1>2 DEF AtDisk

\* the agent's process and the helper.
LEMMA ServiceStays ==
    ASSUME AtService, record' = record, disk' = disk, service' = service, proc' = proc, paused' = paused
    PROVE  AtService'
  BY DEF AtService, Running, First, StartsAgain

\* All of it together.
LEMMA PlaceStays ==
    ASSUME PlaceInv, UNCHANGED <<record, disk, service, proc, paused>>
    PROVE  PlaceInv'
  BY RecordStays, DiskStays, ServiceStays DEF PlaceInv

\* What the places of each operation are is known from here on.
USE DEF SwitchPlaces, InstallPlaces, StagingPlaces, BackPlaces,
        RemovePlaces, PolicyPlaces, UndoPlaces, DownPlaces

\* What concerns the deployment alone stays as it was when only the helper changes.
LEMMA HelperOnly ==
    ASSUME StateInv, UNCHANGED <<record, service, wanted>>,
           disk'.link = disk.link, disk'.releases = disk.releases,
           disk'.unit = disk.unit, disk'.files = disk.files
    PROVE  RecordInv' /\ LinkInv' /\ DirectoriesOwned' /\ UnitInv' /\ WantedInv'
<1>1. RecordInv'
  BY DEF StateInv, RecordInv
<1>2. LinkInv'
  BY DEF StateInv, LinkInv, Running
<1>3. DirectoriesOwned'
  BY DEF StateInv, DirectoriesOwned
<1>4. UnitInv'
  BY DEF StateInv, UnitInv, Running
<1>5. WantedInv'
  BY DEF StateInv, WantedInv, Running
<1> QED BY <1>1, <1>2, <1>3, <1>4, <1>5

\* What a step leaves alone stays as it was.
LEMMA Struck ==
    ASSUME StateInv, UNCHANGED <<record, disk, service, helper, wanted, paused>>,
           faults' \in 0 .. MaxFaults
    PROVE  StateInv'
<1>1. TypeOK'
  BY DEF StateInv, TypeOK
<1>2. PausedInv'
  BY DEF StateInv, PausedInv
<1> QED BY <1>1, <1>2, HelperOnly DEF StateInv

\* The same for a step without a fault.
LEMMA Undisturbed ==
    ASSUME StateInv, UNCHANGED <<record, disk, service, helper, wanted, paused, faults>>
    PROVE  StateInv'
  BY Struck DEF StateInv, TypeOK

(***************************************************************************)
(* The steps of the operations.                                            *)
(***************************************************************************)

\* initialize() writes the first manifest, before anything exists on the host.
LEMMA InitRecordKeeps == ASSUME DeployInv, InitRecord PROVE DeployInv'
<1>1. /\ proc.pc = "record"
      /\ proc' = [proc EXCEPT !.pc = "account"]
      /\ record' = [NoRecord EXCEPT !.status = "preparing"]
      /\ UNCHANGED <<disk, service, helper, wanted, paused, faults>>
  BY DEF InitRecord, At, Goto, Records
<1>2. ProcType' /\ proc'.pc = "account" /\ SameTask
  BY <1>1, Moves DEF DeployInv
<1>3. record' \in Manifest
  BY <1>1, EmptyManifest DEF Manifest
<1>4. TypeOK'
  BY <1>1, <1>3 DEF DeployInv, StateInv, TypeOK, NoRecord
<1>5. RecordInv'
  BY <1>1 DEF DeployInv, StateInv, PlaceInv, RecordInv, AtRecord
<1>6. LinkInv'
  BY <1>1 DEF DeployInv, StateInv, PlaceInv, LinkInv, AtRecord, Running, NoRecord
<1>7. DirectoriesOwned'
  BY <1>1 DEF DeployInv, StateInv, PlaceInv, DirectoriesOwned, RecordInv, AtRecord
<1>8. UnitInv'
  BY <1>1 DEF DeployInv, StateInv, PlaceInv, UnitInv, AtDisk, AtPolicy, Running
<1>9. WantedInv'
  BY <1>1 DEF WantedInv
<1>10. PausedInv'
  BY <1>1 DEF DeployInv, StateInv, PlaceInv, PausedInv, AtRecord, NoPending, NoRecord
<1>11. AtRecord'
  BY <1>1, <1>2 DEF DeployInv, StateInv, PlaceInv, SameTask, AtRecord, NoPending, NoRecord
<1>12. AtDisk'
  BY <1>1, <1>2 DEF DeployInv, StateInv, SameTask, AtDisk, AtTree, AtPolicy
<1>13. AtService'
  BY <1>1, <1>2 DEF DeployInv, StateInv, SameTask, AtService
<1> QED
  BY <1>4, <1>5, <1>6, <1>7, <1>8, <1>9, <1>10, <1>2, <1>11, <1>12, <1>13 DEF DeployInv,
    StateInv, PlaceInv

\* useradd.
LEMMA InitAccountKeeps == ASSUME DeployInv, InitAccount PROVE DeployInv'
<1>1. /\ proc.pc = "account"
      /\ proc' = [proc EXCEPT !.pc = "uid"]
      /\ disk' = [disk EXCEPT !.account = TRUE]
      /\ UNCHANGED <<record, service, helper, wanted, paused, faults>>
  BY DEF InitAccount, At, Goto, Writes
<1>2. ProcType' /\ proc'.pc = "uid" /\ SameTask
  BY <1>1, Moves DEF DeployInv
<1>3. disk' \in Files
  BY <1>1 DEF DeployInv, StateInv, TypeOK, Files
<1>4. TypeOK'
  BY <1>1, <1>3 DEF DeployInv, StateInv, TypeOK
<1>5. RecordInv' /\ WantedInv' /\ PausedInv'
  BY <1>1 DEF DeployInv, StateInv, RecordInv, WantedInv, PausedInv, Running
<1>6. LinkInv'
  BY <1>1 DEF DeployInv, StateInv, LinkInv, Running
<1>7. DirectoriesOwned'
  BY <1>1 DEF DeployInv, StateInv, DirectoriesOwned
<1>8. UnitInv'
  BY <1>1 DEF DeployInv, StateInv, UnitInv, Running
<1>9. AtRecord'
  BY <1>1, <1>2 DEF DeployInv, StateInv, PlaceInv, SameTask, AtRecord
<1>10. AtDisk'
  BY <1>1, <1>2 DEF DeployInv, StateInv, SameTask, AtDisk, AtTree, AtPolicy
<1>11. AtService'
  BY <1>1, <1>2 DEF DeployInv, StateInv, SameTask, AtService
<1> QED
  BY <1>4, <1>5, <1>6, <1>7, <1>8, <1>2, <1>9, <1>10, <1>11 DEF DeployInv, StateInv, PlaceInv

\* The account's id is recorded for purge.
LEMMA InitUidKeeps == ASSUME DeployInv, InitUid PROVE DeployInv'
<1>1. /\ proc.pc = "uid"
      /\ proc' = [proc EXCEPT !.pc = "tree"]
      /\ record' = [record EXCEPT !.uid = TRUE]
      /\ UNCHANGED <<disk, service, helper, wanted, paused, faults>>
  BY DEF InitUid, At, Goto, Records
<1>2. ProcType' /\ proc'.pc = "tree" /\ SameTask
  BY <1>1, Moves DEF DeployInv
<1>3. record' \in Manifest
  BY <1>1 DEF DeployInv, StateInv, TypeOK, Manifest, PlaceInv
<1>4. TypeOK'
  BY <1>1, <1>3 DEF DeployInv, StateInv, TypeOK
<1>5. RecordInv'
  BY <1>1 DEF DeployInv, StateInv, PlaceInv, RecordInv, AtRecord
<1>6. LinkInv'
  BY <1>1 DEF DeployInv, StateInv, LinkInv, Running
<1>7. DirectoriesOwned'
  BY <1>1 DEF DeployInv, StateInv, DirectoriesOwned
<1>8. UnitInv'
  BY <1>1 DEF DeployInv, StateInv, UnitInv, Running
<1>9. WantedInv'
  BY <1>1 DEF DeployInv, StateInv, PlaceInv, WantedInv, AtRecord
<1>10. PausedInv'
  BY <1>1 DEF DeployInv, StateInv, PausedInv
<1>11. AtRecord'
  BY <1>1, <1>2 DEF DeployInv, StateInv, PlaceInv, SameTask, AtRecord
<1>12. AtDisk'
  BY <1>1, <1>2 DEF DeployInv, StateInv, SameTask, AtDisk, AtTree, AtPolicy
<1>13. AtService'
  BY <1>1, <1>2 DEF DeployInv, StateInv, SameTask, AtService
<1> QED
  BY <1>4, <1>5, <1>6, <1>7, <1>8, <1>9, <1>10, <1>2, <1>11, <1>12, <1>13 DEF DeployInv,
    StateInv, PlaceInv

\* The directories are created; staging may begin.
LEMMA InitTreeKeeps == ASSUME DeployInv, InitTree PROVE DeployInv'
<1>1. /\ proc.pc = "tree"
      /\ proc' = [proc EXCEPT !.pc = "stage"]
      /\ disk' = [disk EXCEPT !.tree = TRUE]
      /\ UNCHANGED <<record, service, helper, wanted, paused, faults>>
  BY DEF InitTree, At, Goto, Writes
<1>2. ProcType' /\ proc'.pc = "stage" /\ SameTask
  BY <1>1, Moves DEF DeployInv
<1>3. disk' \in Files
  BY <1>1 DEF DeployInv, StateInv, TypeOK, Files
<1>4. TypeOK'
  BY <1>1, <1>3 DEF DeployInv, StateInv, TypeOK
<1>5. RecordInv' /\ WantedInv' /\ PausedInv'
  BY <1>1 DEF DeployInv, StateInv, RecordInv, WantedInv, PausedInv, Running
<1>6. LinkInv'
  BY <1>1 DEF DeployInv, StateInv, LinkInv, Running
<1>7. DirectoriesOwned'
  BY <1>1 DEF DeployInv, StateInv, DirectoriesOwned
<1>8. UnitInv'
  BY <1>1 DEF DeployInv, StateInv, UnitInv, Running
<1>9. AtRecord'
  BY <1>1, <1>2 DEF DeployInv, StateInv, PlaceInv, SameTask, AtRecord
<1>10. AtDisk'
  BY <1>1, <1>2 DEF DeployInv, StateInv, SameTask, AtDisk, AtTree, AtPolicy
<1>11. AtService'
  BY <1>1, <1>2 DEF DeployInv, StateInv, SameTask, AtService
<1> QED
  BY <1>4, <1>5, <1>6, <1>7, <1>8, <1>2, <1>9, <1>10, <1>11 DEF DeployInv, StateInv, PlaceInv

\* A recorded release is not staged again; if its directory is missing, the operation refuses.
LEMMA StageKnownKeeps == ASSUME DeployInv, StageKnown PROVE DeployInv'
<1>1. CASE proc.release \in disk.releases
  <2>1. /\ proc.pc = "stage"
        /\ proc' = [proc EXCEPT !.pc = "staged"]
        /\ UNCHANGED <<record, disk, service, helper, wanted, paused, faults>>
    BY <1>1 DEF StageKnown, At, Goto, Process
  <2>2. ProcType' /\ proc'.pc = "staged" /\ SameTask
    BY <2>1, Moves DEF DeployInv
  <2>3. StateInv'
    BY <2>1, Undisturbed DEF DeployInv
  <2>4. AtRecord'
    BY <1>1, <2>1, <2>2, ReleaseAssumption DEF DeployInv, StateInv, PlaceInv, SameTask,
      DirectoriesOwned, AtRecord
  <2>5. AtDisk'
    BY <1>1, <2>1, <2>2 DEF DeployInv, StateInv, SameTask, AtDisk, AtTree, AtPolicy
  <2>6. AtService'
    BY <1>1, <2>1, <2>2 DEF DeployInv, StateInv, SameTask, AtService
  <2> QED
    BY <2>3, <2>2, <2>4, <2>5, <2>6 DEF DeployInv, PlaceInv
<1>2. CASE proc.release \notin disk.releases
  <2>1. /\ proc.pc = "stage"
        /\ proc' = NoProc
        /\ UNCHANGED <<record, disk, service, helper, wanted, paused, faults>>
    BY <1>2 DEF StageKnown, At, Exit, Process
  <2>2. ProcType' /\ PlaceInv'
    BY <2>1, AtRest
  <2>3. StateInv'
    BY <2>1, Undisturbed DEF DeployInv
  <2> QED
    BY <2>3, <2>2 DEF DeployInv
<1> QED
  BY <1>1, <1>2

\* A new release is announced in the manifest before its directory exists; a directory of its name
\* refuses.
LEMMA StageBeginsKeeps == ASSUME DeployInv, StageBegins PROVE DeployInv'
<1>1. CASE proc.release \in disk.releases
  <2>1. /\ proc.pc = "stage"
        /\ proc' = NoProc
        /\ UNCHANGED <<record, disk, service, helper, wanted, paused, faults>>
    BY <1>1 DEF StageBegins, At, Exit, Process, Announced
  <2>2. ProcType' /\ PlaceInv'
    BY <2>1, AtRest
  <2>3. StateInv'
    BY <2>1, Undisturbed DEF DeployInv
  <2> QED
    BY <2>3, <2>2 DEF DeployInv
<1>2. CASE proc.release \notin disk.releases
  <2>1. /\ proc.pc = "stage"
        /\ proc' = [proc EXCEPT !.pc = "mkdir"]
        /\ record' = [record EXCEPT !.staging = proc.release]
        /\ UNCHANGED <<disk, service, helper, wanted, paused, faults>>
    BY <1>2 DEF StageBegins, At, Goto, Records, Announced
  <2>2. ProcType' /\ proc'.pc = "mkdir" /\ SameTask
    BY <2>1, Moves DEF DeployInv
  <2>3. record' \in Manifest
    BY <1>2, <2>1 DEF DeployInv, StateInv, TypeOK, Manifest, ProcType, PlaceInv
  <2>4. TypeOK'
    BY <1>2, <2>1, <2>3 DEF DeployInv, StateInv, TypeOK
  <2>5. RecordInv'
    BY <1>2, <2>1 DEF DeployInv, StateInv, PlaceInv, RecordInv, AtRecord
  <2>6. LinkInv'
    BY <1>2, <2>1 DEF DeployInv, StateInv, LinkInv, Running
  <2>7. DirectoriesOwned'
    BY <1>2, <2>1, ReleaseAssumption DEF DeployInv, StateInv, PlaceInv, TypeOK, Files,
      DirectoriesOwned, AtRecord
  <2>8. UnitInv'
    BY <1>2, <2>1 DEF DeployInv, StateInv, UnitInv, Running
  <2>9. WantedInv'
    BY <1>2, <2>1 DEF DeployInv, StateInv, WantedInv, Running
  <2>10. PausedInv'
    BY <2>1 DEF DeployInv, StateInv, PausedInv
  <2>11. AtRecord'
    BY <1>2, <2>1, <2>2 DEF DeployInv, StateInv, PlaceInv, SameTask, DirectoriesOwned, AtRecord
  <2>12. AtDisk'
    BY <1>2, <2>1, <2>2 DEF DeployInv, StateInv, SameTask, AtDisk, AtTree, AtPolicy
  <2>13. AtService'
    BY <1>2, <2>1, <2>2 DEF DeployInv, StateInv, SameTask, AtService
  <2> QED
    BY <2>4, <2>5, <2>6, <2>7, <2>8, <2>9, <2>10, <2>2, <2>11, <2>12, <2>13 DEF DeployInv,
      StateInv, PlaceInv
<1> QED
  BY <1>1, <1>2

\* mkdir of the announced release, which fails on a host without the tree.
LEMMA StageMkdirKeeps == ASSUME DeployInv, StageMkdir PROVE DeployInv'
<1>1. CASE disk.tree
  <2>1. /\ proc.pc = "mkdir"
        /\ proc' = [proc EXCEPT !.pc = "venv"]
        /\ disk' = [disk EXCEPT !.releases = @ \cup {proc.release}]
        /\ UNCHANGED <<record, service, helper, wanted, paused, faults>>
    BY <1>1 DEF StageMkdir, At, Goto, Writes
  <2>2. ProcType' /\ proc'.pc = "venv" /\ SameTask
    BY <2>1, Moves DEF DeployInv
  <2>3. disk' \in Files
    BY <1>1, <2>1 DEF DeployInv, StateInv, TypeOK, Files, PlaceInv, AtRecord
  <2>4. TypeOK'
    BY <2>1, <2>3 DEF DeployInv, StateInv, TypeOK
  <2>5. RecordInv' /\ WantedInv' /\ PausedInv'
    BY <2>1 DEF DeployInv, StateInv, RecordInv, WantedInv, PausedInv, Running
  <2>6. LinkInv'
    BY <1>1, <2>1 DEF DeployInv, StateInv, LinkInv, Running
  <2>7. DirectoriesOwned'
    BY <1>1, <2>1 DEF DeployInv, StateInv, PlaceInv, DirectoriesOwned, AtRecord
  <2>8. UnitInv'
    BY <1>1, <2>1 DEF DeployInv, StateInv, UnitInv, Running
  <2>9. AtRecord'
    BY <1>1, <2>1, <2>2 DEF DeployInv, StateInv, PlaceInv, SameTask, AtRecord
  <2>10. AtDisk'
    BY <1>1, <2>1, <2>2 DEF DeployInv, StateInv, SameTask, AtDisk, AtTree, AtPolicy
  <2>11. AtService'
    BY <1>1, <2>1, <2>2 DEF DeployInv, StateInv, SameTask, AtService
  <2> QED
    BY <2>4, <2>5, <2>6, <2>7, <2>8, <2>2, <2>9, <2>10, <2>11 DEF DeployInv, StateInv, PlaceInv
<1>2. CASE ~disk.tree
  <2>1. /\ proc.pc = "mkdir"
        /\ proc' = [proc EXCEPT !.pc = "unstage"]
        /\ UNCHANGED <<record, disk, service, helper, wanted, paused, faults>>
    BY <1>2 DEF StageMkdir, At, Goto, Process
  <2>2. ProcType' /\ proc'.pc = "unstage" /\ SameTask
    BY <2>1, Moves DEF DeployInv
  <2>3. StateInv'
    BY <2>1, Undisturbed DEF DeployInv
  <2>4. AtRecord'
    BY <1>2, <2>1, <2>2 DEF DeployInv, StateInv, PlaceInv, SameTask, AtRecord
  <2>5. AtDisk'
    BY <1>2, <2>1, <2>2 DEF DeployInv, StateInv, PlaceInv, SameTask, AtDisk, AtTree, AtPolicy
  <2>6. AtService'
    BY <1>2, <2>1, <2>2 DEF DeployInv, StateInv, SameTask, AtService
  <2> QED
    BY <2>3, <2>2, <2>4, <2>5, <2>6 DEF DeployInv, PlaceInv
<1> QED
  BY <1>1, <1>2

\* A built release is recorded, and its announcement withdrawn, in one write.
LEMMA StageBuildsKeeps == ASSUME DeployInv, StageBuilds PROVE DeployInv'
<1>1. /\ proc.pc = "venv"
      /\ proc' = [proc EXCEPT !.pc = "staged"]
      /\ record' = [record EXCEPT !.releases = @ \cup {proc.release}, !.staging = None]
      /\ UNCHANGED <<disk, service, helper, wanted, paused, faults>>
  BY DEF StageBuilds, At, Goto, Records
<1>2. ProcType' /\ proc'.pc = "staged" /\ SameTask
  BY <1>1, Moves DEF DeployInv
<1>3. record' \in Manifest
  BY <1>1 DEF DeployInv, StateInv, TypeOK, Manifest, Choice, PlaceInv, AtRecord
<1>4. TypeOK'
  BY <1>1, <1>3 DEF DeployInv, StateInv, TypeOK
<1>5. RecordInv'
  BY <1>1 DEF DeployInv, StateInv, PlaceInv, RecordInv, AtRecord
<1>6. LinkInv'
  BY <1>1 DEF DeployInv, StateInv, LinkInv, Running
<1>7. DirectoriesOwned'
  BY <1>1 DEF DeployInv, StateInv, PlaceInv, DirectoriesOwned, AtRecord, AtDisk, AtTree
<1>8. UnitInv'
  BY <1>1 DEF DeployInv, StateInv, UnitInv, Running
<1>9. WantedInv'
  BY <1>1 DEF DeployInv, StateInv, WantedInv, Running
<1>10. PausedInv'
  BY <1>1 DEF DeployInv, StateInv, PausedInv
<1>11. AtRecord'
  BY <1>1, <1>2 DEF DeployInv, StateInv, PlaceInv, SameTask, AtRecord
<1>12. AtDisk'
  BY <1>1, <1>2 DEF DeployInv, StateInv, SameTask, AtDisk, AtTree, AtPolicy
<1>13. AtService'
  BY <1>1, <1>2 DEF DeployInv, StateInv, SameTask, AtService
<1> QED
  BY <1>4, <1>5, <1>6, <1>7, <1>8, <1>9, <1>10, <1>2, <1>11, <1>12, <1>13 DEF DeployInv,
    StateInv, PlaceInv

\* A release that could not be built is deleted while its announcement stands.
LEMMA StageRemovesKeeps == ASSUME DeployInv, StageRemoves PROVE DeployInv'
<1>1. /\ proc.pc = "clean"
      /\ proc' = [proc EXCEPT !.pc = "unstage"]
      /\ disk' = [disk EXCEPT !.releases = @ \ {proc.release}]
      /\ UNCHANGED <<record, service, helper, wanted, paused, faults>>
  BY DEF StageRemoves, At, Goto, Writes
<1>2. ProcType' /\ proc'.pc = "unstage" /\ SameTask
  BY <1>1, Moves DEF DeployInv
<1>3. disk' \in Files
  BY <1>1 DEF DeployInv, StateInv, TypeOK, Files
<1>4. TypeOK'
  BY <1>1, <1>3 DEF DeployInv, StateInv, TypeOK
<1>5. RecordInv' /\ WantedInv' /\ PausedInv'
  BY <1>1 DEF DeployInv, StateInv, RecordInv, WantedInv, PausedInv, Running
<1>6. LinkInv'
  BY <1>1 DEF DeployInv, StateInv, PlaceInv, LinkInv, AtRecord, Running
<1>7. DirectoriesOwned'
  BY <1>1 DEF DeployInv, StateInv, PlaceInv, DirectoriesOwned, AtRecord
<1>8. UnitInv'
  BY <1>1 DEF DeployInv, StateInv, UnitInv, Running
<1>9. AtRecord'
  BY <1>1, <1>2 DEF DeployInv, StateInv, PlaceInv, SameTask, AtRecord
<1>10. AtDisk'
  BY <1>1, <1>2 DEF DeployInv, StateInv, SameTask, AtDisk, AtTree, AtPolicy
<1>11. AtService'
  BY <1>1, <1>2 DEF DeployInv, StateInv, SameTask, AtService
<1> QED
  BY <1>4, <1>5, <1>6, <1>7, <1>8, <1>2, <1>9, <1>10, <1>11 DEF DeployInv, StateInv, PlaceInv

\* Only then is the announcement withdrawn.
LEMMA StageGivesUpKeeps == ASSUME DeployInv, StageGivesUp PROVE DeployInv'
<1>1. /\ proc.pc = "unstage"
      /\ proc' = NoProc
      /\ record' = [record EXCEPT !.staging = None, !.releases = @ \ {proc.release}]
      /\ UNCHANGED <<disk, service, helper, wanted, paused, faults>>
  BY DEF StageGivesUp, At, Exit, Records
<1>2. ProcType' /\ PlaceInv'
  BY <1>1, AtRest
<1>3. record' \in Manifest
  BY <1>1 DEF DeployInv, StateInv, TypeOK, Manifest, Choice, PlaceInv
<1>4. TypeOK'
  BY <1>1, <1>3 DEF DeployInv, StateInv, TypeOK
<1>5. RecordInv'
  BY <1>1 DEF DeployInv, StateInv, PlaceInv, RecordInv, AtRecord
<1>6. LinkInv'
  BY <1>1 DEF DeployInv, StateInv, PlaceInv, LinkInv, AtRecord, Running
<1>7. DirectoriesOwned'
  BY <1>1 DEF DeployInv, StateInv, PlaceInv, DirectoriesOwned, AtRecord, AtDisk, AtTree
<1>8. UnitInv'
  BY <1>1 DEF DeployInv, StateInv, UnitInv, Running
<1>9. WantedInv'
  BY <1>1 DEF DeployInv, StateInv, WantedInv, Running
<1>10. PausedInv'
  BY <1>1 DEF DeployInv, StateInv, PausedInv
<1> QED
  BY <1>4, <1>5, <1>6, <1>7, <1>8, <1>9, <1>10, <1>2 DEF DeployInv, StateInv

\* An upgrade to the current release ends here.
LEMMA UpgradeStagedKeeps == ASSUME DeployInv, UpgradeStaged PROVE DeployInv'
<1>1. CASE proc.release = record.current
  <2>1. /\ proc.pc = "staged"
        /\ proc.op = "upgrade"
        /\ proc' = NoProc
        /\ UNCHANGED <<record, disk, service, helper, wanted, paused, faults>>
    BY <1>1 DEF UpgradeStaged, At, Exit, Process
  <2>2. ProcType' /\ PlaceInv'
    BY <2>1, AtRest
  <2>3. StateInv'
    BY <2>1, Undisturbed DEF DeployInv
  <2> QED
    BY <2>3, <2>2 DEF DeployInv
<1>2. CASE proc.release # record.current
  <2>1. /\ proc.pc = "staged"
        /\ proc.op = "upgrade"
        /\ proc' = [proc EXCEPT !.pc = "activate"]
        /\ UNCHANGED <<record, disk, service, helper, wanted, paused, faults>>
    BY <1>2 DEF UpgradeStaged, At, Goto, Process
  <2>2. ProcType' /\ proc'.pc = "activate" /\ SameTask
    BY <2>1, Moves DEF DeployInv
  <2>3. StateInv'
    BY <2>1, Undisturbed DEF DeployInv
  <2>4. AtRecord'
    BY <1>2, <2>1, <2>2 DEF DeployInv, StateInv, PlaceInv, SameTask, AtRecord
  <2>5. AtDisk'
    BY <1>2, <2>1, <2>2 DEF DeployInv, StateInv, PlaceInv, SameTask, UnitInv, AtRecord, AtDisk,
      AtTree, AtPolicy, Carries
  <2>6. AtService'
    BY <1>2, <2>1, <2>2 DEF DeployInv, StateInv, SameTask, AtService
  <2> QED
    BY <2>3, <2>2, <2>4, <2>5, <2>6 DEF DeployInv, PlaceInv
<1> QED
  BY <1>1, <1>2

\* install() writes the unit and the policy files; the agent is not started yet.
LEMMA InstallUnitKeeps == ASSUME DeployInv, InstallUnit PROVE DeployInv'
<1>1. CASE record.lifecycle
  <2>1. /\ proc.pc = "staged"
        /\ proc.op = "install"
        /\ proc' = [proc EXCEPT !.pc = "prepare"]
        /\ disk' = [disk EXCEPT !.unit = IF @ = "absent" THEN record.policy ELSE @,
                                !.files = [f \in File |-> record.policy]]
        /\ UNCHANGED <<record, service, helper, wanted, paused, faults>>
    BY <1>1 DEF InstallUnit, At, Goto, Writes
  <2>2. ProcType' /\ proc'.pc = "prepare" /\ SameTask
    BY <2>1, Moves DEF DeployInv
  <2>3. disk' \in Files
    BY <1>1, <2>1 DEF DeployInv, StateInv, TypeOK, Files, PlaceInv, Manifest
  <2>4. TypeOK'
    BY <2>1, <2>3 DEF DeployInv, StateInv, TypeOK
  <2>5. RecordInv' /\ WantedInv' /\ PausedInv'
    BY <2>1 DEF DeployInv, StateInv, RecordInv, WantedInv, PausedInv, Running
  <2>6. LinkInv'
    BY <1>1, <2>1 DEF DeployInv, StateInv, LinkInv, Running
  <2>7. DirectoriesOwned'
    BY <2>1 DEF DeployInv, StateInv, DirectoriesOwned
  <2>8. UnitInv'
    BY <1>1, <2>1 DEF DeployInv, StateInv, UnitInv, Running
  <2>9. AtRecord'
    BY <1>1, <2>1, <2>2 DEF DeployInv, StateInv, PlaceInv, SameTask, AtRecord
  <2>10. AtDisk'
    BY <1>1, <2>1, <2>2 DEF DeployInv, StateInv, PlaceInv, SameTask, UnitInv, AtRecord, AtDisk,
      AtTree, AtPolicy, Carries
  <2>11. AtService'
    BY <1>1, <2>1, <2>2 DEF DeployInv, StateInv, SameTask, AtService
  <2> QED
    BY <2>4, <2>5, <2>6, <2>7, <2>8, <2>2, <2>9, <2>10, <2>11 DEF DeployInv, StateInv, PlaceInv
<1>2. CASE ~record.lifecycle
  <2>1. /\ proc.pc = "staged"
        /\ proc.op = "install"
        /\ proc' = [proc EXCEPT !.pc = "activate"]
        /\ disk' = [disk EXCEPT !.unit = IF @ = "absent" THEN record.policy ELSE @,
                                !.files = [f \in File |-> record.policy]]
        /\ UNCHANGED <<record, service, helper, wanted, paused, faults>>
    BY <1>2 DEF InstallUnit, At, Goto, Writes
  <2>2. ProcType' /\ proc'.pc = "activate" /\ SameTask
    BY <2>1, Moves DEF DeployInv
  <2>3. disk' \in Files
    BY <1>2, <2>1 DEF DeployInv, StateInv, TypeOK, Files, PlaceInv, Manifest
  <2>4. TypeOK'
    BY <2>1, <2>3 DEF DeployInv, StateInv, TypeOK
  <2>5. RecordInv' /\ WantedInv' /\ PausedInv'
    BY <2>1 DEF DeployInv, StateInv, RecordInv, WantedInv, PausedInv, Running
  <2>6. LinkInv'
    BY <1>2, <2>1 DEF DeployInv, StateInv, LinkInv, Running
  <2>7. DirectoriesOwned'
    BY <2>1 DEF DeployInv, StateInv, DirectoriesOwned
  <2>8. UnitInv'
    BY <1>2, <2>1 DEF DeployInv, StateInv, UnitInv, Running
  <2>9. AtRecord'
    BY <1>2, <2>1, <2>2 DEF DeployInv, StateInv, PlaceInv, SameTask, AtRecord
  <2>10. AtDisk'
    BY <1>2, <2>1, <2>2 DEF DeployInv, StateInv, SameTask, AtDisk, AtTree, AtPolicy, Carries
  <2>11. AtService'
    BY <1>2, <2>1, <2>2 DEF DeployInv, StateInv, SameTask, AtService
  <2> QED
    BY <2>4, <2>5, <2>6, <2>7, <2>8, <2>2, <2>9, <2>10, <2>11 DEF DeployInv, StateInv, PlaceInv
<1> QED
  BY <1>1, <1>2

\* With a helper, the installation is recorded as prepared before it is started.
LEMMA InstallPreparesKeeps == ASSUME DeployInv, InstallPrepares PROVE DeployInv'
<1>1. /\ proc.pc = "prepare"
      /\ proc' = [proc EXCEPT !.pc = "helper on"]
      /\ record' = [record EXCEPT !.status = "preparing"]
      /\ UNCHANGED <<disk, service, helper, wanted, paused, faults>>
  BY DEF InstallPrepares, At, Goto, Records
<1>2. ProcType' /\ proc'.pc = "helper on" /\ SameTask
  BY <1>1, Moves DEF DeployInv
<1>3. record' \in Manifest
  BY <1>1 DEF DeployInv, StateInv, TypeOK, Manifest, PlaceInv
<1>4. TypeOK'
  BY <1>1, <1>3 DEF DeployInv, StateInv, TypeOK, PlaceInv, Manifest, AtRecord
<1>5. RecordInv'
  BY <1>1 DEF DeployInv, StateInv, PlaceInv, TypeOK, Manifest, RecordInv, AtRecord
<1>6. LinkInv'
  BY <1>1 DEF DeployInv, StateInv, PlaceInv, TypeOK, Manifest, LinkInv, AtRecord, Running
<1>7. DirectoriesOwned'
  BY <1>1 DEF DeployInv, StateInv, PlaceInv, TypeOK, Manifest, DirectoriesOwned, AtRecord
<1>8. UnitInv'
  BY <1>1 DEF DeployInv, StateInv, PlaceInv, TypeOK, Manifest, UnitInv, Running
<1>9. WantedInv'
  BY <1>1 DEF DeployInv, StateInv, TypeOK, Manifest, WantedInv
<1>10. PausedInv'
  BY <1>1 DEF DeployInv, StateInv, TypeOK, Manifest, PausedInv
<1>11. AtRecord'
  BY <1>1, <1>2 DEF DeployInv, StateInv, PlaceInv, TypeOK, Manifest, SameTask, AtRecord
<1>12. AtDisk'
  BY <1>1, <1>2 DEF DeployInv, StateInv, PlaceInv, TypeOK, Manifest, SameTask, AtDisk, AtTree,
    AtPolicy, Carries
<1>13. AtService'
  BY <1>1, <1>2 DEF DeployInv, StateInv, SameTask, AtService
<1> QED
  BY <1>4, <1>5, <1>6, <1>7, <1>8, <1>9, <1>10, <1>2, <1>11, <1>12, <1>13 DEF DeployInv,
    StateInv, PlaceInv

\* The helper is enabled and started.
LEMMA InstallStartsHelperKeeps == ASSUME DeployInv, InstallStartsHelper PROVE DeployInv'
<1> SUFFICES ASSUME HelperOwned PROVE DeployInv'
  <2>1. CASE ~HelperOwned
    <3>1. proc' = NoProc /\ UNCHANGED <<record, disk, service, helper, wanted, paused, faults>>
      BY <2>1 DEF InstallStartsHelper, Exit
    <3> QED BY <3>1, AtRest, Undisturbed DEF DeployInv
  <2> QED BY <2>1
<1>1. /\ proc.pc = "helper on"
      /\ proc' = [proc EXCEPT !.pc = "activate"]
      /\ helper' = TRUE
      /\ UNCHANGED <<record, disk, service, wanted, paused, faults>>
  BY DEF InstallStartsHelper, At, Goto
<1>2. ProcType' /\ proc'.pc = "activate" /\ SameTask
  BY <1>1, Moves DEF DeployInv
<1>3. TypeOK'
  BY <1>1 DEF DeployInv, StateInv, TypeOK
<1>4. RecordInv' /\ LinkInv' /\ DirectoriesOwned' /\ UnitInv' /\ WantedInv'
  BY <1>1, HelperOnly DEF DeployInv
<1>5. PausedInv'
  BY <1>1 DEF DeployInv, StateInv, PlaceInv, PausedInv, AtRecord
<1>6. AtRecord'
  BY <1>1, <1>2 DEF DeployInv, StateInv, PlaceInv, SameTask, AtRecord
<1>7. AtDisk'
  BY <1>1, <1>2 DEF DeployInv, StateInv, PlaceInv, SameTask, AtDisk, AtTree, AtPolicy, Carries
<1>8. AtService'
  BY <1>1, <1>2 DEF DeployInv, StateInv, SameTask, AtService
<1> QED
  BY <1>3, <1>4, <1>5, <1>2, <1>6, <1>7, <1>8 DEF DeployInv, StateInv, PlaceInv

\* The switch is in the manifest before the agent is stopped.
LEMMA ActivateBeginsKeeps == ASSUME DeployInv, ActivateBegins PROVE DeployInv'
<1> DEFINE T == [kind |-> "switch", from |-> record.current, to |-> proc.release,
                 was_active |-> Running, helper |-> FALSE]
<1>1. /\ proc.pc = "activate" /\ MayActivate
      /\ proc' = [proc EXCEPT !.pc = "stop"]
      /\ record' = [record EXCEPT !.pending = T]
      /\ UNCHANGED <<disk, service, helper, wanted, paused, faults>>
  BY DEF ActivateBegins, At, Goto, Records, Begun
<1>2. /\ T \in Transaction /\ T.kind = "switch" /\ T.from = record.current
      /\ T.was_active <=> Running
  BY DEF DeployInv, StateInv, TypeOK, Manifest, ProcType, Transaction, Running
<1> HIDE DEF T
<1>3. /\ record' \in Manifest /\ record'.pending = T
      /\ record'.status = record.status /\ record'.releases = record.releases
      /\ record'.current = record.current /\ record'.previous = record.previous
      /\ record'.staging = record.staging /\ record'.policy = record.policy
      /\ record'.restore = record.restore
  BY <1>1, <1>2 DEF DeployInv, StateInv, TypeOK, Manifest
<1>4. /\ record.pending.kind = "none" /\ record.staging = None /\ record.restore = "none"
      /\ record.status # "removing" /\ disk.unit = record.policy
  BY <1>1, NoTransaction DEF MayActivate, Recovered, UnitOwned
<1>5. /\ proc.release \in record.releases /\ proc.op \in {"install", "upgrade", "rollback"}
      /\ \A f \in File : disk.files[f] = record.policy
  BY <1>1, <1>4 DEF DeployInv, PlaceInv, AtRecord, AtDisk, AtPolicy, Carries
<1>6. record.status # "absent"
  BY <1>5 DEF DeployInv, StateInv, RecordInv, NoRecord
<1>7. TypeOK' /\ DirectoriesOwned'
  BY <1>1, <1>3 DEF DeployInv, StateInv, TypeOK, DirectoriesOwned
<1>8. RecordInv'
  BY <1>2, <1>3, <1>4, <1>6 DEF DeployInv, StateInv, RecordInv
<1>9. LinkInv' /\ UnitInv'
  BY <1>1, <1>4 DEF DeployInv, StateInv, LinkInv, UnitInv, Running
<1>10. WantedInv'
  BY <1>1, <1>2, <1>4 DEF DeployInv, StateInv, WantedInv
<1>11. PausedInv'
  BY <1>1, <1>2, <1>4 DEF DeployInv, StateInv, PausedInv
<1>12. ProcType' /\ proc'.pc = "stop" /\ SameTask
  BY <1>1, Moves DEF DeployInv
<1>13. AtRecord'
  BY <1>2, <1>3, <1>4, <1>5, <1>12 DEF AtRecord, SameTask
<1>14. AtDisk'
  BY <1>1, <1>4, <1>5, <1>12 DEF AtDisk, AtTree, AtPolicy, Carries, SameTask
<1>15. AtService'
  BY <1>12 DEF AtService
<1> QED
  BY <1>7, <1>8, <1>9, <1>10, <1>11, <1>12, <1>13, <1>14, <1>15 DEF DeployInv, StateInv, PlaceInv

\* A switch that must not begin changes nothing.
LEMMA ActivateRefusedKeeps == ASSUME DeployInv, ActivateRefused PROVE DeployInv'
<1>1. /\ proc.pc = "activate"
      /\ proc' = NoProc
      /\ UNCHANGED <<record, disk, service, helper, wanted, paused, faults>>
  BY DEF ActivateRefused, At, Exit, Process
<1>2. ProcType' /\ PlaceInv'
  BY <1>1, AtRest
<1>3. StateInv'
  BY <1>1, Undisturbed DEF DeployInv
<1> QED
  BY <1>3, <1>2 DEF DeployInv

\* The agent is stopped for the switch; whether it ran is in the transaction.
LEMMA ActivateStopsKeeps == ASSUME DeployInv, ActivateStops PROVE DeployInv'
<1>1. /\ proc.pc = "stop"
      /\ proc' = [proc EXCEPT !.pc = "switch"]
      /\ service' = [service EXCEPT !.running = None]
      /\ UNCHANGED <<record, disk, helper, wanted, paused, faults>>
  BY DEF ActivateStops, At, Goto, Commands, Stops
<1>2. ProcType' /\ proc'.pc = "switch" /\ SameTask
  BY <1>1, Moves DEF DeployInv
<1>3. service' \in Agent
  BY <1>1 DEF DeployInv, StateInv, TypeOK, Agent, Choice
<1>4. TypeOK'
  BY <1>1, <1>3 DEF DeployInv, StateInv, TypeOK
<1>5. RecordInv' /\ DirectoriesOwned' /\ PausedInv'
  BY <1>1 DEF DeployInv, StateInv, RecordInv, DirectoriesOwned, PausedInv
<1>6. LinkInv'
  BY <1>1 DEF DeployInv, StateInv, LinkInv, Running
<1>7. UnitInv'
  BY <1>1 DEF DeployInv, StateInv, UnitInv, Running
<1>8. WantedInv'
  BY <1>1 DEF DeployInv, StateInv, PlaceInv, WantedInv, AtRecord
<1>9. AtRecord'
  BY <1>1, <1>2 DEF DeployInv, StateInv, PlaceInv, SameTask, AtRecord
<1>10. AtDisk'
  BY <1>1, <1>2 DEF DeployInv, StateInv, PlaceInv, SameTask, AtDisk, AtTree, AtPolicy, Carries
<1>11. AtService'
  BY <1>1, <1>2 DEF DeployInv, StateInv, SameTask, AtService, Running
<1> QED
  BY <1>4, <1>5, <1>6, <1>7, <1>8, <1>2, <1>9, <1>10, <1>11 DEF DeployInv, StateInv, PlaceInv

\* The link is replaced while the agent is down.
LEMMA ActivateSwitchesKeeps == ASSUME DeployInv, ActivateSwitches PROVE DeployInv'
<1>1. /\ proc.pc = "switch"
      /\ proc' = [proc EXCEPT !.pc = "start"]
      /\ disk' = [disk EXCEPT !.link = proc.release]
      /\ UNCHANGED <<record, service, helper, wanted, paused, faults>>
  BY DEF ActivateSwitches, At, Goto, Writes
<1>2. ProcType' /\ proc'.pc = "start" /\ SameTask
  BY <1>1, Moves DEF DeployInv
<1>3. disk' \in Files
  BY <1>1 DEF DeployInv, StateInv, TypeOK, Files, ProcType, PlaceInv
<1>4. TypeOK'
  BY <1>1, <1>3 DEF DeployInv, StateInv, TypeOK
<1>5. RecordInv' /\ WantedInv' /\ PausedInv'
  BY <1>1 DEF DeployInv, StateInv, RecordInv, WantedInv, PausedInv, Running
<1>6. LinkInv'
  BY <1>1 DEF DeployInv, StateInv, PlaceInv, LinkInv, DirectoriesOwned, AtRecord, AtService,
    Running
<1>7. DirectoriesOwned'
  BY <1>1 DEF DeployInv, StateInv, DirectoriesOwned
<1>8. UnitInv'
  BY <1>1 DEF DeployInv, StateInv, UnitInv, Running
<1>9. AtRecord'
  BY <1>1, <1>2 DEF DeployInv, StateInv, PlaceInv, SameTask, AtRecord
<1>10. AtDisk'
  BY <1>1, <1>2 DEF DeployInv, StateInv, PlaceInv, SameTask, AtDisk, AtTree, AtPolicy, Carries
<1>11. AtService'
  BY <1>1, <1>2 DEF DeployInv, StateInv, PlaceInv, SameTask, AtService, Running
<1> QED
  BY <1>4, <1>5, <1>6, <1>7, <1>8, <1>2, <1>9, <1>10, <1>11 DEF DeployInv, StateInv, PlaceInv

\* The agent is started again if it ran, or is new.
LEMMA ActivateStartsKeeps == ASSUME DeployInv, ActivateStarts PROVE DeployInv'
<1>1. CASE First \/ record.pending.was_active
  <2>1. /\ proc.pc = "start"
        /\ proc' = [proc EXCEPT !.pc = "ready"]
        /\ service' = [service EXCEPT !.running = disk.link, !.policy = disk.unit,
                                      !.enabled = @ \/ First]
        /\ UNCHANGED <<record, disk, helper, wanted, paused, faults>>
    BY <1>1 DEF ActivateStarts, At, Goto, Commands, Starts
  <2>2. ProcType' /\ proc'.pc = "ready" /\ SameTask
    BY <2>1, Moves DEF DeployInv
  <2>3. service' \in Agent
    BY <1>1, <2>1 DEF DeployInv, StateInv, TypeOK, Agent, Files
  <2>4. TypeOK'
    BY <2>1, <2>3 DEF DeployInv, StateInv, TypeOK
  <2>5. RecordInv' /\ DirectoriesOwned' /\ PausedInv'
    BY <2>1 DEF DeployInv, StateInv, RecordInv, DirectoriesOwned, PausedInv
  <2>6. LinkInv'
    BY <2>1 DEF DeployInv, StateInv, LinkInv
  <2>7. UnitInv'
    BY <1>1, <2>1 DEF DeployInv, StateInv, PlaceInv, TypeOK, Manifest, UnitInv, AtDisk, AtPolicy,
      Policy
  <2>8. WantedInv'
    BY <1>1, <2>1 DEF DeployInv, StateInv, PlaceInv, WantedInv, AtRecord
  <2>9. AtRecord'
    BY <1>1, <2>1, <2>2 DEF DeployInv, StateInv, PlaceInv, SameTask, AtRecord
  <2>10. AtDisk'
    BY <1>1, <2>1, <2>2 DEF DeployInv, StateInv, PlaceInv, SameTask, AtDisk, AtTree, AtPolicy,
      Carries
  <2>11. AtService'
    BY <1>1, <2>1, <2>2 DEF DeployInv, StateInv, SameTask, AtService, First
  <2> QED
    BY <2>4, <2>5, <2>6, <2>7, <2>8, <2>2, <2>9, <2>10, <2>11 DEF DeployInv, StateInv, PlaceInv
<1>2. CASE ~(First \/ record.pending.was_active)
  <2>1. /\ proc.pc = "start"
        /\ proc' = [proc EXCEPT !.pc = "commit"]
        /\ UNCHANGED <<record, disk, service, helper, wanted, paused, faults>>
    BY <1>2 DEF ActivateStarts, At, Goto, Process, Starts
  <2>2. ProcType' /\ proc'.pc = "commit" /\ SameTask
    BY <2>1, Moves DEF DeployInv
  <2>3. StateInv'
    BY <2>1, Undisturbed DEF DeployInv
  <2>4. AtRecord'
    BY <1>2, <2>1, <2>2 DEF DeployInv, StateInv, PlaceInv, SameTask, AtRecord
  <2>5. AtDisk'
    BY <1>2, <2>1, <2>2 DEF DeployInv, StateInv, PlaceInv, SameTask, AtDisk, AtTree, AtPolicy,
      Carries
  <2>6. AtService'
    BY <1>2, <2>1, <2>2 DEF DeployInv, StateInv, PlaceInv, SameTask, AtService, Running, First
  <2> QED
    BY <2>3, <2>2, <2>4, <2>5, <2>6 DEF DeployInv, PlaceInv
<1> QED
  BY <1>1, <1>2

\* The new release reports that it is ready.
LEMMA ActivateReadyKeeps == ASSUME DeployInv, ActivateReady PROVE DeployInv'
<1>1. /\ proc.pc = "ready"
      /\ service.running = proc.release
      /\ proc' = [proc EXCEPT !.pc = "commit"]
      /\ UNCHANGED <<record, disk, service, helper, wanted, paused, faults>>
  BY DEF ActivateReady, At, Goto, Process
<1>2. ProcType' /\ proc'.pc = "commit" /\ SameTask
  BY <1>1, Moves DEF DeployInv
<1>3. StateInv'
  BY <1>1, Undisturbed DEF DeployInv
<1>4. AtRecord'
  BY <1>1, <1>2 DEF DeployInv, StateInv, PlaceInv, SameTask, AtRecord
<1>5. AtDisk'
  BY <1>1, <1>2 DEF DeployInv, StateInv, PlaceInv, SameTask, AtDisk, AtTree, AtPolicy, Carries
<1>6. AtService'
  BY <1>1, <1>2, ReleaseAssumption DEF DeployInv, StateInv, PlaceInv, TypeOK, Manifest, SameTask,
    AtRecord, AtService, Running, First
<1> QED
  BY <1>3, <1>2, <1>4, <1>5, <1>6 DEF DeployInv, PlaceInv

\* The commit names the release that the link has selected since ActivateSwitches.
LEMMA ActivateCommitsKeeps == ASSUME DeployInv, ActivateCommits PROVE DeployInv'
<1>1. /\ proc.pc = "commit" /\ proc' = NoProc
      /\ record' = [record EXCEPT !.current = proc.release, !.previous = record.pending.from,
                                  !.pending = NoPending, !.status = "installed"]
      /\ wanted' = (wanted \/ First)
      /\ UNCHANGED <<disk, service, helper, paused, faults>>
  BY DEF ActivateCommits, At, Exit, Records
<1>2. /\ proc.release \in record.releases /\ record.pending.kind = "switch"
      /\ record.status # "removing"
      /\ disk.link = proc.release /\ disk.unit = record.policy
      /\ \A f \in File : disk.files[f] = record.policy
      /\ Running <=> First \/ record.pending.was_active
  BY <1>1 DEF DeployInv, PlaceInv, AtRecord, AtDisk, AtTree, AtPolicy, Carries, AtService
<1>3. proc.release \in Release /\ record.pending \in Transaction
  BY <1>2 DEF DeployInv, StateInv, TypeOK, Manifest
<1>4. proc.release # None
  BY <1>3, ReleaseAssumption
<1>5. record.pending.from = record.current /\ record.staging = None /\ record.restore = "none"
  BY <1>2 DEF DeployInv, StateInv, RecordInv
<1>6. /\ record' \in Manifest /\ record'.status = "installed" /\ record'.current = proc.release
      /\ record'.previous = record.current /\ record'.pending = NoPending
      /\ record'.releases = record.releases /\ record'.staging = record.staging
      /\ record'.policy = record.policy /\ record'.restore = record.restore
  BY <1>1, <1>3, <1>5, NoTransaction DEF DeployInv, StateInv, TypeOK, Manifest, Choice
<1>7. wanted \in BOOLEAN /\ wanted' \in BOOLEAN
  BY <1>1 DEF DeployInv, StateInv, TypeOK, First
<1>8. TypeOK'
  BY <1>1, <1>4, <1>6, <1>7 DEF DeployInv, StateInv, TypeOK
<1>9. RecordInv'
  BY <1>5, <1>6, NoTransaction DEF RecordInv
<1>10. LinkInv'
  BY <1>1, <1>2 DEF DeployInv, StateInv, LinkInv, Running
<1>11. DirectoriesOwned'
  BY <1>1, <1>2, <1>6 DEF DeployInv, StateInv, DirectoriesOwned
<1>12. UnitInv'
  <2>1. Running => service.policy = record.policy
    BY <1>2 DEF DeployInv, StateInv, UnitInv
  <2>2. record.policy # "absent"
    BY DEF DeployInv, StateInv, TypeOK, Manifest, Policy
  <2> QED BY <1>1, <1>2, <1>6, <2>1, <2>2 DEF UnitInv, Running
<1>13. WantedInv'
  <2>1. Running' <=> Running
    BY <1>1 DEF Running
  <2>2. CASE record.status = "installed"
    <3>1. ~First /\ (wanted <=> record.pending.was_active)
      BY <1>2, <1>5, <2>2 DEF DeployInv, StateInv, TypeOK, WantedInv, First
    <3> QED BY <1>1, <1>2, <1>6, <2>1, <3>1, NoTransaction DEF WantedInv
  <2>3. CASE record.status # "installed"
    <3>1. First
      BY <1>2, <1>5, <2>3 DEF DeployInv, StateInv, TypeOK, First
    <3> QED BY <1>1, <1>2, <1>6, <2>1, <3>1, NoTransaction DEF WantedInv
  <2> QED BY <2>2, <2>3
<1>14. PausedInv'
  BY <1>1, <1>2, NoTransaction DEF DeployInv, StateInv, PausedInv
<1>15. ProcType' /\ PlaceInv'
  BY <1>1, AtRest
<1> QED
  BY <1>8, <1>9, <1>10, <1>11, <1>12, <1>13, <1>14, <1>15 DEF DeployInv, StateInv

\* recover() finds in the manifest alone what was interrupted.
LEMMA RecoverDispatchKeeps == ASSUME DeployInv, RecoverDispatch PROVE DeployInv'
<1>1. CASE record.pending.kind = "policy"
  <2>1. /\ proc.pc = "recover"
        /\ proc' = [proc EXCEPT !.pc = "undo stop"]
        /\ UNCHANGED <<record, disk, service, helper, wanted, paused, faults>>
    BY <1>1 DEF RecoverDispatch, At, Goto, Process
  <2>2. ProcType' /\ proc'.pc = "undo stop" /\ SameTask
    BY <2>1, Moves DEF DeployInv
  <2>3. StateInv'
    BY <2>1, Undisturbed DEF DeployInv
  <2>4. AtRecord'
    BY <1>1, <2>1, <2>2 DEF DeployInv, StateInv, SameTask, AtRecord
  <2>5. AtDisk'
    BY <1>1, <2>1, <2>2 DEF DeployInv, StateInv, SameTask, AtDisk, AtTree, AtPolicy
  <2>6. AtService'
    BY <1>1, <2>1, <2>2 DEF DeployInv, StateInv, SameTask, AtService
  <2> QED
    BY <2>3, <2>2, <2>4, <2>5, <2>6 DEF DeployInv, PlaceInv
<1>2. CASE record.pending.kind # "policy" /\ record.restore # "none"
  <2>1. /\ proc.pc = "recover"
        /\ proc' = [proc EXCEPT !.pc = "restore"]
        /\ UNCHANGED <<record, disk, service, helper, wanted, paused, faults>>
    BY <1>2 DEF RecoverDispatch, At, Goto, Process
  <2>2. ProcType' /\ proc'.pc = "restore" /\ SameTask
    BY <2>1, Moves DEF DeployInv
  <2>3. StateInv'
    BY <2>1, Undisturbed DEF DeployInv
  <2>4. AtRecord'
    BY <1>2, <2>1, <2>2 DEF DeployInv, StateInv, SameTask, AtRecord
  <2>5. AtDisk'
    BY <1>2, <2>1, <2>2 DEF DeployInv, StateInv, SameTask, AtDisk, AtTree, AtPolicy
  <2>6. AtService'
    BY <1>2, <2>1, <2>2 DEF DeployInv, StateInv, SameTask, AtService
  <2> QED
    BY <2>3, <2>2, <2>4, <2>5, <2>6 DEF DeployInv, PlaceInv
<1>3. CASE record.pending.kind # "policy" /\ record.restore = "none" /\ record.status = "removing"
  <2>1. /\ proc.pc = "recover"
        /\ proc' = [proc EXCEPT !.pc = "helper off"]
        /\ UNCHANGED <<record, disk, service, helper, wanted, paused, faults>>
    BY <1>3 DEF RecoverDispatch, At, Goto, Process
  <2>2. ProcType' /\ proc'.pc = "helper off" /\ SameTask
    BY <2>1, Moves DEF DeployInv
  <2>3. StateInv'
    BY <2>1, Undisturbed DEF DeployInv
  <2>4. AtRecord'
    BY <1>3, <2>1, <2>2 DEF DeployInv, StateInv, SameTask, AtRecord
  <2>5. AtDisk'
    BY <1>3, <2>1, <2>2 DEF DeployInv, StateInv, SameTask, AtDisk, AtTree, AtPolicy
  <2>6. AtService'
    BY <1>3, <2>1, <2>2 DEF DeployInv, StateInv, SameTask, AtService
  <2> QED
    BY <2>3, <2>2, <2>4, <2>5, <2>6 DEF DeployInv, PlaceInv
<1>4. CASE /\ record.pending.kind # "policy" /\ record.restore = "none"
          /\ record.status # "removing" /\ record.staging # None
  <2>1. /\ proc.pc = "recover"
        /\ proc' = [proc EXCEPT !.pc = "unstaged"]
        /\ UNCHANGED <<record, disk, service, helper, wanted, paused, faults>>
    BY <1>4 DEF RecoverDispatch, At, Goto, Process
  <2>2. ProcType' /\ proc'.pc = "unstaged" /\ SameTask
    BY <2>1, Moves DEF DeployInv
  <2>3. StateInv'
    BY <2>1, Undisturbed DEF DeployInv
  <2>4. AtRecord'
    BY <1>4, <2>1, <2>2 DEF DeployInv, StateInv, PlaceInv, SameTask, RecordInv, AtRecord, NoRecord
  <2>5. AtDisk'
    BY <1>4, <2>1, <2>2 DEF DeployInv, StateInv, SameTask, AtDisk, AtTree, AtPolicy
  <2>6. AtService'
    BY <1>4, <2>1, <2>2 DEF DeployInv, StateInv, SameTask, AtService
  <2> QED
    BY <2>3, <2>2, <2>4, <2>5, <2>6 DEF DeployInv, PlaceInv
<1>5. CASE /\ record.pending.kind # "policy" /\ record.restore = "none"
          /\ record.status # "removing" /\ record.staging = None
  <2>1. /\ proc.pc = "recover"
        /\ proc' = [proc EXCEPT !.pc = "back"]
        /\ UNCHANGED <<record, disk, service, helper, wanted, paused, faults>>
    BY <1>5 DEF RecoverDispatch, At, Goto, Process
  <2>2. ProcType' /\ proc'.pc = "back" /\ SameTask
    BY <2>1, Moves DEF DeployInv
  <2>3. StateInv'
    BY <2>1, Undisturbed DEF DeployInv
  <2>4. AtRecord'
    BY <1>5, <2>1, <2>2 DEF DeployInv, StateInv, SameTask, AtRecord
  <2>5. AtDisk'
    BY <1>5, <2>1, <2>2 DEF DeployInv, StateInv, SameTask, AtDisk, AtTree, AtPolicy
  <2>6. AtService'
    BY <1>5, <2>1, <2>2 DEF DeployInv, StateInv, SameTask, AtService
  <2> QED
    BY <2>3, <2>2, <2>4, <2>5, <2>6 DEF DeployInv, PlaceInv
<1> QED
  BY <1>1, <1>2, <1>3, <1>4, <1>5

\* The interrupted release is deleted, unless it was recorded as complete.
LEMMA RecoverStagingKeeps == ASSUME DeployInv, RecoverStaging PROVE DeployInv'
<1>1. /\ proc.pc = "unstaged"
      /\ proc' = [proc EXCEPT !.pc = "restaged"]
      /\ disk' = [disk EXCEPT !.releases = @ \ ({record.staging} \ record.releases)]
      /\ UNCHANGED <<record, service, helper, wanted, paused, faults>>
  BY DEF RecoverStaging, At, Goto, Writes
<1>2. ProcType' /\ proc'.pc = "restaged" /\ SameTask
  BY <1>1, Moves DEF DeployInv
<1>3. disk' \in Files
  BY <1>1 DEF DeployInv, StateInv, TypeOK, Files
<1>4. TypeOK'
  BY <1>1, <1>3 DEF DeployInv, StateInv, TypeOK
<1>5. RecordInv' /\ WantedInv' /\ PausedInv'
  BY <1>1 DEF DeployInv, StateInv, RecordInv, WantedInv, PausedInv, Running
<1>6. LinkInv'
  BY <1>1 DEF DeployInv, StateInv, LinkInv, Running
<1>7. DirectoriesOwned'
  BY <1>1 DEF DeployInv, StateInv, DirectoriesOwned
<1>8. UnitInv'
  BY <1>1 DEF DeployInv, StateInv, UnitInv, Running
<1>9. AtRecord'
  BY <1>1, <1>2 DEF DeployInv, StateInv, PlaceInv, SameTask, AtRecord
<1>10. AtDisk'
  BY <1>1, <1>2 DEF DeployInv, StateInv, SameTask, DirectoriesOwned, AtDisk, AtTree, AtPolicy
<1>11. AtService'
  BY <1>1, <1>2 DEF DeployInv, StateInv, SameTask, AtService
<1> QED
  BY <1>4, <1>5, <1>6, <1>7, <1>8, <1>2, <1>9, <1>10, <1>11 DEF DeployInv, StateInv, PlaceInv

\* Only then is its announcement withdrawn.
LEMMA RecoverStagedKeeps == ASSUME DeployInv, RecoverStaged PROVE DeployInv'
<1>1. /\ proc.pc = "restaged"
      /\ proc' = [proc EXCEPT !.pc = "back"]
      /\ record' = [record EXCEPT !.staging = None]
      /\ UNCHANGED <<disk, service, helper, wanted, paused, faults>>
  BY DEF RecoverStaged, At, Goto, Records, Restaged
<1>2. ProcType' /\ proc'.pc = "back" /\ SameTask
  BY <1>1, Moves DEF DeployInv
<1>3. record' \in Manifest
  BY <1>1 DEF DeployInv, StateInv, TypeOK, Manifest, Choice, PlaceInv
<1>4. TypeOK'
  BY <1>1, <1>3 DEF DeployInv, StateInv, TypeOK
<1>5. RecordInv'
  BY <1>1 DEF DeployInv, StateInv, PlaceInv, RecordInv, AtRecord
<1>6. LinkInv'
  BY <1>1 DEF DeployInv, StateInv, LinkInv, Running
<1>7. DirectoriesOwned'
  BY <1>1 DEF DeployInv, StateInv, PlaceInv, DirectoriesOwned, AtDisk, AtTree
<1>8. UnitInv'
  BY <1>1 DEF DeployInv, StateInv, UnitInv, Running
<1>9. WantedInv'
  BY <1>1 DEF DeployInv, StateInv, WantedInv, Running
<1>10. PausedInv'
  BY <1>1 DEF DeployInv, StateInv, PausedInv
<1>11. AtRecord'
  BY <1>1, <1>2 DEF DeployInv, StateInv, PlaceInv, SameTask, AtRecord
<1>12. AtDisk'
  BY <1>1, <1>2 DEF DeployInv, StateInv, SameTask, AtDisk, AtTree, AtPolicy
<1>13. AtService'
  BY <1>1, <1>2 DEF DeployInv, StateInv, SameTask, AtService
<1> QED
  BY <1>4, <1>5, <1>6, <1>7, <1>8, <1>9, <1>10, <1>2, <1>11, <1>12, <1>13 DEF DeployInv,
    StateInv, PlaceInv

\* The agent is stopped for the way back, if a switch was interrupted.
LEMMA RecoverStopsKeeps == ASSUME DeployInv, RecoverStops PROVE DeployInv'
<1>1. CASE record.pending = NoPending
  <2>1. /\ proc.pc = "back"
        /\ proc' = NoProc
        /\ UNCHANGED <<record, disk, service, helper, wanted, paused, faults>>
    BY <1>1 DEF RecoverStops, At, Exit, Process, Stops, UnitOwned
  <2>2. ProcType' /\ PlaceInv'
    BY <2>1, AtRest
  <2>3. StateInv'
    BY <2>1, Undisturbed DEF DeployInv
  <2> QED
    BY <2>3, <2>2 DEF DeployInv
<1>2. CASE record.pending # NoPending
  <2>1. /\ proc.pc = "back"
        /\ disk.unit = record.policy
        /\ proc' = [proc EXCEPT !.pc = "back link"]
        /\ service' = [service EXCEPT !.running = None]
        /\ UNCHANGED <<record, disk, helper, wanted, paused, faults>>
    BY <1>2 DEF RecoverStops, At, Goto, Commands, Stops, UnitOwned
  <2>2. ProcType' /\ proc'.pc = "back link" /\ SameTask
    BY <2>1, Moves DEF DeployInv
  <2>3. service' \in Agent
    BY <1>2, <2>1 DEF DeployInv, StateInv, TypeOK, Agent, Choice
  <2>4. TypeOK'
    BY <2>1, <2>3 DEF DeployInv, StateInv, TypeOK
  <2>5. RecordInv' /\ DirectoriesOwned' /\ PausedInv'
    BY <2>1 DEF DeployInv, StateInv, RecordInv, DirectoriesOwned, PausedInv
  <2>6. LinkInv'
    BY <1>2, <2>1 DEF DeployInv, StateInv, PlaceInv, TypeOK, Agent, LinkInv, Running
  <2>7. UnitInv'
    BY <1>2, <2>1 DEF DeployInv, StateInv, PlaceInv, TypeOK, Agent, UnitInv, Running
  <2>8. WantedInv'
    BY <1>2, <2>1 DEF DeployInv, StateInv, WantedInv, RecordInv
  <2>9. AtRecord'
    BY <1>2, <2>1, <2>2 DEF DeployInv, StateInv, PlaceInv, TypeOK, Manifest, SameTask, RecordInv,
      AtRecord, Transaction
  <2>10. AtDisk'
    BY <1>2, <2>1, <2>2 DEF DeployInv, StateInv, SameTask, AtDisk, AtTree, AtPolicy
  <2>11. AtService'
    BY <1>2, <2>1, <2>2 DEF DeployInv, StateInv, PlaceInv, TypeOK, Agent, SameTask, AtService,
      Running
  <2> QED
    BY <2>4, <2>5, <2>6, <2>7, <2>8, <2>2, <2>9, <2>10, <2>11 DEF DeployInv, StateInv, PlaceInv
<1> QED
  BY <1>1, <1>2

\* The link goes back to the release from before the switch.
LEMMA RecoverSwitchesKeeps == ASSUME DeployInv, RecoverSwitches PROVE DeployInv'
<1>1. /\ proc.pc = "back link"
      /\ proc' = [proc EXCEPT !.pc = "back start"]
      /\ disk' = [disk EXCEPT !.link = record.pending.from]
      /\ UNCHANGED <<record, service, helper, wanted, paused, faults>>
  BY DEF RecoverSwitches, At, Goto, Writes
<1>2. ProcType' /\ proc'.pc = "back start" /\ SameTask
  BY <1>1, Moves DEF DeployInv
<1>3. disk' \in Files
  BY <1>1 DEF DeployInv, StateInv, TypeOK, Manifest, Transaction, Files
<1>4. TypeOK'
  BY <1>1, <1>3 DEF DeployInv, StateInv, TypeOK
<1>5. RecordInv' /\ WantedInv' /\ PausedInv'
  BY <1>1 DEF DeployInv, StateInv, RecordInv, WantedInv, PausedInv, Running
<1>6. LinkInv'
  BY <1>1 DEF DeployInv, StateInv, PlaceInv, TypeOK, Files, LinkInv, RecordInv, DirectoriesOwned,
    AtRecord, AtService, Running
<1>7. DirectoriesOwned'
  BY <1>1 DEF DeployInv, StateInv, PlaceInv, TypeOK, Files, DirectoriesOwned
<1>8. UnitInv'
  BY <1>1 DEF DeployInv, StateInv, PlaceInv, TypeOK, Files, UnitInv, Running
<1>9. AtRecord'
  BY <1>1, <1>2 DEF DeployInv, StateInv, PlaceInv, SameTask, AtRecord
<1>10. AtDisk'
  BY <1>1, <1>2 DEF DeployInv, StateInv, PlaceInv, TypeOK, Files, SameTask, AtDisk, AtTree,
    AtPolicy
<1>11. AtService'
  BY <1>1, <1>2 DEF DeployInv, StateInv, PlaceInv, SameTask, AtService, Running
<1> QED
  BY <1>4, <1>5, <1>6, <1>7, <1>8, <1>2, <1>9, <1>10, <1>11 DEF DeployInv, StateInv, PlaceInv

\* The old release is started if it ran; a host without one keeps the agent off.
LEMMA RecoverStartsKeeps == ASSUME DeployInv, RecoverStarts PROVE DeployInv'
<1>1. CASE StartsAgain
  <2>1. /\ proc.pc = "back start"
        /\ proc' = [proc EXCEPT !.pc = "back ready"]
        /\ service' = [service EXCEPT !.running = disk.link, !.policy = disk.unit]
        /\ UNCHANGED <<record, disk, helper, wanted, paused, faults>>
    BY <1>1 DEF RecoverStarts, At, Goto, Commands, Starts
  <2>2. ProcType' /\ proc'.pc = "back ready" /\ SameTask
    BY <2>1, Moves DEF DeployInv
  <2>3. service' \in Agent
    BY <1>1, <2>1 DEF DeployInv, StateInv, TypeOK, Agent, Files
  <2>4. TypeOK'
    BY <2>1, <2>3 DEF DeployInv, StateInv, TypeOK
  <2>5. RecordInv' /\ DirectoriesOwned' /\ PausedInv'
    BY <2>1 DEF DeployInv, StateInv, RecordInv, DirectoriesOwned, PausedInv
  <2>6. LinkInv'
    BY <1>1, <2>1 DEF DeployInv, StateInv, PlaceInv, TypeOK, Agent, LinkInv
  <2>7. UnitInv'
    BY <1>1, <2>1 DEF DeployInv, StateInv, PlaceInv, TypeOK, Manifest, Agent, UnitInv, AtDisk,
      AtPolicy, Policy
  <2>8. WantedInv'
    BY <1>1, <2>1 DEF DeployInv, StateInv, PlaceInv, WantedInv, AtRecord
  <2>9. AtRecord'
    BY <1>1, <2>1, <2>2 DEF DeployInv, StateInv, PlaceInv, SameTask, AtRecord
  <2>10. AtDisk'
    BY <1>1, <2>1, <2>2 DEF DeployInv, StateInv, PlaceInv, SameTask, AtDisk, AtTree, AtPolicy
  <2>11. AtService'
    BY <1>1, <2>1, <2>2 DEF DeployInv, StateInv, SameTask, AtService, StartsAgain
  <2> QED
    BY <2>4, <2>5, <2>6, <2>7, <2>8, <2>2, <2>9, <2>10, <2>11 DEF DeployInv, StateInv, PlaceInv
<1>2. CASE ~StartsAgain
  <2>1. /\ proc.pc = "back start"
        /\ proc' = [proc EXCEPT !.pc = "back save"]
        /\ service' = [service EXCEPT !.enabled = @ /\ record.pending.from # None]
        /\ UNCHANGED <<record, disk, helper, wanted, paused, faults>>
    BY <1>2 DEF RecoverStarts, At, Goto, Commands, Starts
  <2>2. ProcType' /\ proc'.pc = "back save" /\ SameTask
    BY <2>1, Moves DEF DeployInv
  <2>3. service' \in Agent
    BY <2>1 DEF DeployInv, StateInv, TypeOK, Agent
  <2>4. TypeOK'
    BY <2>1, <2>3 DEF DeployInv, StateInv, TypeOK
  <2>5. RecordInv' /\ DirectoriesOwned' /\ PausedInv'
    BY <2>1 DEF DeployInv, StateInv, RecordInv, DirectoriesOwned, PausedInv
  <2>6. LinkInv'
    BY <1>2, <2>1 DEF DeployInv, StateInv, PlaceInv, TypeOK, Agent, LinkInv, Running
  <2>7. UnitInv'
    BY <1>2, <2>1 DEF DeployInv, StateInv, PlaceInv, TypeOK, Agent, UnitInv, Running
  <2>8. WantedInv'
    BY <1>2, <2>1 DEF DeployInv, StateInv, PlaceInv, WantedInv, AtRecord
  <2>9. AtRecord'
    BY <1>2, <2>1, <2>2 DEF DeployInv, StateInv, PlaceInv, SameTask, AtRecord
  <2>10. AtDisk'
    BY <1>2, <2>1, <2>2 DEF DeployInv, StateInv, PlaceInv, SameTask, AtDisk, AtTree, AtPolicy
  <2>11. AtService'
    BY <1>2, <2>1, <2>2 DEF DeployInv, StateInv, PlaceInv, TypeOK, Agent, SameTask, AtService,
      Running, StartsAgain
  <2> QED
    BY <2>4, <2>5, <2>6, <2>7, <2>8, <2>2, <2>9, <2>10, <2>11 DEF DeployInv, StateInv, PlaceInv
<1> QED
  BY <1>1, <1>2

\* The old release reports that it is ready.
LEMMA RecoverReadyKeeps == ASSUME DeployInv, RecoverReady PROVE DeployInv'
<1>1. /\ proc.pc = "back ready"
      /\ service.running = record.pending.from
      /\ proc' = [proc EXCEPT !.pc = "back save"]
      /\ UNCHANGED <<record, disk, service, helper, wanted, paused, faults>>
  BY DEF RecoverReady, At, Goto, Process
<1>2. ProcType' /\ proc'.pc = "back save" /\ SameTask
  BY <1>1, Moves DEF DeployInv
<1>3. StateInv'
  BY <1>1, Undisturbed DEF DeployInv
<1>4. AtRecord'
  BY <1>1, <1>2 DEF DeployInv, StateInv, PlaceInv, SameTask, AtRecord
<1>5. AtDisk'
  BY <1>1, <1>2 DEF DeployInv, StateInv, PlaceInv, SameTask, AtDisk, AtTree, AtPolicy
<1>6. AtService'
  BY <1>1, <1>2 DEF DeployInv, StateInv, PlaceInv, SameTask, AtService, Running, StartsAgain
<1> QED
  BY <1>3, <1>2, <1>4, <1>5, <1>6 DEF DeployInv, PlaceInv

\* Recovery ends with the release from before the switch, or with none.
LEMMA RecoverSavesKeeps == ASSUME DeployInv, RecoverSaves PROVE DeployInv'
<1>1. /\ proc.pc = "back save" /\ proc' = NoProc
      /\ record' = [record EXCEPT !.current = record.pending.from, !.pending = NoPending,
                                  !.status = RestoredStatus]
      /\ UNCHANGED <<disk, service, helper, wanted, paused, faults>>
  BY DEF RecoverSaves, At, Exit, Records
<1>2. /\ record.pending.kind = "switch" /\ record.status # "removing"
      /\ disk.link = record.pending.from /\ disk.unit = record.policy
      /\ Running <=> StartsAgain
  BY <1>1 DEF DeployInv, PlaceInv, AtRecord, AtDisk, AtTree, AtPolicy, AtService
<1>3. record.pending.from = record.current /\ record.staging = None /\ record.restore = "none"
  BY <1>2 DEF DeployInv, StateInv, RecordInv
<1>4. /\ RestoredStatus \in {"installed", "failed"}
      /\ RestoredStatus = "installed" <=> record.current # None
      /\ record.status = "installed" <=> record.current # None
  BY <1>2, <1>3 DEF RestoredStatus, DeployInv, StateInv, TypeOK
<1>5. /\ record' \in Manifest /\ record'.status = RestoredStatus /\ record'.current = record.current
      /\ record'.previous = record.previous /\ record'.pending = NoPending
      /\ record'.releases = record.releases /\ record'.staging = record.staging
      /\ record'.policy = record.policy /\ record'.restore = record.restore
  BY <1>1, <1>3, <1>4, NoTransaction DEF DeployInv, StateInv, TypeOK, Manifest
<1>6. TypeOK'
  BY <1>1, <1>4, <1>5 DEF DeployInv, StateInv, TypeOK
<1>13. DirectoriesOwned'
  BY <1>1, <1>2, <1>5 DEF DeployInv, StateInv, DirectoriesOwned
<1>7. RecordInv'
  BY <1>2, <1>4, <1>5, NoTransaction DEF DeployInv, StateInv, RecordInv
<1>8. LinkInv'
  BY <1>1, <1>2, <1>3, <1>5 DEF DeployInv, StateInv, LinkInv, Running
<1>9. UnitInv'
  <2>1. record.policy # "absent"
    BY DEF DeployInv, StateInv, TypeOK, Manifest, Policy
  <2> QED BY <1>1, <1>2, <1>4, <1>5, <2>1 DEF DeployInv, StateInv, UnitInv, Running
<1>10. WantedInv'
  <2>1. Running' <=> Running
    BY <1>1 DEF Running
  <2> QED BY <1>1, <1>2, <1>3, <1>4, <1>5, <2>1, NoTransaction DEF DeployInv, StateInv,
    WantedInv, StartsAgain
<1>11. PausedInv'
  BY <1>1, <1>2, <1>5, NoTransaction DEF DeployInv, StateInv, PausedInv
<1>12. ProcType' /\ PlaceInv'
  BY <1>1, AtRest
<1> QED
  BY <1>6, <1>7, <1>8, <1>9, <1>10, <1>11, <1>12, <1>13 DEF DeployInv, StateInv

\* The helper leaves first, unless it does the removal itself.
LEMMA RemoveHelperKeeps == ASSUME DeployInv, RemoveHelper PROVE DeployInv'
<1>1. /\ proc.pc = "helper off"
      /\ proc' = [proc EXCEPT !.pc = "removing"]
      /\ helper' = (helper /\ proc.keep)
      /\ disk' = [disk EXCEPT !.lifecycle = @ /\ proc.op # "purge"]
      /\ UNCHANGED <<record, service, wanted, paused, faults>>
  BY DEF RemoveHelper, At, Goto
<1>2. ProcType' /\ proc'.pc = "removing" /\ SameTask
  BY <1>1, Moves DEF DeployInv
<1>3. TypeOK'
  <2>1. helper' \in BOOLEAN
    BY <1>1 DEF DeployInv, StateInv, TypeOK
  <2>2. disk' \in Files
    BY <1>1 DEF DeployInv, StateInv, TypeOK, Files
  <2> QED BY <1>1, <2>1, <2>2 DEF DeployInv, StateInv, TypeOK
<1>4. RecordInv' /\ LinkInv' /\ DirectoriesOwned' /\ UnitInv' /\ WantedInv'
  <2>1. /\ disk'.link = disk.link /\ disk'.releases = disk.releases
        /\ disk'.unit = disk.unit /\ disk'.files = disk.files
    BY <1>1 DEF DeployInv, StateInv, TypeOK, Files
  <2> QED BY <1>1, <2>1, HelperOnly DEF DeployInv
<1>5. PausedInv'
  BY <1>1 DEF DeployInv, StateInv, PausedInv
<1>6. AtRecord'
  BY <1>1, <1>2 DEF DeployInv, StateInv, PlaceInv, SameTask, AtRecord
<1>7. AtDisk'
  BY <1>1, <1>2 DEF DeployInv, StateInv, SameTask, AtDisk, AtTree, AtPolicy
<1>8. AtService'
  BY <1>1, <1>2 DEF DeployInv, StateInv, SameTask, AtService
<1> QED
  BY <1>3, <1>4, <1>5, <1>2, <1>6, <1>7, <1>8 DEF DeployInv, StateInv, PlaceInv

\* A helper whose units are gone is not stopped again; the removal is refused.
LEMMA RemoveRefusedKeeps == ASSUME DeployInv, RemoveRefused PROVE DeployInv'
<1>1. proc' = NoProc /\ UNCHANGED <<record, disk, service, helper, wanted, paused, faults>>
  BY DEF RemoveRefused, Exit, Process
<1> QED BY <1>1, AtRest, Undisturbed DEF DeployInv

\* From here on the manifest says that the agent is being removed.
LEMMA RemoveBeginsKeeps == ASSUME DeployInv, RemoveBegins PROVE DeployInv'
<1>1. /\ proc.pc = "removing"
      /\ proc' = [proc EXCEPT !.pc = "disable"]
      /\ record' = [record EXCEPT !.status = "removing"]
      /\ wanted' = FALSE
      /\ UNCHANGED <<disk, service, helper, paused, faults>>
  BY DEF RemoveBegins, At, Goto, Records
<1>2. ProcType' /\ proc'.pc = "disable" /\ SameTask
  BY <1>1, Moves DEF DeployInv
<1>3. record' \in Manifest
  BY <1>1 DEF DeployInv, StateInv, TypeOK, Manifest, PlaceInv
<1>4. TypeOK'
  BY <1>1, <1>3 DEF DeployInv, StateInv, TypeOK, Manifest
<1>5. RecordInv'
  BY <1>1 DEF DeployInv, StateInv, PlaceInv, RecordInv, AtRecord
<1>6. LinkInv'
  BY <1>1 DEF DeployInv, StateInv, LinkInv, Running
<1>7. DirectoriesOwned'
  BY <1>1 DEF DeployInv, StateInv, DirectoriesOwned
<1>8. UnitInv'
  BY <1>1 DEF DeployInv, StateInv, UnitInv, Running
<1>9. WantedInv'
  BY <1>1 DEF WantedInv
<1>10. PausedInv'
  BY <1>1 DEF DeployInv, StateInv, PausedInv
<1>11. AtRecord'
  BY <1>1, <1>2 DEF DeployInv, StateInv, SameTask, AtRecord
<1>12. AtDisk'
  BY <1>1, <1>2 DEF DeployInv, StateInv, SameTask, AtDisk, AtTree, AtPolicy
<1>13. AtService'
  BY <1>1, <1>2 DEF DeployInv, StateInv, SameTask, AtService
<1> QED
  BY <1>4, <1>5, <1>6, <1>7, <1>8, <1>9, <1>10, <1>2, <1>11, <1>12, <1>13 DEF DeployInv,
    StateInv, PlaceInv

\* The agent is disabled and stopped if its unit is there.
LEMMA RemoveDisablesKeeps == ASSUME DeployInv, RemoveDisables PROVE DeployInv'
<1>1. CASE disk.unit = "absent"
  <2>1. /\ proc.pc = "disable"
        /\ proc' = [proc EXCEPT !.pc = "unlink"]
        /\ UNCHANGED <<record, disk, service, helper, wanted, paused, faults>>
    BY <1>1 DEF RemoveDisables, At, Goto, Process, Disabled
  <2>2. ProcType' /\ proc'.pc = "unlink" /\ SameTask
    BY <2>1, Moves DEF DeployInv
  <2>3. StateInv'
    BY <2>1, Undisturbed DEF DeployInv
  <2>4. AtRecord'
    BY <1>1, <2>1, <2>2 DEF DeployInv, StateInv, PlaceInv, SameTask, AtRecord
  <2>5. AtDisk'
    BY <1>1, <2>1, <2>2 DEF DeployInv, StateInv, SameTask, AtDisk, AtTree, AtPolicy
  <2>6. AtService'
    BY <1>1, <2>1, <2>2 DEF DeployInv, StateInv, PlaceInv, SameTask, UnitInv, AtService, Running
  <2> QED
    BY <2>3, <2>2, <2>4, <2>5, <2>6 DEF DeployInv, PlaceInv
<1>2. CASE disk.unit # "absent"
  <2>1. /\ proc.pc = "disable"
        /\ proc' = [proc EXCEPT !.pc = "unit off"]
        /\ service' = [service EXCEPT !.enabled = FALSE, !.running = None]
        /\ UNCHANGED <<record, disk, helper, wanted, paused, faults>>
    BY <1>2 DEF RemoveDisables, At, Goto, Commands, Disabled
  <2>2. ProcType' /\ proc'.pc = "unit off" /\ SameTask
    BY <2>1, Moves DEF DeployInv
  <2>3. service' \in Agent
    BY <1>2, <2>1 DEF DeployInv, StateInv, TypeOK, Agent, Choice
  <2>4. TypeOK'
    BY <2>1, <2>3 DEF DeployInv, StateInv, TypeOK
  <2>5. RecordInv' /\ DirectoriesOwned' /\ PausedInv'
    BY <2>1 DEF DeployInv, StateInv, RecordInv, DirectoriesOwned, PausedInv
  <2>6. LinkInv'
    BY <1>2, <2>1 DEF DeployInv, StateInv, PlaceInv, TypeOK, Agent, LinkInv, Running
  <2>7. UnitInv'
    BY <1>2, <2>1 DEF DeployInv, StateInv, PlaceInv, TypeOK, Agent, UnitInv, Running
  <2>8. WantedInv'
    BY <1>2, <2>1 DEF DeployInv, StateInv, PlaceInv, WantedInv, AtRecord
  <2>9. AtRecord'
    BY <1>2, <2>1, <2>2 DEF DeployInv, StateInv, PlaceInv, SameTask, AtRecord
  <2>10. AtDisk'
    BY <1>2, <2>1, <2>2 DEF DeployInv, StateInv, SameTask, AtDisk, AtTree, AtPolicy
  <2>11. AtService'
    BY <1>2, <2>1, <2>2 DEF DeployInv, StateInv, PlaceInv, TypeOK, Agent, SameTask, AtService,
      Running
  <2> QED
    BY <2>4, <2>5, <2>6, <2>7, <2>8, <2>2, <2>9, <2>10, <2>11 DEF DeployInv, StateInv, PlaceInv
<1> QED
  BY <1>1, <1>2

\* The unit is deleted after the agent has stopped.
LEMMA RemoveUnitKeeps == ASSUME DeployInv, RemoveUnit PROVE DeployInv'
<1>1. /\ proc.pc = "unit off"
      /\ proc' = [proc EXCEPT !.pc = "unlink"]
      /\ disk' = [disk EXCEPT !.unit = "absent"]
      /\ UNCHANGED <<record, service, helper, wanted, paused, faults>>
  BY DEF RemoveUnit, At, Goto, Writes
<1>2. ProcType' /\ proc'.pc = "unlink" /\ SameTask
  BY <1>1, Moves DEF DeployInv
<1>3. disk' \in Files
  BY <1>1 DEF DeployInv, StateInv, TypeOK, Files
<1>4. TypeOK'
  BY <1>1, <1>3 DEF DeployInv, StateInv, TypeOK
<1>5. RecordInv' /\ WantedInv' /\ PausedInv'
  BY <1>1 DEF DeployInv, StateInv, RecordInv, WantedInv, PausedInv, Running
<1>6. LinkInv'
  BY <1>1 DEF DeployInv, StateInv, PlaceInv, TypeOK, Files, LinkInv, Running
<1>7. DirectoriesOwned'
  BY <1>1 DEF DeployInv, StateInv, PlaceInv, TypeOK, Files, DirectoriesOwned
<1>8. UnitInv'
  BY <1>1 DEF DeployInv, StateInv, PlaceInv, TypeOK, Files, UnitInv, AtRecord, AtService, Running
<1>9. AtRecord'
  BY <1>1, <1>2 DEF DeployInv, StateInv, PlaceInv, SameTask, AtRecord
<1>10. AtDisk'
  BY <1>1, <1>2 DEF DeployInv, StateInv, PlaceInv, TypeOK, Files, SameTask, AtDisk, AtTree,
    AtPolicy
<1>11. AtService'
  BY <1>1, <1>2 DEF DeployInv, StateInv, PlaceInv, SameTask, AtService, Running
<1> QED
  BY <1>4, <1>5, <1>6, <1>7, <1>8, <1>2, <1>9, <1>10, <1>11 DEF DeployInv, StateInv, PlaceInv

\* The link goes before the releases it could select.
LEMMA RemoveLinkKeeps == ASSUME DeployInv, RemoveLink PROVE DeployInv'
<1>1. /\ proc.pc = "unlink"
      /\ proc' = [proc EXCEPT !.pc = "remove"]
      /\ disk' = [disk EXCEPT !.link = None]
      /\ UNCHANGED <<record, service, helper, wanted, paused, faults>>
  BY DEF RemoveLink, At, Goto, Writes
<1>2. ProcType' /\ proc'.pc = "remove" /\ SameTask
  BY <1>1, Moves DEF DeployInv
<1>3. disk' \in Files
  BY <1>1 DEF DeployInv, StateInv, TypeOK, Files, Choice
<1>4. TypeOK'
  BY <1>1, <1>3 DEF DeployInv, StateInv, TypeOK
<1>5. RecordInv' /\ WantedInv' /\ PausedInv'
  BY <1>1 DEF DeployInv, StateInv, RecordInv, WantedInv, PausedInv, Running
<1>6. LinkInv'
  BY <1>1 DEF DeployInv, StateInv, PlaceInv, LinkInv, AtRecord, AtService, Running
<1>7. DirectoriesOwned'
  BY <1>1 DEF DeployInv, StateInv, DirectoriesOwned
<1>8. UnitInv'
  BY <1>1 DEF DeployInv, StateInv, UnitInv, Running
<1>9. AtRecord'
  BY <1>1, <1>2 DEF DeployInv, StateInv, PlaceInv, SameTask, AtRecord
<1>10. AtDisk'
  BY <1>1, <1>2 DEF DeployInv, StateInv, PlaceInv, SameTask, AtDisk, AtTree, AtPolicy
<1>11. AtService'
  BY <1>1, <1>2 DEF DeployInv, StateInv, PlaceInv, SameTask, AtService, Running
<1> QED
  BY <1>4, <1>5, <1>6, <1>7, <1>8, <1>2, <1>9, <1>10, <1>11 DEF DeployInv, StateInv, PlaceInv

\* The recorded releases are deleted one after the other.
LEMMA RemoveReleaseKeeps == ASSUME DeployInv, NEW r \in Release, RemoveRelease(r) PROVE DeployInv'
<1>1. /\ proc.pc = "remove"
      /\ proc' = proc
      /\ disk' = [disk EXCEPT !.releases = @ \ {r}]
      /\ UNCHANGED <<record, service, helper, wanted, paused, faults>>
  BY DEF RemoveRelease, At, Writes
<1>2. ProcType' /\ proc'.pc = "remove" /\ SameTask
  BY <1>1 DEF DeployInv, ProcType, SameTask
<1>3. disk' \in Files
  BY <1>1 DEF DeployInv, StateInv, TypeOK, Files
<1>4. TypeOK'
  BY <1>1, <1>3 DEF DeployInv, StateInv, TypeOK
<1>5. RecordInv' /\ WantedInv' /\ PausedInv'
  BY <1>1 DEF DeployInv, StateInv, RecordInv, WantedInv, PausedInv, Running
<1>6. LinkInv'
  BY <1>1 DEF DeployInv, StateInv, PlaceInv, LinkInv, AtDisk, AtTree, Running
<1>7. DirectoriesOwned'
  BY <1>1 DEF DeployInv, StateInv, PlaceInv, DirectoriesOwned, AtRecord
<1>8. UnitInv'
  BY <1>1 DEF DeployInv, StateInv, UnitInv, Running
<1>9. AtRecord'
  BY <1>1, <1>2 DEF DeployInv, StateInv, PlaceInv, SameTask, AtRecord
<1>10. AtDisk'
  BY <1>1, <1>2 DEF DeployInv, StateInv, PlaceInv, TypeOK, Files, SameTask, AtDisk, AtTree,
    AtPolicy
<1>11. AtService'
  BY <1>1, <1>2 DEF DeployInv, StateInv, PlaceInv, SameTask, AtService, Running
<1> QED
  BY <1>4, <1>5, <1>6, <1>7, <1>8, <1>2, <1>9, <1>10, <1>11 DEF DeployInv, StateInv, PlaceInv

\* Removal forgets everything that recovery would look for.
LEMMA RemoveEndsKeeps == ASSUME DeployInv, RemoveEnds PROVE DeployInv'
<1>1. /\ proc.pc = "remove" /\ disk.releases \cap (record.releases \cup {record.staging}) = {}
      /\ record' = [record EXCEPT !.status = "removed", !.current = None, !.previous = None,
                                  !.pending = NoPending, !.staging = None, !.releases = {}]
      /\ UNCHANGED <<disk, service, helper, wanted, paused, faults>>
  BY DEF RemoveEnds, At, Records
<1>2. record.status = "removing" /\ disk.unit = "absent" /\ disk.link = None /\ ~Running
  BY <1>1 DEF DeployInv, PlaceInv, AtRecord, AtDisk, AtTree, AtPolicy, AtService
<1>3. record.restore = "none"
  BY <1>2 DEF DeployInv, StateInv, RecordInv
<1>4. disk.releases = {}
  BY <1>1 DEF DeployInv, StateInv, DirectoriesOwned
<1>5. /\ record' \in Manifest /\ record'.status = "removed" /\ record'.current = None
      /\ record'.previous = None /\ record'.pending = NoPending /\ record'.staging = None
      /\ record'.releases = {} /\ record'.policy = record.policy
      /\ record'.restore = record.restore
  BY <1>1, NoTransaction DEF DeployInv, StateInv, TypeOK, Manifest, Choice
<1>6. TypeOK' /\ DirectoriesOwned'
  BY <1>1, <1>5 DEF DeployInv, StateInv, TypeOK, DirectoriesOwned
<1>7. RecordInv'
  BY <1>3, <1>5, NoTransaction DEF RecordInv
<1>8. LinkInv' /\ UnitInv'
  BY <1>1, <1>2, <1>5 DEF LinkInv, UnitInv, Running
<1>9. WantedInv'
  BY <1>5 DEF WantedInv
<1>10. PausedInv'
  BY <1>1, <1>2, NoTransaction DEF DeployInv, StateInv, PausedInv, RecordInv
<1>11. CASE proc.op = "purge"
  <2>1. proc' = [proc EXCEPT !.pc = "userdel"]
    BY <1>11 DEF RemoveEnds, Goto
  <2>2. ProcType' /\ proc'.pc = "userdel" /\ SameTask
    BY <2>1, Moves DEF DeployInv
  <2>3. AtRecord'
    BY <1>3, <1>5, <2>2, NoTransaction DEF AtRecord
  <2>4. AtDisk' /\ AtService'
    BY <1>1, <1>2, <2>2 DEF AtDisk, AtTree, AtPolicy, AtService, Running
  <2> QED
    BY <1>6, <1>7, <1>8, <1>9, <1>10, <2>2, <2>3, <2>4 DEF DeployInv, StateInv, PlaceInv
<1>12. CASE proc.op # "purge"
  <2>1. proc' = NoProc
    BY <1>12 DEF RemoveEnds, Exit
  <2> QED
    BY <1>6, <1>7, <1>8, <1>9, <1>10, <2>1, AtRest DEF DeployInv, StateInv
<1> QED BY <1>11, <1>12

\* userdel of the recorded account.
LEMMA PurgeAccountKeeps == ASSUME DeployInv, PurgeAccount PROVE DeployInv'
<1>1. /\ proc.pc = "userdel"
      /\ proc' = [proc EXCEPT !.pc = "rmtree"]
      /\ disk' = [disk EXCEPT !.account = @ /\ ~record.uid]
      /\ UNCHANGED <<record, service, helper, wanted, paused, faults>>
  BY DEF PurgeAccount, At, Goto, Writes
<1>2. ProcType' /\ proc'.pc = "rmtree" /\ SameTask
  BY <1>1, Moves DEF DeployInv
<1>3. disk' \in Files
  BY <1>1 DEF DeployInv, StateInv, TypeOK, Files
<1>4. TypeOK'
  BY <1>1, <1>3 DEF DeployInv, StateInv, TypeOK
<1>5. RecordInv' /\ WantedInv' /\ PausedInv'
  BY <1>1 DEF DeployInv, StateInv, RecordInv, WantedInv, PausedInv, Running
<1>6. LinkInv'
  BY <1>1 DEF DeployInv, StateInv, LinkInv, Running
<1>7. DirectoriesOwned'
  BY <1>1 DEF DeployInv, StateInv, DirectoriesOwned
<1>8. UnitInv'
  BY <1>1 DEF DeployInv, StateInv, UnitInv, Running
<1>9. AtRecord'
  BY <1>1, <1>2 DEF DeployInv, StateInv, PlaceInv, SameTask, AtRecord
<1>10. AtDisk'
  BY <1>1, <1>2 DEF DeployInv, StateInv, PlaceInv, SameTask, AtDisk, AtTree, AtPolicy
<1>11. AtService'
  BY <1>1, <1>2 DEF DeployInv, StateInv, PlaceInv, SameTask, AtService, Running
<1> QED
  BY <1>4, <1>5, <1>6, <1>7, <1>8, <1>2, <1>9, <1>10, <1>11 DEF DeployInv, StateInv, PlaceInv

\* The tree is deleted with the manifest in it.
LEMMA PurgeTreeKeeps == ASSUME DeployInv, PurgeTree PROVE DeployInv'
<1>1. /\ proc.pc = "rmtree"
      /\ proc' = NoProc
      /\ record' = NoRecord
      /\ disk' = [disk EXCEPT !.tree = FALSE]
      /\ UNCHANGED <<service, helper, wanted, paused, faults>>
  BY DEF PurgeTree, At, Exit
<1>2. ProcType' /\ PlaceInv'
  BY <1>1, AtRest
<1>3. record' \in Manifest
  BY <1>1, EmptyManifest
<1>4. disk' \in Files
  BY <1>1 DEF DeployInv, StateInv, TypeOK, Files
<1>5. TypeOK'
  BY <1>1, <1>3, <1>4 DEF DeployInv, StateInv, TypeOK, NoRecord
<1>6. RecordInv'
  BY <1>1 DEF DeployInv, StateInv, PlaceInv, RecordInv, AtRecord, NoRecord
<1>7. LinkInv'
  BY <1>1 DEF DeployInv, StateInv, PlaceInv, LinkInv, AtRecord, Running, NoRecord
<1>8. DirectoriesOwned'
  BY <1>1 DEF DeployInv, StateInv, PlaceInv, DirectoriesOwned, AtRecord, NoRecord
<1>9. UnitInv'
  BY <1>1 DEF DeployInv, StateInv, PlaceInv, UnitInv, AtDisk, AtPolicy, Running, NoRecord
<1>10. WantedInv'
  BY <1>1 DEF DeployInv, StateInv, WantedInv, NoRecord
<1>11. PausedInv'
  BY <1>1 DEF DeployInv, StateInv, PlaceInv, PausedInv, AtRecord, NoPending, NoRecord
<1> QED
  BY <1>5, <1>6, <1>7, <1>8, <1>9, <1>10, <1>11, <1>2 DEF DeployInv, StateInv

\* The change of policy is recorded before anything is touched.
LEMMA PolicyPublishesKeeps == ASSUME DeployInv, PolicyPublishes PROVE DeployInv'
<1> DEFINE T == [kind |-> "policy", from |-> record.current, to |-> record.current,
                 was_active |-> Running, helper |-> helper]
<1>1. /\ proc.pc = "publish"
      /\ proc' = [proc EXCEPT !.pc = "pause"]
      /\ record' = [record EXCEPT !.pending = T]
      /\ UNCHANGED <<disk, service, helper, wanted, paused, faults>>
  BY DEF PolicyPublishes, At, Goto, Records
<1>2. /\ T \in Transaction /\ T.kind = "policy" /\ T.from = record.current
      /\ (T.was_active <=> Running) /\ (T.helper <=> helper)
  BY DEF DeployInv, StateInv, TypeOK, Manifest, Transaction, Running
<1> HIDE DEF T
<1>3. /\ record' \in Manifest /\ record'.pending = T
      /\ record'.status = record.status /\ record'.releases = record.releases
      /\ record'.current = record.current /\ record'.previous = record.previous
      /\ record'.staging = record.staging /\ record'.policy = record.policy
      /\ record'.restore = record.restore
  BY <1>1, <1>2 DEF DeployInv, StateInv, TypeOK, Manifest
<1>4. /\ record.status = "installed" /\ record.pending.kind = "none"
      /\ record.staging = None /\ record.restore = "none"
  BY <1>1 DEF DeployInv, PlaceInv, AtRecord
<1>5. TypeOK' /\ DirectoriesOwned'
  BY <1>1, <1>3 DEF DeployInv, StateInv, TypeOK, DirectoriesOwned
<1>6. RecordInv'
  BY <1>2, <1>3, <1>4 DEF DeployInv, StateInv, RecordInv
<1>7. LinkInv'
  BY <1>1, <1>4 DEF DeployInv, StateInv, LinkInv, Running
<1>8. UnitInv'
  BY <1>1, <1>2 DEF DeployInv, StateInv, UnitInv, Running
<1>9. WantedInv'
  BY <1>1, <1>2, <1>4 DEF DeployInv, StateInv, WantedInv
<1>10. PausedInv'
  BY <1>1, <1>2, <1>4 DEF DeployInv, StateInv, PausedInv
<1>11. ProcType' /\ proc'.pc = "pause" /\ SameTask
  BY <1>1, Moves DEF DeployInv
<1>12. AtRecord'
  BY <1>2, <1>3, <1>11 DEF AtRecord
<1>13. AtDisk' /\ AtService'
  BY <1>11 DEF AtDisk, AtTree, AtPolicy, AtService
<1> QED
  BY <1>5, <1>6, <1>7, <1>8, <1>9, <1>10, <1>11, <1>12, <1>13 DEF DeployInv, StateInv, PlaceInv

\* The helper is paused under a transaction that knows it.
LEMMA PolicyPausesKeeps == ASSUME DeployInv, PolicyPauses PROVE DeployInv'
<1>1. /\ proc.pc = "pause"
      /\ proc' = [proc EXCEPT !.pc = "policy stop"]
      /\ helper' = FALSE
      /\ paused' = (paused \/ helper)
      /\ UNCHANGED <<record, disk, service, wanted, faults>>
  BY DEF PolicyPauses, At, Goto, Pauses
<1>2. ProcType' /\ proc'.pc = "policy stop" /\ SameTask
  BY <1>1, Moves DEF DeployInv
<1>3. TypeOK'
  BY <1>1 DEF DeployInv, StateInv, TypeOK
<1>4. RecordInv' /\ LinkInv' /\ DirectoriesOwned' /\ UnitInv' /\ WantedInv'
  BY <1>1, HelperOnly DEF DeployInv
<1>5. PausedInv'
  BY <1>1 DEF DeployInv, StateInv, PlaceInv, PausedInv, AtRecord
<1>6. AtRecord'
  BY <1>1, <1>2 DEF DeployInv, StateInv, PlaceInv, SameTask, AtRecord
<1>7. AtDisk'
  BY <1>1, <1>2 DEF DeployInv, StateInv, SameTask, AtDisk, AtTree, AtPolicy
<1>8. AtService'
  BY <1>1, <1>2 DEF DeployInv, StateInv, SameTask, AtService
<1> QED
  BY <1>3, <1>4, <1>5, <1>2, <1>6, <1>7, <1>8 DEF DeployInv, StateInv, PlaceInv

\* The agent is stopped for the change.
LEMMA PolicyStopsKeeps == ASSUME DeployInv, PolicyStops PROVE DeployInv'
<1>1. /\ proc.pc = "policy stop"
      /\ proc' = [proc EXCEPT !.pc = "unit"]
      /\ service' = [service EXCEPT !.running = None]
      /\ UNCHANGED <<record, disk, helper, wanted, paused, faults>>
  BY DEF PolicyStops, At, Goto, Commands, Stops
<1>2. ProcType' /\ proc'.pc = "unit" /\ SameTask
  BY <1>1, Moves DEF DeployInv
<1>3. service' \in Agent
  BY <1>1 DEF DeployInv, StateInv, TypeOK, Agent, Choice
<1>4. TypeOK'
  BY <1>1, <1>3 DEF DeployInv, StateInv, TypeOK
<1>5. RecordInv' /\ DirectoriesOwned' /\ PausedInv'
  BY <1>1 DEF DeployInv, StateInv, RecordInv, DirectoriesOwned, PausedInv
<1>6. LinkInv'
  BY <1>1 DEF DeployInv, StateInv, PlaceInv, TypeOK, Agent, LinkInv, Running
<1>7. UnitInv'
  BY <1>1 DEF DeployInv, StateInv, PlaceInv, TypeOK, Agent, UnitInv, Running
<1>8. WantedInv'
  BY <1>1 DEF DeployInv, StateInv, PlaceInv, WantedInv, AtRecord
<1>9. AtRecord'
  BY <1>1, <1>2 DEF DeployInv, StateInv, PlaceInv, SameTask, AtRecord
<1>10. AtDisk'
  BY <1>1, <1>2 DEF DeployInv, StateInv, SameTask, AtDisk, AtTree, AtPolicy
<1>11. AtService'
  BY <1>1, <1>2 DEF DeployInv, StateInv, PlaceInv, TypeOK, Agent, SameTask, AtService, Running
<1> QED
  BY <1>4, <1>5, <1>6, <1>7, <1>8, <1>2, <1>9, <1>10, <1>11 DEF DeployInv, StateInv, PlaceInv

\* The unit is the first of the files to follow the new policy.
LEMMA PolicyUnitKeeps == ASSUME DeployInv, PolicyUnit PROVE DeployInv'
<1>1. /\ proc.pc = "unit"
      /\ proc' = [proc EXCEPT !.pc = "files"]
      /\ disk' = [disk EXCEPT !.unit = proc.policy]
      /\ UNCHANGED <<record, service, helper, wanted, paused, faults>>
  BY DEF PolicyUnit, At, Goto, Writes
<1>2. ProcType' /\ proc'.pc = "files" /\ SameTask
  BY <1>1, Moves DEF DeployInv
<1>3. disk' \in Files
  BY <1>1 DEF DeployInv, StateInv, TypeOK, Files, ProcType, PlaceInv
<1>4. TypeOK'
  BY <1>1, <1>3 DEF DeployInv, StateInv, TypeOK
<1>5. RecordInv' /\ WantedInv' /\ PausedInv'
  BY <1>1 DEF DeployInv, StateInv, RecordInv, WantedInv, PausedInv, Running
<1>6. LinkInv'
  BY <1>1 DEF DeployInv, StateInv, LinkInv, Running
<1>7. DirectoriesOwned'
  BY <1>1 DEF DeployInv, StateInv, DirectoriesOwned
<1>8. UnitInv'
  BY <1>1 DEF DeployInv, StateInv, PlaceInv, ProcType, UnitInv, AtRecord, Policy
<1>9. AtRecord'
  BY <1>1, <1>2 DEF DeployInv, StateInv, PlaceInv, SameTask, AtRecord
<1>10. AtDisk'
  BY <1>1, <1>2 DEF DeployInv, StateInv, SameTask, AtDisk, AtTree, AtPolicy
<1>11. AtService'
  BY <1>1, <1>2 DEF DeployInv, StateInv, PlaceInv, SameTask, AtService, Running
<1> QED
  BY <1>4, <1>5, <1>6, <1>7, <1>8, <1>2, <1>9, <1>10, <1>11 DEF DeployInv, StateInv, PlaceInv

\* The agent is started under the whole new policy, if it ran.
LEMMA PolicyStartsKeeps == ASSUME DeployInv, PolicyStarts PROVE DeployInv'
<1>1. CASE record.pending.was_active
  <2>1. /\ proc.pc = "files"
        /\ \A f \in File : disk.files[f] = proc.policy
        /\ proc' = [proc EXCEPT !.pc = "policy ready"]
        /\ service' = [service EXCEPT !.running = disk.link, !.policy = disk.unit]
        /\ UNCHANGED <<record, disk, helper, wanted, paused, faults>>
    BY <1>1 DEF PolicyStarts, At, Goto, Commands, Starts
  <2>2. ProcType' /\ proc'.pc = "policy ready" /\ SameTask
    BY <2>1, Moves DEF DeployInv
  <2>3. service' \in Agent
    BY <1>1, <2>1 DEF DeployInv, StateInv, TypeOK, Agent, Files
  <2>4. TypeOK'
    BY <2>1, <2>3 DEF DeployInv, StateInv, TypeOK
  <2>5. RecordInv' /\ DirectoriesOwned' /\ PausedInv'
    BY <2>1 DEF DeployInv, StateInv, RecordInv, DirectoriesOwned, PausedInv
  <2>6. LinkInv'
    BY <1>1, <2>1 DEF DeployInv, StateInv, PlaceInv, TypeOK, Agent, LinkInv
  <2>7. UnitInv'
    BY <1>1, <2>1 DEF DeployInv, StateInv, PlaceInv, UnitInv, RecordInv, AtRecord
  <2>8. WantedInv'
    BY <1>1, <2>1 DEF DeployInv, StateInv, PlaceInv, WantedInv, AtRecord
  <2>9. AtRecord'
    BY <1>1, <2>1, <2>2 DEF DeployInv, StateInv, PlaceInv, SameTask, AtRecord
  <2>10. AtDisk'
    BY <1>1, <2>1, <2>2 DEF DeployInv, StateInv, PlaceInv, SameTask, AtDisk, AtTree, AtPolicy,
      Carries
  <2>11. AtService'
    BY <1>1, <2>1, <2>2 DEF DeployInv, StateInv, PlaceInv, TypeOK, Agent, SameTask, AtDisk,
      AtPolicy, AtService
  <2> QED
    BY <2>4, <2>5, <2>6, <2>7, <2>8, <2>2, <2>9, <2>10, <2>11 DEF DeployInv, StateInv, PlaceInv
<1>2. CASE ~record.pending.was_active
  <2>1. /\ proc.pc = "files"
        /\ \A f \in File : disk.files[f] = proc.policy
        /\ proc' = [proc EXCEPT !.pc = "policy ready"]
        /\ UNCHANGED <<record, disk, service, helper, wanted, paused, faults>>
    BY <1>2 DEF PolicyStarts, At, Goto, Commands
  <2>2. ProcType' /\ proc'.pc = "policy ready" /\ SameTask
    BY <2>1, Moves DEF DeployInv
  <2>3. StateInv'
    BY <2>1, Undisturbed DEF DeployInv
  <2>4. AtRecord'
    BY <1>2, <2>1, <2>2 DEF DeployInv, StateInv, PlaceInv, SameTask, AtRecord
  <2>5. AtDisk'
    BY <1>2, <2>1, <2>2 DEF DeployInv, StateInv, PlaceInv, SameTask, AtDisk, AtTree, AtPolicy,
      Carries
  <2>6. AtService'
    BY <1>2, <2>1, <2>2 DEF DeployInv, StateInv, PlaceInv, SameTask, AtService, Running
  <2> QED
    BY <2>3, <2>2, <2>4, <2>5, <2>6 DEF DeployInv, PlaceInv
<1> QED
  BY <1>1, <1>2

\* It reports that it is ready.
LEMMA PolicyReadyKeeps == ASSUME DeployInv, PolicyReady PROVE DeployInv'
<1>1. /\ proc.pc = "policy ready"
      /\ record.pending.was_active => Running /\ service.policy = proc.policy
      /\ proc' = [proc EXCEPT !.pc = "policy commit"]
      /\ UNCHANGED <<record, disk, service, helper, wanted, paused, faults>>
  BY DEF PolicyReady, At, Goto, Process
<1>2. ProcType' /\ proc'.pc = "policy commit" /\ SameTask
  BY <1>1, Moves DEF DeployInv
<1>3. StateInv'
  BY <1>1, Undisturbed DEF DeployInv
<1>4. AtRecord'
  BY <1>1, <1>2 DEF DeployInv, StateInv, PlaceInv, SameTask, AtRecord
<1>5. AtDisk'
  BY <1>1, <1>2 DEF DeployInv, StateInv, PlaceInv, SameTask, AtDisk, AtTree, AtPolicy, Carries
<1>6. AtService'
  BY <1>1, <1>2 DEF DeployInv, StateInv, PlaceInv, SameTask, AtService, Running
<1> QED
  BY <1>3, <1>2, <1>4, <1>5, <1>6 DEF DeployInv, PlaceInv

\* The new policy is committed with what is left to do for the helper.
LEMMA PolicyCommitsKeeps == ASSUME DeployInv, PolicyCommits PROVE DeployInv'
<1>1. /\ proc.pc = "policy commit"
      /\ proc' = [proc EXCEPT !.pc = "restore"]
      /\ record' = [record EXCEPT !.policy = proc.policy, !.pending = NoPending,
                                  !.restore = RestoreLater(record.pending.helper)]
      /\ UNCHANGED <<disk, service, helper, wanted, paused, faults>>
  BY DEF PolicyCommits, At, Goto, Records
<1>2. /\ record.pending.kind = "policy" /\ disk.unit = proc.policy
      /\ \A f \in File : disk.files[f] = proc.policy
      /\ Running => service.policy = proc.policy
      /\ Running <=> record.pending.was_active
  BY <1>1 DEF DeployInv, PlaceInv, AtRecord, AtDisk, AtPolicy, Carries, AtService
<1>3. record.status = "installed" /\ record.staging = None /\ proc.policy \in Policy
  BY <1>2 DEF DeployInv, StateInv, RecordInv, ProcType
<1>4. /\ RestoreLater(record.pending.helper) \in {"start", "skip"}
      /\ RestoreLater(record.pending.helper) = "start" <=> record.pending.helper
  BY DEF RestoreLater
<1>5. /\ record' \in Manifest /\ record'.status = "installed"
      /\ record'.current = record.current /\ record'.previous = record.previous
      /\ record'.pending = NoPending /\ record'.releases = record.releases
      /\ record'.staging = None /\ record'.policy = proc.policy
      /\ record'.restore = RestoreLater(record.pending.helper)
  BY <1>1, <1>3, <1>4, NoTransaction DEF DeployInv, StateInv, TypeOK, Manifest
<1>6. TypeOK' /\ DirectoriesOwned'
  BY <1>1, <1>3, <1>5 DEF DeployInv, StateInv, TypeOK, DirectoriesOwned
<1>7. RecordInv'
  BY <1>5, NoTransaction DEF RecordInv
<1>8. LinkInv'
  BY <1>1, <1>2, <1>3, <1>5 DEF DeployInv, StateInv, LinkInv, Running
<1>9. UnitInv'
  <2>1. proc.policy # "absent"
    BY <1>3 DEF Policy
  <2> QED BY <1>1, <1>2, <1>5, <2>1 DEF DeployInv, StateInv, UnitInv, Running
<1>10. WantedInv'
  <2>1. Running' <=> Running
    BY <1>1 DEF Running
  <2> QED BY <1>1, <1>2, <1>3, <1>5, <2>1, NoTransaction DEF DeployInv, StateInv, WantedInv
<1>11. PausedInv'
  <2>1. paused => record.pending.helper
    BY <1>2 DEF DeployInv, StateInv, PausedInv, RecordInv
  <2> QED BY <1>1, <1>4, <1>5, <2>1, NoTransaction DEF PausedInv
<1>12. ProcType' /\ proc'.pc = "restore" /\ SameTask
  BY <1>1, Moves DEF DeployInv
<1>13. AtRecord'
  BY <1>4, <1>5, <1>12 DEF AtRecord
<1>14. AtDisk' /\ AtService'
  BY <1>12 DEF AtDisk, AtTree, AtPolicy, AtService
<1> QED
  BY <1>6, <1>7, <1>8, <1>9, <1>10, <1>11, <1>12, <1>13, <1>14 DEF DeployInv, StateInv, PlaceInv

\* The helper is started again if it was paused.
LEMMA RestoreHelperKeeps == ASSUME DeployInv, RestoreHelper PROVE DeployInv'
<1>1. /\ proc.pc = "restore"
      /\ proc' = [proc EXCEPT !.pc = "restored"]
      /\ helper' = (helper \/ record.restore = "start")
      /\ paused' = (paused /\ record.restore # "start")
      /\ UNCHANGED <<record, disk, service, wanted, faults>>
  BY DEF RestoreHelper, At, Goto
<1>2. ProcType' /\ proc'.pc = "restored" /\ SameTask
  BY <1>1, Moves DEF DeployInv
<1>3. TypeOK'
  BY <1>1 DEF DeployInv, StateInv, TypeOK
<1>4. RecordInv' /\ LinkInv' /\ DirectoriesOwned' /\ UnitInv' /\ WantedInv'
  BY <1>1, HelperOnly DEF DeployInv
<1>5. PausedInv'
  BY <1>1 DEF DeployInv, StateInv, PausedInv, RecordInv
<1>6. AtRecord'
  BY <1>1, <1>2 DEF DeployInv, StateInv, PlaceInv, SameTask, AtRecord
<1>7. AtDisk'
  BY <1>1, <1>2 DEF DeployInv, StateInv, SameTask, AtDisk, AtTree, AtPolicy
<1>8. AtService'
  BY <1>1, <1>2 DEF DeployInv, StateInv, PlaceInv, SameTask, RecordInv, AtRecord, AtService,
    PausedInv
<1> QED
  BY <1>3, <1>4, <1>5, <1>2, <1>6, <1>7, <1>8 DEF DeployInv, StateInv, PlaceInv

\* Then the manifest forgets it.
LEMMA RestoreEndsKeeps == ASSUME DeployInv, RestoreEnds PROVE DeployInv'
<1>1. /\ proc.pc = "restored"
      /\ proc' = NoProc
      /\ record' = [record EXCEPT !.restore = "none"]
      /\ UNCHANGED <<disk, service, helper, wanted, paused, faults>>
  BY DEF RestoreEnds, At, Exit, Records
<1>2. ProcType' /\ PlaceInv'
  BY <1>1, AtRest
<1>3. record' \in Manifest
  BY <1>1 DEF DeployInv, StateInv, TypeOK, Manifest, PlaceInv
<1>4. TypeOK'
  BY <1>1, <1>3 DEF DeployInv, StateInv, TypeOK
<1>5. RecordInv'
  BY <1>1 DEF DeployInv, StateInv, PlaceInv, RecordInv, AtRecord
<1>6. LinkInv'
  BY <1>1 DEF DeployInv, StateInv, LinkInv, Running
<1>7. DirectoriesOwned'
  BY <1>1 DEF DeployInv, StateInv, DirectoriesOwned
<1>8. UnitInv'
  BY <1>1 DEF DeployInv, StateInv, PlaceInv, UnitInv, Running
<1>9. WantedInv'
  BY <1>1 DEF DeployInv, StateInv, WantedInv, Running
<1>10. PausedInv'
  BY <1>1 DEF DeployInv, StateInv, PlaceInv, PausedInv, AtService
<1> QED
  BY <1>4, <1>5, <1>6, <1>7, <1>8, <1>9, <1>10, <1>2 DEF DeployInv, StateInv

\* A change of policy that failed is undone with the agent down.
LEMMA UndoStopsKeeps == ASSUME DeployInv, UndoStops PROVE DeployInv'
<1>1. /\ proc.pc = "undo stop"
      /\ proc' = [proc EXCEPT !.pc = "undo"]
      /\ helper' = FALSE
      /\ paused' = (paused \/ helper)
      /\ service' = [service EXCEPT !.running = None]
      /\ UNCHANGED <<record, disk, wanted, faults>>
  BY DEF UndoStops, At, Goto, Pauses, Stops
<1>2. ProcType' /\ proc'.pc = "undo" /\ SameTask
  BY <1>1, Moves DEF DeployInv
<1>3. service' \in Agent
  BY <1>1 DEF DeployInv, StateInv, TypeOK, Agent, Choice
<1>4. TypeOK'
  BY <1>1, <1>3 DEF DeployInv, StateInv, TypeOK
<1>5. RecordInv' /\ DirectoriesOwned'
  BY <1>1 DEF DeployInv, StateInv, RecordInv, DirectoriesOwned
<1>6. LinkInv'
  BY <1>1 DEF DeployInv, StateInv, PlaceInv, TypeOK, Agent, LinkInv, Running
<1>7. UnitInv'
  BY <1>1 DEF DeployInv, StateInv, PlaceInv, TypeOK, Agent, UnitInv, Running
<1>8. WantedInv'
  BY <1>1 DEF DeployInv, StateInv, PlaceInv, WantedInv, AtRecord
<1>9. PausedInv'
  BY <1>1 DEF DeployInv, StateInv, PlaceInv, PausedInv, AtRecord
<1>10. AtRecord'
  BY <1>1, <1>2 DEF DeployInv, StateInv, PlaceInv, SameTask, AtRecord
<1>11. AtDisk'
  BY <1>1, <1>2 DEF DeployInv, StateInv, SameTask, AtDisk, AtTree, AtPolicy
<1>12. AtService'
  BY <1>1, <1>2 DEF DeployInv, StateInv, PlaceInv, TypeOK, Agent, SameTask, AtService, Running
<1> QED
  BY <1>4, <1>5, <1>6, <1>7, <1>8, <1>9, <1>2, <1>10, <1>11, <1>12 DEF DeployInv, StateInv,
    PlaceInv

\* The unit goes back to the recorded policy.
LEMMA UndoUnitKeeps == ASSUME DeployInv, UndoUnit PROVE DeployInv'
<1>1. /\ proc.pc = "undo"
      /\ proc' = proc
      /\ disk' = [disk EXCEPT !.unit = record.policy]
      /\ UNCHANGED <<record, service, helper, wanted, paused, faults>>
  BY DEF UndoUnit, At, Writes
<1>2. ProcType' /\ proc'.pc = "undo" /\ SameTask
  BY <1>1 DEF DeployInv, ProcType, SameTask
<1>3. disk' \in Files
  BY <1>1 DEF DeployInv, StateInv, TypeOK, Files, PlaceInv, Manifest
<1>4. TypeOK'
  BY <1>1, <1>3 DEF DeployInv, StateInv, TypeOK
<1>5. RecordInv' /\ WantedInv' /\ PausedInv'
  BY <1>1 DEF DeployInv, StateInv, RecordInv, WantedInv, PausedInv, Running
<1>6. LinkInv'
  BY <1>1 DEF DeployInv, StateInv, LinkInv, Running
<1>7. DirectoriesOwned'
  BY <1>1 DEF DeployInv, StateInv, DirectoriesOwned
<1>8. UnitInv'
  BY <1>1 DEF DeployInv, StateInv, PlaceInv, TypeOK, Manifest, UnitInv, AtRecord, Policy
<1>9. AtRecord'
  BY <1>1, <1>2 DEF DeployInv, StateInv, PlaceInv, SameTask, AtRecord
<1>10. AtDisk'
  BY <1>1, <1>2 DEF DeployInv, StateInv, SameTask, AtDisk, AtTree, AtPolicy
<1>11. AtService'
  BY <1>1, <1>2 DEF DeployInv, StateInv, PlaceInv, SameTask, AtService, Running
<1> QED
  BY <1>4, <1>5, <1>6, <1>7, <1>8, <1>2, <1>9, <1>10, <1>11 DEF DeployInv, StateInv, PlaceInv

\* The agent is started under the whole old policy, if it ran.
LEMMA UndoStartsKeeps == ASSUME DeployInv, UndoStarts PROVE DeployInv'
<1>1. CASE record.pending.was_active
  <2>1. /\ proc.pc = "undo"
        /\ disk.unit = record.policy /\ Undoes = {}
        /\ proc' = [proc EXCEPT !.pc = "undo ready"]
        /\ service' = [service EXCEPT !.running = disk.link, !.policy = disk.unit]
        /\ UNCHANGED <<record, disk, helper, wanted, paused, faults>>
    BY <1>1 DEF UndoStarts, At, Goto, Commands, Starts
  <2>2. ProcType' /\ proc'.pc = "undo ready" /\ SameTask
    BY <2>1, Moves DEF DeployInv
  <2>3. service' \in Agent
    BY <1>1, <2>1 DEF DeployInv, StateInv, TypeOK, Agent, Files
  <2>4. TypeOK'
    BY <2>1, <2>3 DEF DeployInv, StateInv, TypeOK
  <2>5. RecordInv' /\ DirectoriesOwned' /\ PausedInv'
    BY <2>1 DEF DeployInv, StateInv, RecordInv, DirectoriesOwned, PausedInv
  <2>6. LinkInv'
    BY <1>1, <2>1 DEF DeployInv, StateInv, PlaceInv, TypeOK, Agent, LinkInv
  <2>7. UnitInv'
    BY <1>1, <2>1 DEF DeployInv, StateInv, PlaceInv, TypeOK, Manifest, UnitInv, AtRecord, Policy
  <2>8. WantedInv'
    BY <1>1, <2>1 DEF DeployInv, StateInv, PlaceInv, WantedInv, AtRecord
  <2>9. AtRecord'
    BY <1>1, <2>1, <2>2 DEF DeployInv, StateInv, PlaceInv, SameTask, AtRecord
  <2>10. AtDisk'
    BY <1>1, <2>1, <2>2 DEF DeployInv, StateInv, PlaceInv, SameTask, AtDisk, AtTree, AtPolicy,
      Carries, Undoes
  <2>11. AtService'
    BY <1>1, <2>1, <2>2 DEF DeployInv, StateInv, PlaceInv, TypeOK, Agent, SameTask, AtService
  <2> QED
    BY <2>4, <2>5, <2>6, <2>7, <2>8, <2>2, <2>9, <2>10, <2>11 DEF DeployInv, StateInv, PlaceInv
<1>2. CASE ~record.pending.was_active
  <2>1. /\ proc.pc = "undo"
        /\ disk.unit = record.policy /\ Undoes = {}
        /\ proc' = [proc EXCEPT !.pc = "undo ready"]
        /\ UNCHANGED <<record, disk, service, helper, wanted, paused, faults>>
    BY <1>2 DEF UndoStarts, At, Goto, Commands
  <2>2. ProcType' /\ proc'.pc = "undo ready" /\ SameTask
    BY <2>1, Moves DEF DeployInv
  <2>3. StateInv'
    BY <2>1, Undisturbed DEF DeployInv
  <2>4. AtRecord'
    BY <1>2, <2>1, <2>2 DEF DeployInv, StateInv, PlaceInv, SameTask, AtRecord
  <2>5. AtDisk'
    BY <1>2, <2>1, <2>2 DEF DeployInv, StateInv, PlaceInv, SameTask, AtDisk, AtTree, AtPolicy,
      Carries, Undoes
  <2>6. AtService'
    BY <1>2, <2>1, <2>2 DEF DeployInv, StateInv, PlaceInv, SameTask, AtService, Running
  <2> QED
    BY <2>3, <2>2, <2>4, <2>5, <2>6 DEF DeployInv, PlaceInv
<1> QED
  BY <1>1, <1>2

\* It reports that it is ready.
LEMMA UndoReadyKeeps == ASSUME DeployInv, UndoReady PROVE DeployInv'
<1>1. /\ proc.pc = "undo ready"
      /\ record.pending.was_active => Running /\ service.policy = record.policy
      /\ proc' = [proc EXCEPT !.pc = "undo save"]
      /\ UNCHANGED <<record, disk, service, helper, wanted, paused, faults>>
  BY DEF UndoReady, At, Goto, Process
<1>2. ProcType' /\ proc'.pc = "undo save" /\ SameTask
  BY <1>1, Moves DEF DeployInv
<1>3. StateInv'
  BY <1>1, Undisturbed DEF DeployInv
<1>4. AtRecord'
  BY <1>1, <1>2 DEF DeployInv, StateInv, PlaceInv, SameTask, AtRecord
<1>5. AtDisk'
  BY <1>1, <1>2 DEF DeployInv, StateInv, PlaceInv, SameTask, AtDisk, AtTree, AtPolicy, Carries
<1>6. AtService'
  BY <1>1, <1>2 DEF DeployInv, StateInv, PlaceInv, SameTask, AtService, Running
<1> QED
  BY <1>3, <1>2, <1>4, <1>5, <1>6 DEF DeployInv, PlaceInv

\* The old policy is back; what is left to do for the helper is recorded with that.
LEMMA UndoSavesKeeps == ASSUME DeployInv, UndoSaves PROVE DeployInv'
<1>1. /\ proc.pc = "undo save"
      /\ proc' = [proc EXCEPT !.pc = "restore"]
      /\ record' = [record EXCEPT !.pending = NoPending,
                                  !.restore = RestoreLater(record.pending.helper)]
      /\ UNCHANGED <<disk, service, helper, wanted, paused, faults>>
  BY DEF UndoSaves, At, Goto, Records
<1>2. /\ record.pending.kind = "policy" /\ disk.unit = record.policy
      /\ \A f \in File : disk.files[f] = record.policy
      /\ Running => service.policy = record.policy
      /\ Running <=> record.pending.was_active
  BY <1>1 DEF DeployInv, PlaceInv, AtRecord, AtDisk, AtPolicy, Carries, AtService
<1>3. record.status = "installed" /\ record.staging = None
  BY <1>2 DEF DeployInv, StateInv, RecordInv
<1>4. /\ RestoreLater(record.pending.helper) \in {"start", "skip"}
      /\ RestoreLater(record.pending.helper) = "start" <=> record.pending.helper
  BY DEF RestoreLater
<1>5. /\ record' \in Manifest /\ record'.status = "installed"
      /\ record'.current = record.current /\ record'.previous = record.previous
      /\ record'.pending = NoPending /\ record'.releases = record.releases
      /\ record'.staging = None /\ record'.policy = record.policy
      /\ record'.restore = RestoreLater(record.pending.helper)
  BY <1>1, <1>3, <1>4, NoTransaction DEF DeployInv, StateInv, TypeOK, Manifest
<1>6. TypeOK' /\ DirectoriesOwned'
  BY <1>1, <1>3, <1>5 DEF DeployInv, StateInv, TypeOK, DirectoriesOwned
<1>7. RecordInv'
  BY <1>5, NoTransaction DEF RecordInv
<1>8. LinkInv'
  BY <1>1, <1>2, <1>3, <1>5 DEF DeployInv, StateInv, LinkInv, Running
<1>9. UnitInv'
  <2>1. record.policy # "absent"
    BY DEF DeployInv, StateInv, TypeOK, Manifest, Policy
  <2> QED BY <1>1, <1>2, <1>5, <2>1 DEF DeployInv, StateInv, UnitInv, Running
<1>10. WantedInv'
  <2>1. Running' <=> Running
    BY <1>1 DEF Running
  <2> QED BY <1>1, <1>2, <1>3, <1>5, <2>1, NoTransaction DEF DeployInv, StateInv, WantedInv
<1>11. PausedInv'
  <2>1. paused => record.pending.helper
    BY <1>2 DEF DeployInv, StateInv, PausedInv, RecordInv
  <2> QED BY <1>1, <1>4, <1>5, <2>1, NoTransaction DEF PausedInv
<1>12. ProcType' /\ proc'.pc = "restore" /\ SameTask
  BY <1>1, Moves DEF DeployInv
<1>13. AtRecord'
  BY <1>4, <1>5, <1>12 DEF AtRecord
<1>14. AtDisk' /\ AtService'
  BY <1>12 DEF AtDisk, AtTree, AtPolicy, AtService
<1> QED
  BY <1>6, <1>7, <1>8, <1>9, <1>10, <1>11, <1>12, <1>13, <1>14 DEF DeployInv, StateInv, PlaceInv

\* The other files follow one after the other, in any order.
LEMMA PolicyFileKeeps == ASSUME DeployInv, NEW f \in File, PolicyFile(f) PROVE DeployInv'
<1>1. /\ proc.pc = "files"
      /\ proc' = proc
      /\ disk' = [disk EXCEPT !.files[f] = proc.policy]
      /\ UNCHANGED <<record, service, helper, wanted, paused, faults>>
  BY DEF PolicyFile, At, Writes
<1>2. ProcType' /\ proc'.pc = "files" /\ SameTask
  BY <1>1 DEF DeployInv, ProcType, SameTask
<1>3. disk' \in Files
  BY <1>1 DEF DeployInv, StateInv, TypeOK, Files, ProcType, PlaceInv
<1>4. TypeOK'
  BY <1>1, <1>3 DEF DeployInv, StateInv, TypeOK
<1>5. RecordInv' /\ WantedInv' /\ PausedInv'
  BY <1>1 DEF DeployInv, StateInv, RecordInv, WantedInv, PausedInv, Running
<1>6. LinkInv'
  BY <1>1 DEF DeployInv, StateInv, LinkInv, Running
<1>7. DirectoriesOwned'
  BY <1>1 DEF DeployInv, StateInv, DirectoriesOwned
<1>8. UnitInv'
  BY <1>1 DEF DeployInv, StateInv, PlaceInv, UnitInv, AtRecord, Running
<1>9. AtRecord'
  BY <1>1, <1>2 DEF DeployInv, StateInv, PlaceInv, SameTask, AtRecord
<1>10. AtDisk'
  BY <1>1, <1>2 DEF DeployInv, StateInv, PlaceInv, TypeOK, Files, SameTask, AtDisk, AtTree,
    AtPolicy
<1>11. AtService'
  BY <1>1, <1>2 DEF DeployInv, StateInv, PlaceInv, SameTask, AtService, Running
<1> QED
  BY <1>4, <1>5, <1>6, <1>7, <1>8, <1>2, <1>9, <1>10, <1>11 DEF DeployInv, StateInv, PlaceInv

\* So do the files, in any order.
LEMMA UndoFileKeeps == ASSUME DeployInv, NEW f \in File, UndoFile(f) PROVE DeployInv'
<1>1. /\ proc.pc = "undo"
      /\ proc' = proc
      /\ disk' = [disk EXCEPT !.files[f] = record.policy]
      /\ UNCHANGED <<record, service, helper, wanted, paused, faults>>
  BY DEF UndoFile, At, Writes
<1>2. ProcType' /\ proc'.pc = "undo" /\ SameTask
  BY <1>1 DEF DeployInv, ProcType, SameTask
<1>3. disk' \in Files
  BY <1>1 DEF DeployInv, StateInv, TypeOK, Files, PlaceInv, Manifest
<1>4. TypeOK'
  BY <1>1, <1>3 DEF DeployInv, StateInv, TypeOK
<1>5. RecordInv' /\ WantedInv' /\ PausedInv'
  BY <1>1 DEF DeployInv, StateInv, RecordInv, WantedInv, PausedInv, Running
<1>6. LinkInv'
  BY <1>1 DEF DeployInv, StateInv, LinkInv, Running
<1>7. DirectoriesOwned'
  BY <1>1 DEF DeployInv, StateInv, DirectoriesOwned
<1>8. UnitInv'
  BY <1>1 DEF DeployInv, StateInv, UnitInv, Running
<1>9. AtRecord'
  BY <1>1, <1>2 DEF DeployInv, StateInv, PlaceInv, SameTask, AtRecord
<1>10. AtDisk'
  BY <1>1, <1>2 DEF DeployInv, StateInv, SameTask, AtDisk, AtTree, AtPolicy
<1>11. AtService'
  BY <1>1, <1>2 DEF DeployInv, StateInv, PlaceInv, SameTask, AtService, Running
<1> QED
  BY <1>4, <1>5, <1>6, <1>7, <1>8, <1>2, <1>9, <1>10, <1>11 DEF DeployInv, StateInv, PlaceInv

(***************************************************************************)
(* Beginning, failing, the owner and reboots.                              *)
(***************************************************************************)
\* A process that begins has its fields and its place.
LEMMA Begins ==
    ASSUME DeployInv, NEW op, NEW pc, NEW r \in Choice, NEW p \in Policy, NEW k \in BOOLEAN,
           Begin(op, pc, r, p, k), Process(TRUE)
    PROVE  /\ StateInv' /\ ProcType'
           /\ proc'.op = op /\ proc'.pc = pc /\ proc'.release = r /\ proc'.policy = p
           /\ UNCHANGED <<record, disk, service>>
<1>1. proc' = [op |-> op, pc |-> pc, release |-> r, policy |-> p, keep |-> k]
  BY DEF Begin
<1>2. UNCHANGED <<record, disk, service, helper, wanted, paused, faults>>
  BY DEF Process
<1> QED BY <1>1, <1>2, Undisturbed DEF DeployInv, ProcType

\* Operations begin in a state that their guards have checked.
LEMMA InstallFreshKeeps ==
    ASSUME DeployInv, NEW r \in Release, InstallFresh(r)
    PROVE  DeployInv'
<1>1. /\ record.status = "absent" /\ disk.unit = "absent"
      /\ Begin("install", "record", r, "off", FALSE) /\ Process(TRUE)
  BY DEF InstallFresh
<1>2. /\ StateInv' /\ ProcType'
      /\ proc'.op = "install" /\ proc'.pc = "record" /\ proc'.release = r
      /\ UNCHANGED <<record, disk, service>>
  BY <1>1, Begins DEF Choice, Policy
<1>3. record = NoRecord
  BY <1>1 DEF DeployInv, StateInv, RecordInv
<1>4. AtRecord'
  BY <1>2, <1>3, NoTransaction DEF AtRecord, NoRecord
<1>5. AtDisk' /\ AtService'
  BY <1>1, <1>2 DEF AtDisk, AtTree, AtPolicy, AtService
<1> QED BY <1>2, <1>4, <1>5 DEF DeployInv, PlaceInv

\* An installation that was prepared, or failed, is taken up again.
LEMMA InstallAgainKeeps ==
    ASSUME DeployInv, NEW r \in Release, InstallAgain(r)
    PROVE  DeployInv'
<1>1. /\ Recovered /\ record.staging = None
      /\ record.status \in {"removed", "failed", "preparing"}
      /\ Begin("install", "stage", r, "off", FALSE) /\ Process(TRUE)
  BY DEF InstallAgain
<1>2. /\ StateInv' /\ ProcType'
      /\ proc'.op = "install" /\ proc'.pc = "stage" /\ proc'.release = r
      /\ UNCHANGED <<record, disk, service>>
  BY <1>1, Begins DEF Choice, Policy
<1>3. record.current = None
  BY <1>1 DEF DeployInv, StateInv, TypeOK
<1>4. AtRecord'
  BY <1>1, <1>2, <1>3, NoTransaction DEF AtRecord, Recovered
<1>5. AtDisk' /\ AtService'
  BY <1>2 DEF AtDisk, AtTree, AtPolicy, AtService
<1> QED BY <1>2, <1>4, <1>5 DEF DeployInv, PlaceInv

\* upgrade.
LEMMA UpgradeKeeps ==
    ASSUME DeployInv, NEW r \in Release, upgrade(r)
    PROVE  DeployInv'
<1>1. /\ Recovered /\ record.status = "installed" /\ record.staging = None
      /\ Begin("upgrade", "stage", r, "off", FALSE) /\ Process(TRUE)
  BY DEF upgrade
<1>2. /\ StateInv' /\ ProcType'
      /\ proc'.op = "upgrade" /\ proc'.pc = "stage" /\ proc'.release = r
      /\ UNCHANGED <<record, disk, service>>
  BY <1>1, Begins DEF Choice, Policy
<1>3. AtRecord'
  BY <1>1, <1>2, NoTransaction DEF AtRecord, Recovered
<1>4. AtDisk' /\ AtService'
  BY <1>2 DEF AtDisk, AtTree, AtPolicy, AtService
<1> QED BY <1>2, <1>3, <1>4 DEF DeployInv, PlaceInv

\* rollback.
LEMMA RollbackKeeps == ASSUME DeployInv, rollback PROVE DeployInv'
<1>1. /\ record.previous # None
      /\ Begin("rollback", "activate", record.previous, "off", FALSE) /\ Process(TRUE)
  BY DEF rollback
<1>2. /\ record.previous \in Choice /\ record.previous \in record.releases
      /\ record.status \in {"installed", "removing"}
  BY <1>1 DEF DeployInv, StateInv, TypeOK, Manifest, RecordInv, DirectoriesOwned
<1>3. /\ StateInv' /\ ProcType'
      /\ proc'.op = "rollback" /\ proc'.pc = "activate" /\ proc'.release = record.previous
      /\ UNCHANGED <<record, disk, service>>
  BY <1>1, <1>2, Begins DEF Policy
<1>4. AtRecord'
  BY <1>2, <1>3 DEF AtRecord
<1>5. AtDisk'
  BY <1>2, <1>3 DEF DeployInv, StateInv, UnitInv, AtDisk, AtTree, AtPolicy, Carries
<1>6. AtService'
  BY <1>3 DEF AtService
<1> QED BY <1>3, <1>4, <1>5, <1>6 DEF DeployInv, PlaceInv

\* uninstall, keeping the state or not.
LEMMA UninstallKeeps ==
    ASSUME DeployInv, NEW purge \in BOOLEAN, NEW keep \in BOOLEAN, uninstall(purge, keep)
    PROVE  DeployInv'
<1> DEFINE op == IF purge THEN "purge" ELSE "uninstall"
<1>1. /\ Loads /\ record.restore = "none" /\ record.pending.kind # "policy"
      /\ Begin(op, "helper off", None, "off", keep) /\ Process(TRUE)
  BY DEF uninstall
<1> HIDE DEF op
<1>2. /\ StateInv' /\ ProcType' /\ proc'.pc = "helper off"
      /\ UNCHANGED <<record, disk, service>>
  BY <1>1, Begins DEF Choice, Policy
<1>3. AtRecord'
  BY <1>1, <1>2 DEF AtRecord, Loads
<1>4. AtDisk' /\ AtService'
  BY <1>2 DEF AtDisk, AtTree, AtPolicy, AtService
<1> QED BY <1>2, <1>3, <1>4 DEF DeployInv, PlaceInv

\* A change of the firewall or sandbox policy.
LEMMA PolicyKeeps ==
    ASSUME DeployInv, NEW p \in Policy, policy(p)
    PROVE  DeployInv'
<1>1. /\ Recovered /\ record.status = "installed" /\ record.staging = None
      /\ Begin("policy", "publish", None, p, FALSE) /\ Process(TRUE)
  BY DEF policy
<1>2. /\ StateInv' /\ ProcType' /\ proc'.pc = "publish"
      /\ UNCHANGED <<record, disk, service>>
  BY <1>1, Begins DEF Choice
<1>3. AtRecord'
  BY <1>1, <1>2, NoTransaction DEF AtRecord, Recovered
<1>4. AtDisk' /\ AtService'
  BY <1>2 DEF AtDisk, AtTree, AtPolicy, AtService
<1> QED BY <1>2, <1>3, <1>4 DEF DeployInv, PlaceInv

\* recover, by the owner.
LEMMA RecoverKeeps == ASSUME DeployInv, recover PROVE DeployInv'
<1>1. Loads /\ Begin("recover", "recover", None, "off", TRUE) /\ Process(TRUE)
  BY DEF recover
<1>2. /\ StateInv' /\ ProcType' /\ proc'.pc = "recover"
      /\ UNCHANGED <<record, disk, service>>
  BY <1>1, Begins DEF Choice, Policy
<1>3. AtRecord' /\ AtDisk' /\ AtService'
  BY <1>2 DEF AtRecord, AtDisk, AtTree, AtPolicy, AtService
<1> QED BY <1>2, <1>3 DEF DeployInv, PlaceInv

\* The owner's systemctl commands come between operations and are meant.
LEMMA SystemctlKeeps == ASSUME DeployInv, Systemctl PROVE DeployInv'
<1>1. /\ proc' = NoProc /\ Recovered /\ record.status = "installed"
      /\ UNCHANGED <<record, disk, helper, faults, paused>>
  BY DEF Systemctl, Settled
<1>2. /\ record.pending.kind = "none" /\ record.current # None
      /\ disk.link = record.current /\ disk.unit = record.policy
  BY <1>1, NoTransaction DEF DeployInv, StateInv, TypeOK, LinkInv, UnitInv, Recovered
<1>3. wanted' \in BOOLEAN /\ (wanted' <=> ~Running)
  BY DEF Systemctl, Running
<1>4. /\ service' \in Agent /\ (Running' <=> ~Running)
      /\ Running' => service'.running = disk.link /\ service'.policy = disk.unit
  <2>1. service' = IF Running THEN Stops(service) ELSE Starts(service)
    BY DEF Systemctl
  <2>2. CASE Running
    BY <2>1, <2>2 DEF DeployInv, StateInv, TypeOK, Agent, Choice, Running, Stops
  <2>3. CASE ~Running
    BY <1>2, <2>1, <2>3 DEF DeployInv, StateInv, TypeOK, Files, Agent, Running, Starts
  <2> QED BY <2>2, <2>3
<1>5. TypeOK'
  BY <1>1, <1>3, <1>4 DEF DeployInv, StateInv, TypeOK
<1>6. RecordInv' /\ DirectoriesOwned' /\ PausedInv'
  BY <1>1 DEF DeployInv, StateInv, RecordInv, DirectoriesOwned, PausedInv
<1>7. LinkInv'
  BY <1>1, <1>4 DEF DeployInv, StateInv, LinkInv
<1>8. UnitInv'
  BY <1>1, <1>2, <1>4 DEF DeployInv, StateInv, UnitInv
<1>9. WantedInv'
  BY <1>1, <1>2, <1>3, <1>4 DEF WantedInv
<1>10. ProcType' /\ PlaceInv'
  BY <1>1, AtRest
<1> QED BY <1>5, <1>6, <1>7, <1>8, <1>9, <1>10 DEF DeployInv, StateInv

\* A fault changes nothing that the deployment keeps, and leads to a place that
\* asks for no more than the one it comes from.
LEMMA StepFailsKeeps == ASSUME DeployInv, StepFails PROVE DeployInv'
<1>1. /\ faults' \in 0 .. MaxFaults
      /\ UNCHANGED <<record, disk, service, helper, wanted, paused>>
  BY ReleaseAssumption DEF StepFails, Strikes, DeployInv, StateInv, TypeOK
<1>2. StateInv'
  BY <1>1, Struck DEF DeployInv
<1>3. CASE Handler(proc.pc) = "none"
  BY <1>2, <1>3, AtRest DEF StepFails, Exit, DeployInv
<1>4. CASE Handler(proc.pc) # "none"
  <2>1. proc' = [proc EXCEPT !.pc = Handler(proc.pc)]
    BY <1>4 DEF StepFails, Goto
  <2>2. ProcType' /\ proc'.pc = Handler(proc.pc) /\ SameTask
    BY <2>1, Moves DEF DeployInv
  <2>3. \/ proc.pc = "mkdir" /\ proc'.pc = "unstage"
        \/ proc.pc = "venv" /\ proc'.pc = "clean"
        \/ proc.pc \in SwitchPlaces /\ proc'.pc = "back"
        \/ proc.pc \in PolicyPlaces /\ proc'.pc = "undo stop"
    BY <1>4, <2>2 DEF Handler
  <2>4. AtRecord'
    BY <1>1, <2>2, <2>3 DEF DeployInv, PlaceInv, AtRecord, SameTask
  <2>5. AtDisk' /\ AtService'
    BY <1>1, <2>2, <2>3 DEF DeployInv, PlaceInv, AtDisk, AtTree, AtPolicy, AtService, SameTask
  <2> QED BY <1>2, <2>2, <2>4, <2>5 DEF DeployInv, PlaceInv
<1> QED BY <1>3, <1>4

\* A process that is killed leaves everything as it is.
LEMMA KilledKeeps == ASSUME DeployInv, Killed PROVE DeployInv'
<1>1. /\ proc' = NoProc /\ faults' \in 0 .. MaxFaults
      /\ UNCHANGED <<record, disk, service, helper, wanted, paused>>
  BY ReleaseAssumption DEF Killed, Strikes, Exit, DeployInv, StateInv, TypeOK
<1> QED BY <1>1, Struck, AtRest DEF DeployInv

\* systemd starts what is enabled and selected.
LEMMA RebootKeeps == ASSUME DeployInv, Reboot PROVE DeployInv'
<1> DEFINE Up == service.enabled /\ disk.unit # "absent" /\ disk.link # None
<1>1. /\ proc' = NoProc
      /\ service' = (IF Up THEN Starts(service) ELSE Stops(service))
      /\ wanted' = IF record.pending = NoPending THEN service'.running # None ELSE wanted
      /\ helper' = (helper \/ paused) /\ paused' = FALSE
      /\ UNCHANGED <<record, disk>>
  BY DEF Reboot, Exit
<1>2. faults' \in 0 .. MaxFaults
  BY ReleaseAssumption DEF Reboot, Strikes, DeployInv, StateInv, TypeOK
<1>3. /\ service' \in Agent
      /\ Running' => /\ service'.running = disk.link /\ service'.policy = disk.unit
                     /\ disk.unit # "absent"
  <2>1. CASE Up
    BY <1>1, <2>1 DEF DeployInv, StateInv, TypeOK, Files, Agent, Starts
  <2>2. CASE ~Up
    BY <1>1, <2>2 DEF DeployInv, StateInv, TypeOK, Agent, Choice, Running, Stops
  <2> QED BY <2>1, <2>2
<1>4. wanted' \in BOOLEAN /\ (record.pending = NoPending => (wanted' <=> Running'))
  BY <1>1 DEF DeployInv, StateInv, TypeOK, Running
<1>5. TypeOK'
  <2>1. helper' \in BOOLEAN /\ paused' \in BOOLEAN
    BY <1>1 DEF DeployInv, StateInv, TypeOK
  <2> QED BY <1>1, <1>2, <1>3, <1>4, <2>1 DEF DeployInv, StateInv, TypeOK
<1>6. RecordInv' /\ DirectoriesOwned'
  BY <1>1 DEF DeployInv, StateInv, RecordInv, DirectoriesOwned
<1>11. PausedInv'
  <2>1. ASSUME record.pending.kind = "policy", helper \/ paused PROVE record.pending.helper
    BY <2>1 DEF DeployInv, StateInv, RecordInv, PausedInv
  <2> QED BY <1>1, <2>1 DEF PausedInv
<1>7. LinkInv'
  BY <1>1, <1>3 DEF DeployInv, StateInv, LinkInv
<1>8. UnitInv'
  BY <1>1, <1>3 DEF DeployInv, StateInv, UnitInv
<1>9. WantedInv'
  BY <1>1, <1>4, NoTransaction DEF DeployInv, StateInv, WantedInv, RecordInv
<1>10. ProcType' /\ PlaceInv'
  BY <1>1, AtRest
<1> QED BY <1>5, <1>6, <1>7, <1>8, <1>9, <1>10, <1>11 DEF DeployInv, StateInv

\* An empty host, and an installed one.
LEMMA DeployInit == Init => DeployInv
<1> SUFFICES ASSUME Init PROVE DeployInv
  OBVIOUS
<1>1. /\ proc = NoProc /\ faults = 0 /\ paused = FALSE
      /\ helper = record.lifecycle /\ wanted = record.lifecycle
  BY DEF Init
<1>2. ProcType /\ PlaceInv
  BY <1>1 DEF NoProc, ProcType, Choice, Policy, PlaceInv, AtRecord, AtDisk, AtTree, AtPolicy,
    AtService
<1>3. CASE /\ record = NoRecord /\ service = Stopped
           /\ disk = [tree |-> FALSE, account |-> FALSE, releases |-> {}, link |-> None,
                      unit |-> "absent", files |-> [f \in File |-> "off"], lifecycle |-> FALSE]
  <2>1. record \in Manifest /\ disk \in Files /\ service \in Agent
    BY <1>3, NoTransaction DEF NoRecord, Stopped, Manifest, Files, Agent, Choice, Policy
  <2>2. TypeOK
    <3>1. helper \in BOOLEAN /\ wanted \in BOOLEAN /\ faults \in 0 .. MaxFaults
      BY <1>1, <2>1, ReleaseAssumption DEF Manifest
    <3> QED BY <1>1, <1>3, <2>1, <3>1 DEF TypeOK, NoRecord
  <2>3. RecordInv /\ WantedInv /\ PausedInv /\ DirectoriesOwned
    BY <1>1, <1>3, NoTransaction DEF RecordInv, WantedInv, PausedInv, DirectoriesOwned, NoRecord
  <2>4. LinkInv /\ UnitInv
    BY <1>3 DEF LinkInv, UnitInv, Running, Stopped, NoRecord
  <2> QED BY <1>2, <2>2, <2>3, <2>4 DEF DeployInv, StateInv
<1>4. ASSUME NEW r \in Release,
             record = [NoRecord EXCEPT !.status = "installed", !.uid = TRUE, !.releases = {r},
                                       !.current = r, !.lifecycle = TRUE],
             service = [running |-> r, policy |-> "off", enabled |-> TRUE],
             disk = [tree |-> TRUE, account |-> TRUE, releases |-> {r}, link |-> r,
                     unit |-> "off", files |-> [f \in File |-> "off"], lifecycle |-> TRUE]
      PROVE  DeployInv
  <2>1. /\ record.status = "installed" /\ record.releases = {r} /\ record.current = r
        /\ record.previous = None /\ record.pending = NoPending /\ record.staging = None
        /\ record.policy = "off" /\ record.restore = "none" /\ record.lifecycle = TRUE
    BY <1>4 DEF NoRecord
  <2>2. record \in Manifest /\ disk \in Files /\ service \in Agent
    BY <1>4, NoTransaction DEF NoRecord, Manifest, Files, Agent, Choice, Policy
  <2>3. TypeOK
    <3>1. helper \in BOOLEAN /\ wanted \in BOOLEAN /\ faults \in 0 .. MaxFaults
      BY <1>1, <2>2, ReleaseAssumption DEF Manifest
    <3> QED BY <1>1, <2>1, <2>2, <3>1, ReleaseAssumption DEF TypeOK
  <2>4. RecordInv /\ PausedInv /\ DirectoriesOwned
    BY <1>1, <1>4, <2>1, NoTransaction DEF RecordInv, PausedInv, DirectoriesOwned
  <2>5. LinkInv /\ UnitInv /\ WantedInv
    BY <1>1, <1>4, <2>1, NoTransaction, ReleaseAssumption DEF LinkInv, UnitInv, WantedInv, Running
  <2> QED BY <1>2, <2>3, <2>4, <2>5 DEF DeployInv, StateInv
<1> QED BY <1>3, <1>4 DEF Init

(***************************************************************************)
(* The deployment's invariant is inductive.                                *)
(***************************************************************************)
\* Every step of an operation keeps the invariant.
LEMMA StepKeeps == ASSUME DeployInv, Step PROVE DeployInv'
<1>1. CASE Install
  BY <1>1, InitRecordKeeps, InitAccountKeeps, InitUidKeeps, InitTreeKeeps, StageKnownKeeps,
    StageBeginsKeeps, StageMkdirKeeps, StageBuildsKeeps, StageRemovesKeeps, StageGivesUpKeeps,
    UpgradeStagedKeeps, InstallUnitKeeps, InstallPreparesKeeps, InstallStartsHelperKeeps
    DEF Install
<1>2. CASE Switch
  BY <1>2, ActivateBeginsKeeps, ActivateRefusedKeeps, ActivateStopsKeeps, ActivateSwitchesKeeps,
    ActivateStartsKeeps, ActivateReadyKeeps, ActivateCommitsKeeps, RecoverDispatchKeeps,
    RecoverStagingKeeps, RecoverStagedKeeps, RecoverStopsKeeps, RecoverSwitchesKeeps,
    RecoverStartsKeeps, RecoverReadyKeeps, RecoverSavesKeeps DEF Switch
<1>3. CASE Remove
  BY <1>3, RemoveHelperKeeps, RemoveRefusedKeeps, RemoveBeginsKeeps, RemoveDisablesKeeps, RemoveUnitKeeps,
    RemoveLinkKeeps, RemoveReleaseKeeps, RemoveEndsKeeps, PurgeAccountKeeps, PurgeTreeKeeps
    DEF Remove
<1>4. CASE ChangePolicy
  BY <1>4, PolicyPublishesKeeps, PolicyPausesKeeps, PolicyStopsKeeps, PolicyUnitKeeps,
    PolicyStartsKeeps, PolicyReadyKeeps, PolicyCommitsKeeps, RestoreHelperKeeps,
    RestoreEndsKeeps, UndoStopsKeeps, UndoUnitKeeps, UndoStartsKeeps, UndoReadyKeeps,
    UndoSavesKeeps, PolicyFileKeeps, UndoFileKeeps DEF ChangePolicy
<1> QED BY <1>1, <1>2, <1>3, <1>4 DEF Step

\* So does every command of the owner.
LEMMA OperatorKeeps == ASSUME DeployInv, Operator PROVE DeployInv'
  BY InstallFreshKeeps, InstallAgainKeeps, UpgradeKeeps, RollbackKeeps, UninstallKeeps,
    PolicyKeeps, SystemctlKeeps DEF Operator

\* A state in which the deployment has not changed is as good as before.
LEMMA DeployStutters == ASSUME DeployInv, UNCHANGED vars PROVE DeployInv'
<1>1. StateInv'
  BY Undisturbed DEF vars, DeployInv
<1>2. ProcType'
  BY DEF vars, DeployInv, ProcType
<1>3. PlaceInv'
  BY PlaceStays DEF vars, DeployInv
<1> QED BY <1>1, <1>2, <1>3 DEF DeployInv

\* The invariant is inductive.
LEMMA DeployStep == ASSUME DeployInv, [Next]_vars PROVE DeployInv'
  BY StepKeeps, OperatorKeeps, RecoverKeeps, StepFailsKeeps, KilledKeeps, RebootKeeps,
    DeployStutters DEF Next, Environment

\* What the invariant says at rest.
LEMMA DeployHonest == ASSUME DeployInv PROVE ManifestHonest
<1>1. TypeOK /\ DirectoriesOwned
  BY DEF DeployInv, StateInv
<1>2. SelectionRecorded
  BY DEF DeployInv, StateInv, LinkInv, SelectionRecorded
<1>3. PolicyWhole
  BY DEF DeployInv, StateInv, UnitInv, PolicyWhole
<1> QED BY <1>1, <1>2, <1>3 DEF ManifestHonest

\* What it says of the agent.
LEMMA DeployRuns == ASSUME DeployInv PROVE RunsAsWanted
<1>1. Running => service.running \in disk.releases
  BY DEF DeployInv, StateInv, LinkInv, Running
<1>2. ASSUME Settled PROVE ~paused
  BY <1>2, NoTransaction DEF Settled, Recovered, DeployInv, StateInv, PausedInv
<1>3. ASSUME Settled, record.status = "installed" PROVE wanted <=> service.running = record.current
  <2>1. /\ record.pending.kind = "none" /\ record.current # None
        /\ disk.link = record.current
    BY <1>3, NoTransaction DEF Settled, Recovered, DeployInv, StateInv, TypeOK, LinkInv
  <2>2. wanted <=> Running
    BY <1>3, <2>1 DEF DeployInv, StateInv, WantedInv
  <2>3. Running <=> service.running = record.current
    BY <2>1 DEF DeployInv, StateInv, LinkInv, Running
  <2> QED BY <2>2, <2>3
<1> QED BY <1>1, <1>2, <1>3 DEF RunsAsWanted

\* Whatever command, write or reboot fails, and wherever a process is killed, the
\* manifest tells the truth about the host, for any number of releases.
THEOREM DeploymentHonest == Spec => [](ManifestHonest /\ RunsAsWanted)
  BY DeployInit, DeployStep, DeployHonest, DeployRuns, PTL DEF Spec

(***************************************************************************)
(* The helper.                                                             *)
(***************************************************************************)
Result == {"none", "ok", "error", "interrupted", "review"}

Job ==
    [status : {"none", "queued", "running", "succeeded", "failed"}, result : Result,
     reported : BOOLEAN, runs : Nat, after : Choice]

WorkerType ==
    [pc : {"down", "boot", "recover", "loop", "spawn", "child", "finish"},
     job : Request \cup {None}, recovering : BOOLEAN, result : Result]

\* The lock is held by the process there is, and the worker waits for its child.
LockInv ==
    /\ owner \in {"none", "host", "cli"}
    /\ owner = "none" <=> proc = NoProc
    /\ owner = "host" <=> host.pc = "child"

\* A job is begun once it is running, and answered after that.
JournalInv ==
    /\ jobs \in [Request -> Job]
    /\ \A q \in Request :
        /\ jobs[q].status \in {"none", "queued"} => jobs[q].runs = 0
        /\ jobs[q].status \in {"none", "queued", "running"} => jobs[q].result = "none"
        /\ jobs[q].runs <= 1

\* A worker that will begin a job, or waits for it, has it running.
WorkerInv ==
    /\ host \in WorkerType
    /\ host.pc \in {"recover", "spawn", "child", "finish"} => host.job \in Request
    /\ host.pc \in {"spawn", "child"} => jobs[host.job].status = "running"
    /\ host.pc = "spawn" => jobs[host.job].runs = 0 /\ ~host.recovering

\* The child that a job was begun in does what the job asks for.
TaskInv ==
    owner = "host" /\ ~host.recovering =>
        /\ proc.op = Wanted[host.job].action
        /\ proc.op = "upgrade" => proc.release = Wanted[host.job].release

DidAsAsked(q) ==
    /\ Wanted[q].action = "upgrade" => jobs[q].after = Wanted[q].release
    /\ Wanted[q].action = "uninstall" => jobs[q].after = None

\* An answer of "ok" is true, also before it is in the journal.
AnswerInv ==
    /\ \A q \in Request : jobs[q].result = "ok" => DidAsAsked(q)
    /\ host.pc = "finish" /\ host.result = "ok" => DidAsAsked(host.job)

HostInv == DeployInv /\ LockInv /\ JournalInv /\ WorkerInv /\ TaskInv /\ AnswerInv

\* A step ends its process or leaves it what it was begun for.
LEMMA StepKeepsTask == ASSUME Step, ProcType PROVE proc' = NoProc \/ SameTask
<1>1. Install => proc' = NoProc \/ \E pc : proc' = [proc EXCEPT !.pc = pc]
  BY DEF Install, InitRecord, InitAccount, InitUid, InitTree, StageKnown, StageBegins,
    StageMkdir, StageBuilds, StageRemoves, StageGivesUp, UpgradeStaged, InstallUnit,
    InstallPrepares, InstallStartsHelper, Goto, Exit
<1>2. Switch => proc' = NoProc \/ \E pc : proc' = [proc EXCEPT !.pc = pc]
  BY DEF Switch, ActivateBegins, ActivateRefused, ActivateStops, ActivateSwitches,
    ActivateStarts, ActivateReady, ActivateCommits, RecoverDispatch, RecoverStaging,
    RecoverStaged, RecoverStops, RecoverSwitches, RecoverStarts, RecoverReady, RecoverSaves,
    Goto, Exit
<1>3. Remove => \/ proc' \in {NoProc, proc}
                \/ \E pc : proc' = [proc EXCEPT !.pc = pc]
  BY DEF Remove, RemoveHelper, RemoveRefused, RemoveBegins, RemoveDisables, RemoveUnit, RemoveLink,
    RemoveRelease, RemoveEnds, PurgeAccount, PurgeTree, Goto, Exit
<1>4. ChangePolicy => \/ proc' \in {NoProc, proc}
                      \/ \E pc : proc' = [proc EXCEPT !.pc = pc]
  BY DEF ChangePolicy, PolicyPublishes, PolicyPauses, PolicyStops, PolicyUnit, PolicyStarts,
    PolicyReady, PolicyCommits, RestoreHelper, RestoreEnds, UndoStops, UndoUnit, UndoStarts,
    UndoReady, UndoSaves, PolicyFile, UndoFile, Goto, Exit
<1>5. (\E pc : proc' = [proc EXCEPT !.pc = pc]) => SameTask
  BY Moves
<1> QED BY <1>1, <1>2, <1>3, <1>4, <1>5 DEF Step, SameTask

\* Which step leaves each of the places where an operation ends well.
LEMMA StepAtEnd ==
    ASSUME Step
    PROVE  /\ proc.pc = "commit" => ActivateCommits
           /\ proc.pc = "staged" => UpgradeStaged \/ InstallUnit
           /\ proc.pc = "remove" => RemoveEnds \/ \E r \in Release : RemoveRelease(r)
<1>1. Install => UpgradeStaged \/ InstallUnit \/ proc.pc \notin {"commit", "staged", "remove"}
  BY DEF Install, InitRecord, InitAccount, InitUid, InitTree, StageKnown, StageBegins,
    StageMkdir, StageBuilds, StageRemoves, StageGivesUp, InstallPrepares, InstallStartsHelper, At
<1>2. Switch => ActivateCommits \/ proc.pc \notin {"commit", "staged", "remove"}
  BY DEF Switch, ActivateBegins, ActivateRefused, ActivateStops, ActivateSwitches,
    ActivateStarts, ActivateReady, RecoverDispatch, RecoverStaging, RecoverStaged, RecoverStops,
    RecoverSwitches, RecoverStarts, RecoverReady, RecoverSaves, At
<1>3. Remove => \/ RemoveEnds \/ \E r \in Release : RemoveRelease(r)
                \/ proc.pc \notin {"commit", "staged", "remove"}
  BY DEF Remove, RemoveHelper, RemoveRefused, RemoveBegins, RemoveDisables, RemoveUnit, RemoveLink,
    PurgeAccount, PurgeTree, At
<1>4. ChangePolicy => proc.pc \notin {"commit", "staged", "remove"}
  BY DEF ChangePolicy, PolicyPublishes, PolicyPauses, PolicyStops, PolicyUnit, PolicyStarts,
    PolicyReady, PolicyCommits, RestoreHelper, RestoreEnds, UndoStops, UndoUnit, UndoStarts,
    UndoReady, UndoSaves, PolicyFile, UndoFile, At
<1>5. /\ ActivateCommits => proc.pc = "commit"
      /\ UpgradeStaged \/ InstallUnit => proc.pc = "staged"
      /\ RemoveEnds \/ (\E r \in Release : RemoveRelease(r)) => proc.pc = "remove"
  BY DEF ActivateCommits, UpgradeStaged, InstallUnit, RemoveEnds, RemoveRelease, At
<1> QED BY <1>1, <1>2, <1>3, <1>4, <1>5 DEF Step

\* execute_job answers "ok" only where its operation has done what it is for.
LEMMA EndsAsAsked ==
    ASSUME DeployInv, Step, proc' = NoProc
    PROVE  /\ proc.pc \in {"commit", "staged"} /\ proc.op = "upgrade" =>
                record'.current = proc.release
           /\ proc.pc = "remove" /\ proc.op = "uninstall" => record'.current = None
<1>1. ASSUME proc.pc = "commit" PROVE record'.current = proc.release
  BY <1>1, StepAtEnd DEF ActivateCommits, Records, DeployInv, StateInv, TypeOK, Manifest
<1>2. ASSUME proc.pc = "staged", proc.op = "upgrade" PROVE record'.current = proc.release
  <2>1. UpgradeStaged
    BY <1>2, StepAtEnd DEF InstallUnit
  <2>2. CASE proc.release = record.current
    BY <2>1, <2>2 DEF UpgradeStaged, Process
  <2>3. CASE proc.release # record.current
    <3>1. proc' = [proc EXCEPT !.pc = "activate"]
      BY <2>1, <2>3 DEF UpgradeStaged, Goto
    <3>2. proc'.op = "upgrade"
      BY <1>2, <3>1 DEF DeployInv, ProcType
    <3> QED BY <3>2 DEF NoProc
  <2> QED BY <2>2, <2>3
<1>3. ASSUME proc.pc = "remove" PROVE record'.current = None
  <2>1. CASE RemoveEnds
    BY <2>1 DEF RemoveEnds, Records, DeployInv, StateInv
  <2>2. CASE \E r \in Release : RemoveRelease(r)
    <3>1. proc' = proc
      BY <2>2 DEF RemoveRelease
    <3> QED BY <1>3, <3>1 DEF NoProc
  <2> QED BY <1>3, <2>1, <2>2, StepAtEnd
<1> QED BY <1>1, <1>2, <1>3

\* What the worker does about a child is one of two things.
LEMMA GivingUp ==
    ASSUME WorkerInv, GivesUp
    PROVE  /\ host' \in WorkerType /\ host'.job = host.job /\ host'.recovering = host.recovering
           /\ \/ host'.pc = "finish" /\ host'.result = "review"
              \/ host'.pc = "recover"
<1>1. CASE host.recovering
  BY <1>1 DEF GivesUp, WorkerInv, WorkerType, Result
<1>2. CASE ~host.recovering
  BY <1>2 DEF GivesUp, WorkerInv, WorkerType, Result
<1> QED BY <1>1, <1>2

\* A worker that is down, or has just come up, has nothing to answer for.
LEMMA Restarts ==
    ASSUME HostInv, DeployInv', LockInv', UNCHANGED jobs, host' \in WorkerType,
           host'.pc \in {"down", "boot", "loop"}
    PROVE  HostInv'
<1>1. JournalInv'
  BY DEF HostInv, JournalInv
<1>2. WorkerInv'
  BY DEF WorkerInv
<1>3. TaskInv' /\ AnswerInv'
  BY DEF HostInv, LockInv, TaskInv, AnswerInv, DidAsAsked
<1> QED BY <1>1, <1>2, <1>3 DEF HostInv

\* The journal and the worker say nothing of a process of the owner's.
LEMMA OwnersTurn ==
    ASSUME HostInv, DeployInv', owner # "host", owner' # "host", LockInv', UNCHANGED <<jobs, host>>
    PROVE  HostInv'
  BY DEF HostInv, JournalInv, WorkerInv, TaskInv, AnswerInv, DidAsAsked

\* The socket.
LEMMA SubmitKeeps == ASSUME HostInv, NEW q \in Request, submit(q) PROVE HostInv'
<1>1. /\ jobs[q].status = "none" /\ jobs' = [jobs EXCEPT ![q].status = "queued"]
      /\ UNCHANGED <<vars, host, owner>>
  BY DEF submit
<1>2. DeployInv'
  BY <1>1, DeployStutters DEF HostInv
<1>3. JournalInv'
  BY <1>1 DEF HostInv, JournalInv, Job
<1>4. LockInv' /\ WorkerInv' /\ TaskInv'
  BY <1>1 DEF HostInv, JournalInv, Job, LockInv, WorkerInv, TaskInv, vars
<1>5. AnswerInv'
  BY <1>1 DEF HostInv, JournalInv, Job, WorkerInv, AnswerInv, DidAsAsked
<1> QED BY <1>2, <1>3, <1>4, <1>5 DEF HostInv

\* An answer that was acknowledged is not reported again.
LEMMA AcknowledgeKeeps == ASSUME HostInv, NEW q \in Request, acknowledge(q) PROVE HostInv'
<1>1. /\ jobs' = [jobs EXCEPT ![q].reported = TRUE]
      /\ UNCHANGED <<vars, host, owner>>
  BY DEF acknowledge
<1>2. DeployInv'
  BY <1>1, DeployStutters DEF HostInv
<1>3. JournalInv'
  BY <1>1 DEF HostInv, JournalInv, Job
<1>4. LockInv' /\ WorkerInv' /\ TaskInv'
  BY <1>1 DEF HostInv, JournalInv, Job, LockInv, WorkerInv, TaskInv, vars
<1>5. AnswerInv'
  BY <1>1 DEF HostInv, JournalInv, Job, WorkerInv, AnswerInv, DidAsAsked
<1> QED BY <1>2, <1>3, <1>4, <1>5 DEF HostInv

\* The worker, between jobs.
LEMMA HostStartsKeeps == ASSUME HostInv, HostStarts PROVE HostInv'
<1>1. /\ host.pc = "down" /\ host' = [HostDown EXCEPT !.pc = "boot"]
      /\ UNCHANGED <<vars, jobs, owner>>
  BY DEF HostStarts
<1>2. DeployInv'
  BY <1>1, DeployStutters DEF HostInv
<1>3. host' \in WorkerType /\ host'.pc = "boot"
  BY <1>1 DEF HostDown, WorkerType, Result
<1>4. LockInv'
  BY <1>1, <1>3 DEF HostInv, LockInv, vars
<1> QED BY <1>1, <1>2, <1>3, <1>4, Restarts

\* A worker that comes up recovers a job it finds running before anything else.
LEMMA HostBootsKeeps == ASSUME HostInv, HostBoots PROVE HostInv'
<1>1. host.pc = "boot" /\ UNCHANGED <<vars, jobs, owner>>
  BY DEF HostBoots
<1>2. DeployInv'
  BY <1>1, DeployStutters DEF HostInv
<1>3. ASSUME NEW q \in WereRunning, host' = [host EXCEPT !.pc = "recover", !.job = q]
      PROVE  HostInv'
  <2>1. host' \in WorkerType /\ host'.pc = "recover" /\ host'.job = q /\ q \in Request
    BY <1>3 DEF HostInv, WorkerInv, WorkerType, WereRunning
  <2>2. LockInv' /\ TaskInv'
    BY <1>1, <2>1 DEF HostInv, LockInv, TaskInv, vars
  <2>3. JournalInv' /\ WorkerInv' /\ AnswerInv'
    BY <1>1, <2>1 DEF HostInv, JournalInv, WorkerInv, AnswerInv, DidAsAsked
  <2> QED BY <1>2, <2>2, <2>3 DEF HostInv
<1>4. CASE host' = [host EXCEPT !.pc = "loop"]
  <2>1. host' \in WorkerType /\ host'.pc = "loop"
    BY <1>4 DEF HostInv, WorkerInv, WorkerType
  <2>2. LockInv'
    BY <1>1, <2>1 DEF HostInv, LockInv, vars
  <2> QED BY <1>1, <1>2, <2>1, <2>2, Restarts
<1> QED BY <1>3, <1>4 DEF HostBoots

\* Taking a job and beginning it.
LEMMA TakesJobKeeps == ASSUME HostInv, NEW q \in Request, TakesJob(q) PROVE HostInv'
<1>1. /\ host.pc = "loop" /\ jobs[q].status = "queued"
      /\ jobs' = [jobs EXCEPT ![q].status = "running"]
      /\ host' = [HostDown EXCEPT !.pc = "spawn", !.job = q]
      /\ UNCHANGED <<vars, owner>>
  BY DEF TakesJob
<1>2. DeployInv'
  BY <1>1, DeployStutters DEF HostInv
<1>3. /\ host' \in WorkerType /\ host'.pc = "spawn" /\ host'.job = q /\ host'.recovering = FALSE
  BY <1>1 DEF HostDown, WorkerType, Result
<1>4. LockInv' /\ TaskInv'
  BY <1>1, <1>3 DEF HostInv, LockInv, TaskInv, vars
<1>5. JournalInv'
  BY <1>1 DEF HostInv, JournalInv, Job
<1>6. WorkerInv'
  BY <1>1, <1>3 DEF HostInv, JournalInv, Job, WorkerInv
<1>7. AnswerInv'
  BY <1>1, <1>3 DEF HostInv, JournalInv, Job, AnswerInv, DidAsAsked
<1> QED BY <1>2, <1>4, <1>5, <1>6, <1>7 DEF HostInv

\* Beginning an operation keeps the deployment's invariant and sets what it is for.
LEMMA OperationBegins ==
    ASSUME DeployInv, NEW q \in Request, Operation(q)
    PROVE  /\ DeployInv' /\ proc' # NoProc /\ proc'.op = Wanted[q].action
           /\ proc'.op = "upgrade" => proc'.release = Wanted[q].release
<1>1. Wanted[q].action \in {"upgrade", "rollback", "uninstall"} /\ Wanted[q].release \in Release
  BY RequestAssumption
<1>2. CASE Wanted[q].action = "upgrade"
  <2>1. upgrade(Wanted[q].release)
    BY <1>2 DEF Operation
  <2>2. proc'.op = "upgrade" /\ proc'.release = Wanted[q].release
    BY <2>1 DEF upgrade, Begin
  <2> QED BY <1>1, <1>2, <2>1, <2>2, UpgradeKeeps DEF NoProc
<1>3. CASE Wanted[q].action = "rollback"
  <2>1. rollback
    BY <1>3 DEF Operation
  <2>2. proc'.op = "rollback"
    BY <2>1 DEF rollback, Begin
  <2> QED BY <1>3, <2>1, <2>2, RollbackKeeps DEF NoProc
<1>4. CASE Wanted[q].action = "uninstall"
  <2>1. uninstall(FALSE, TRUE)
    BY <1>4 DEF Operation
  <2>2. proc'.op = "uninstall"
    BY <2>1 DEF uninstall, Begin
  <2>3. FALSE \in BOOLEAN /\ TRUE \in BOOLEAN
    OBVIOUS
  <2>4. DeployInv'
    BY <2>1, <2>3, UninstallKeeps
  <2> QED BY <1>4, <2>2, <2>4 DEF NoProc
<1> QED BY <1>1, <1>2, <1>3, <1>4

\* The child takes the lock and begins what the job asks for.
LEMMA ChildBeginsKeeps == ASSUME HostInv, ChildBegins PROVE HostInv'
<1> DEFINE q == host.job
<1>1. /\ host.pc = "spawn" /\ Operation(q)
      /\ jobs' = [jobs EXCEPT ![q].runs = @ + 1]
      /\ owner' = "host" /\ host' = [host EXCEPT !.pc = "child"]
  BY DEF ChildBegins
<1>2. /\ q \in Request /\ jobs[q].status = "running" /\ jobs[q].runs = 0
  BY <1>1 DEF HostInv, WorkerInv
<1>3. /\ DeployInv' /\ proc' # NoProc /\ proc'.op = Wanted[q].action
      /\ proc'.op = "upgrade" => proc'.release = Wanted[q].release
  BY <1>1, <1>2, OperationBegins DEF HostInv
<1>4. host' \in WorkerType /\ host'.pc = "child" /\ host'.job = q
  BY <1>1 DEF HostInv, WorkerInv, WorkerType
<1> HIDE DEF q
<1>5. LockInv' /\ TaskInv'
  BY <1>1, <1>3, <1>4 DEF LockInv, TaskInv
<1>6. JournalInv'
  BY <1>1, <1>2 DEF HostInv, JournalInv, Job
<1>7. WorkerInv'
  BY <1>1, <1>2, <1>4 DEF HostInv, JournalInv, Job, WorkerInv
<1>8. AnswerInv'
  BY <1>1, <1>2, <1>4 DEF HostInv, JournalInv, Job, AnswerInv, DidAsAsked
<1> QED BY <1>3, <1>5, <1>6, <1>7, <1>8 DEF HostInv

\* A child that ends before its operation begins ends with an error.
LEMMA ChildRefusedKeeps == ASSUME HostInv, ChildRefused PROVE HostInv'
<1>1. /\ host.pc = "spawn" /\ host' = [host EXCEPT !.pc = "finish", !.result = "error"]
      /\ UNCHANGED <<vars, jobs, owner>>
  BY DEF ChildRefused, Ends
<1>2. DeployInv'
  BY <1>1, DeployStutters DEF HostInv
<1>3. /\ host' \in WorkerType /\ host'.pc = "finish" /\ host'.job = host.job
      /\ host'.result = "error"
  BY <1>1 DEF HostInv, WorkerInv, WorkerType, Result
<1>4. LockInv' /\ TaskInv'
  BY <1>1, <1>3 DEF HostInv, LockInv, TaskInv, vars
<1>5. JournalInv' /\ WorkerInv'
  BY <1>1, <1>3 DEF HostInv, JournalInv, WorkerInv
<1>6. AnswerInv'
  BY <1>1, <1>3 DEF HostInv, AnswerInv, DidAsAsked
<1> QED BY <1>2, <1>4, <1>5, <1>6 DEF HostInv

\* recover_policy, run by the child, ends the helper and the child itself.
LEMMA ChildStopsItselfKeeps == ASSUME HostInv, ChildStopsItself PROVE HostInv'
<1>1. /\ proc.pc = "undo stop" /\ proc' = NoProc
      /\ helper' = FALSE /\ paused' = (paused \/ helper)
      /\ host' = HostDown /\ owner' = "none"
      /\ UNCHANGED <<record, disk, service, faults, wanted, jobs>>
  BY DEF ChildStopsItself, At, Pauses, Exit
<1>2. DeployInv'
  <2>1. TypeOK'
    BY <1>1 DEF HostInv, DeployInv, StateInv, TypeOK
  <2>2. RecordInv' /\ LinkInv' /\ DirectoriesOwned' /\ UnitInv' /\ WantedInv'
    BY <1>1, HelperOnly DEF HostInv, DeployInv
  <2>3. PausedInv'
    BY <1>1 DEF HostInv, DeployInv, StateInv, PlaceInv, PausedInv, AtRecord
  <2> QED BY <1>1, <2>1, <2>2, <2>3, AtRest DEF DeployInv, StateInv
<1>3. host' \in WorkerType /\ host'.pc = "down"
  BY <1>1 DEF HostDown, WorkerType, Result
<1>4. LockInv'
  BY <1>1, <1>3 DEF LockInv
<1> QED BY <1>1, <1>2, <1>3, <1>4, Restarts

\* The child at work.
LEMMA ChildStepKeeps == ASSUME HostInv, ChildStep PROVE HostInv'
<1>1. owner = "host" /\ Step
  BY DEF ChildStep
<1>2. DeployInv'
  BY <1>1, StepKeeps DEF HostInv
<1>3. PICK q \in Request :
        host.pc = "child" /\ host.job = q /\ jobs[q].status = "running" /\ jobs[q].result = "none"
  BY <1>1 DEF HostInv, LockInv, WorkerInv, JournalInv
<1>4. CASE proc' # NoProc
  <2>1. UNCHANGED <<jobs, host, owner>>
    BY <1>4 DEF ChildStep
  <2>2. SameTask
    BY <1>1, <1>4, StepKeepsTask DEF HostInv, DeployInv
  <2>3. LockInv' /\ TaskInv'
    BY <1>1, <1>4, <2>1, <2>2 DEF HostInv, LockInv, TaskInv, SameTask
  <2>4. JournalInv' /\ WorkerInv' /\ AnswerInv'
    BY <2>1 DEF HostInv, JournalInv, WorkerInv, AnswerInv, DidAsAsked
  <2> QED BY <1>2, <2>3, <2>4 DEF HostInv
<1>5. CASE proc' = NoProc
  <2>1. /\ owner' = "none" /\ host' = [host EXCEPT !.pc = "finish", !.result = Outcome]
        /\ jobs' = [jobs EXCEPT ![q].after = record'.current]
    BY <1>3, <1>5 DEF ChildStep, Ends
  <2>2. Outcome \in {"ok", "error", "interrupted"}
    BY DEF Outcome, AfterRecovery
  <2>3. record'.current \in Choice
    BY <1>2 DEF DeployInv, StateInv, TypeOK, Manifest
  <2>4. /\ host' \in WorkerType /\ host'.pc = "finish" /\ host'.job = q /\ host'.result = Outcome
    BY <1>3, <2>1, <2>2 DEF HostInv, WorkerInv, WorkerType, Result
  <2>5. LockInv' /\ TaskInv'
    BY <1>5, <2>1, <2>4 DEF LockInv, TaskInv
  <2>6. JournalInv' /\ WorkerInv'
    BY <1>3, <2>1, <2>3, <2>4 DEF HostInv, JournalInv, WorkerInv, Job
  <2>7. ASSUME Outcome = "ok" PROVE DidAsAsked(q)'
    <3>1. ~host.recovering
      BY <2>7 DEF Outcome, AfterRecovery
    <3>2. \/ proc.pc \in {"commit", "staged"} /\ proc.op \in {"upgrade", "rollback"}
          \/ proc.pc = "remove" /\ proc.op = "uninstall"
      BY <2>7, <3>1 DEF Outcome
    <3>3. /\ proc.op = Wanted[q].action
          /\ proc.op = "upgrade" => proc.release = Wanted[q].release
      BY <1>1, <1>3, <3>1 DEF HostInv, TaskInv
    <3>4. /\ Wanted[q].action = "upgrade" => record'.current = Wanted[q].release
          /\ Wanted[q].action = "uninstall" => record'.current = None
      BY <1>1, <1>5, <3>2, <3>3, EndsAsAsked DEF HostInv
    <3>5. jobs'[q].after = record'.current
      BY <1>3, <2>1, <2>3 DEF HostInv, JournalInv, Job
    <3> QED BY <3>4, <3>5 DEF DidAsAsked
  <2>8. AnswerInv'
    <3>1. \A p \in Request : jobs'[p].result = jobs[p].result /\ (p # q => jobs'[p] = jobs[p])
      BY <2>1 DEF HostInv, JournalInv, Job
    <3>2. \A p \in Request : jobs'[p].result = "ok" => DidAsAsked(p)'
      BY <1>3, <3>1 DEF HostInv, AnswerInv, DidAsAsked
    <3> QED BY <2>4, <2>7, <3>2 DEF AnswerInv
  <2> QED BY <1>2, <2>5, <2>6, <2>8 DEF HostInv
<1> QED BY <1>4, <1>5

\* A child that fails goes on cleaning up, or ends with an error.
LEMMA ChildStepFailsKeeps == ASSUME HostInv, ChildStepFails PROVE HostInv'
<1>1. owner = "host" /\ StepFails /\ UNCHANGED jobs
  BY DEF ChildStepFails
<1>2. DeployInv'
  BY <1>1, StepFailsKeeps DEF HostInv
<1>3. JournalInv'
  BY <1>1 DEF HostInv, JournalInv
<1>4. CASE proc' = NoProc
  <2>1. owner' = "none" /\ host' = [host EXCEPT !.pc = "finish", !.result = "error"]
    BY <1>4 DEF ChildStepFails, Ends
  <2>2. /\ host' \in WorkerType /\ host'.pc = "finish" /\ host'.job = host.job
        /\ host'.result = "error" /\ host.job \in Request
    BY <1>1, <2>1 DEF HostInv, LockInv, WorkerInv, WorkerType, Result
  <2>3. LockInv' /\ TaskInv' /\ WorkerInv'
    BY <1>4, <2>1, <2>2 DEF LockInv, TaskInv, WorkerInv
  <2>4. AnswerInv'
    BY <1>1, <2>2 DEF HostInv, AnswerInv, DidAsAsked
  <2> QED BY <1>2, <1>3, <2>3, <2>4 DEF HostInv
<1>5. CASE proc' # NoProc
  <2>1. UNCHANGED <<host, owner>>
    BY <1>5 DEF ChildStepFails
  <2>2. proc' = [proc EXCEPT !.pc = Handler(proc.pc)]
    BY <1>1, <1>5 DEF StepFails, Exit, Goto
  <2>3. SameTask
    BY <2>2, Moves DEF HostInv, DeployInv
  <2>4. LockInv' /\ TaskInv'
    BY <1>1, <1>5, <2>1, <2>3 DEF HostInv, LockInv, TaskInv, SameTask
  <2>5. WorkerInv' /\ AnswerInv'
    BY <1>1, <2>1 DEF HostInv, WorkerInv, AnswerInv, DidAsAsked
  <2> QED BY <1>2, <1>3, <2>4, <2>5 DEF HostInv
<1> QED BY <1>4, <1>5

\* One that does not answer is killed and recovered, and its recovery reviewed.
LEMMA ChildKilledKeeps == ASSUME HostInv, ChildKilled PROVE HostInv'
<1>1. owner = "host" /\ Killed /\ owner' = "none" /\ GivesUp /\ UNCHANGED jobs
  BY DEF ChildKilled
<1>2. DeployInv'
  BY <1>1, KilledKeeps DEF HostInv
<1>3. proc' = NoProc
  BY <1>1 DEF Killed, Exit
<1>4. /\ host' \in WorkerType /\ host'.job = host.job
      /\ \/ host'.pc = "finish" /\ host'.result = "review"
         \/ host'.pc = "recover"
  BY <1>1, GivingUp DEF HostInv
<1>5. host.job \in Request
  BY <1>1 DEF HostInv, LockInv, WorkerInv
<1>6. LockInv' /\ TaskInv' /\ WorkerInv'
  BY <1>1, <1>3, <1>4, <1>5 DEF LockInv, TaskInv, WorkerInv
<1>7. JournalInv' /\ AnswerInv'
  BY <1>1, <1>4 DEF HostInv, JournalInv, AnswerInv, DidAsAsked
<1> QED BY <1>2, <1>6, <1>7 DEF HostInv

\* Recovery.
LEMMA RecoveryBeginsKeeps == ASSUME HostInv, RecoveryBegins PROVE HostInv'
<1>1. /\ host.pc = "recover" /\ jobs[host.job].status = "running" /\ recover
      /\ owner' = "host" /\ host' = [host EXCEPT !.pc = "child", !.recovering = TRUE]
      /\ UNCHANGED jobs
  BY DEF RecoveryBegins
<1>2. DeployInv'
  BY <1>1, RecoverKeeps DEF HostInv
<1>3. proc' # NoProc
  BY <1>1 DEF recover, Begin, NoProc
<1>4. /\ host' \in WorkerType /\ host'.pc = "child" /\ host'.job = host.job
      /\ host'.recovering /\ host.job \in Request
  BY <1>1 DEF HostInv, WorkerInv, WorkerType
<1>5. LockInv' /\ TaskInv' /\ WorkerInv'
  BY <1>1, <1>3, <1>4 DEF LockInv, TaskInv, WorkerInv
<1>6. JournalInv' /\ AnswerInv'
  BY <1>1, <1>4 DEF HostInv, JournalInv, AnswerInv, DidAsAsked
<1> QED BY <1>2, <1>5, <1>6 DEF HostInv

\* A recovery that may not begin ends in a review or an error.
LEMMA RecoveryRefusedKeeps == ASSUME HostInv, RecoveryRefused PROVE HostInv'
<1> DEFINE result == IF jobs[host.job].status # "running" THEN "review" ELSE "error"
<1>1. /\ host.pc = "recover"
      /\ host' = [host EXCEPT !.pc = "finish", !.recovering = TRUE, !.result = result]
      /\ UNCHANGED <<vars, jobs, owner>>
  BY DEF RecoveryRefused
<1>2. result \in {"review", "error"}
  OBVIOUS
<1> HIDE DEF result
<1>3. DeployInv'
  BY <1>1, DeployStutters DEF HostInv
<1>4. /\ host' \in WorkerType /\ host'.pc = "finish" /\ host'.job = host.job
      /\ host'.result # "ok" /\ host.job \in Request
  BY <1>1, <1>2 DEF HostInv, WorkerInv, WorkerType, Result
<1>5. LockInv' /\ TaskInv' /\ WorkerInv'
  BY <1>1, <1>4 DEF HostInv, LockInv, TaskInv, WorkerInv, vars
<1>6. JournalInv' /\ AnswerInv'
  BY <1>1, <1>4 DEF HostInv, JournalInv, AnswerInv, DidAsAsked
<1> QED BY <1>3, <1>5, <1>6 DEF HostInv

\* JobStore.finish answers a job once, and with what the worker knows to be true.
LEMMA Answers ==
    ASSUME HostInv, host.pc = "finish", jobs' \in {jobs, Finished}
    PROVE  JournalInv' /\ \A q \in Request : jobs'[q].result = "ok" => DidAsAsked(q)'
<1>1. PICK q \in Request : host.job = q
  BY DEF HostInv, WorkerInv
<1>2. CASE jobs' = jobs
  BY <1>2 DEF HostInv, JournalInv, AnswerInv, DidAsAsked
<1>3. CASE jobs' = Finished /\ jobs' # jobs
  <2> DEFINE s == IF host.result = "ok" THEN "succeeded" ELSE "failed"
  <2>1. jobs' = [jobs EXCEPT ![q].status = s, ![q].result = host.result]
    BY <1>1, <1>3 DEF Finished
  <2>2. s \in {"succeeded", "failed"} /\ host.result \in Result
    BY DEF HostInv, WorkerInv, WorkerType
  <2> HIDE DEF s
  <2>3. /\ jobs' \in [Request -> Job]
        /\ jobs'[q].status = s /\ jobs'[q].result = host.result
        /\ jobs'[q].runs = jobs[q].runs /\ jobs'[q].after = jobs[q].after
        /\ \A p \in Request \ {q} : jobs'[p] = jobs[p]
    BY <2>1, <2>2 DEF HostInv, JournalInv, Job
  <2>4. JournalInv'
    BY <2>2, <2>3 DEF HostInv, JournalInv
  <2>5. host.result = "ok" => DidAsAsked(q)
    BY <1>1 DEF HostInv, AnswerInv
  <2> QED BY <2>3, <2>4, <2>5 DEF HostInv, AnswerInv, DidAsAsked
<1> QED BY <1>2, <1>3

\* The answer is written to the journal.
LEMMA FinishKeeps == ASSUME HostInv, finish PROVE HostInv'
<1>1. /\ host.pc = "finish" /\ jobs' = Finished /\ host' = [HostDown EXCEPT !.pc = "loop"]
      /\ UNCHANGED <<vars, owner>>
  BY DEF finish
<1>2. DeployInv'
  BY <1>1, DeployStutters DEF HostInv
<1>3. host' \in WorkerType /\ host'.pc = "loop"
  BY <1>1 DEF HostDown, WorkerType, Result
<1>4. LockInv' /\ TaskInv' /\ WorkerInv'
  BY <1>1, <1>3 DEF HostInv, LockInv, TaskInv, WorkerInv, vars
<1>5. JournalInv' /\ AnswerInv'
  BY <1>1, <1>3, Answers DEF AnswerInv
<1> QED BY <1>2, <1>4, <1>5 DEF HostInv

\* A strike that leaves the deployment alone.
LEMMA Spared ==
    ASSUME DeployInv, Strikes, UNCHANGED <<record, disk, service, wanted, paused>>,
           helper' \in {helper, FALSE}, proc' \in {proc, NoProc}
    PROVE  DeployInv'
<1>1. faults' \in 0 .. MaxFaults
  BY ReleaseAssumption DEF Strikes, DeployInv, StateInv, TypeOK
<1>2. TypeOK'
  BY <1>1 DEF DeployInv, StateInv, TypeOK
<1>3. RecordInv' /\ LinkInv' /\ DirectoriesOwned' /\ UnitInv' /\ WantedInv'
  BY DEF DeployInv, StateInv, RecordInv, LinkInv, DirectoriesOwned, UnitInv, WantedInv, Running
<1>4. PausedInv'
  <2>1. helper' => helper
    OBVIOUS
  <2> QED BY <2>1 DEF DeployInv, StateInv, PausedInv
<1>5. CASE proc' = NoProc
  BY <1>2, <1>3, <1>4, <1>5, AtRest DEF DeployInv, StateInv
<1>6. CASE proc' = proc
  <2>1. ProcType'
    BY <1>6 DEF DeployInv, ProcType
  <2>2. PlaceInv'
    BY <1>6, PlaceStays DEF DeployInv
  <2> QED BY <1>2, <1>3, <1>4, <2>1, <2>2 DEF DeployInv, StateInv
<1> QED BY <1>5, <1>6

\* It may not be written; the worker ends, and answers after its restart.
LEMMA FinishFailsKeeps == ASSUME HostInv, FinishFails PROVE HostInv'
<1>1. /\ host.pc = "finish" /\ Strikes /\ jobs' \in {jobs, Finished} /\ GivesUp
      /\ UNCHANGED <<record, disk, service, helper, proc, wanted, paused, owner>>
  BY DEF FinishFails, deployment
<1>2. DeployInv'
  BY <1>1, Spared DEF HostInv
<1>3. /\ host' \in WorkerType /\ host'.job = host.job
      /\ \/ host'.pc = "finish" /\ host'.result = "review"
         \/ host'.pc = "recover"
  BY <1>1, GivingUp DEF HostInv
<1>4. LockInv' /\ TaskInv' /\ WorkerInv'
  BY <1>1, <1>3 DEF HostInv, LockInv, TaskInv, WorkerInv
<1>5. JournalInv' /\ AnswerInv'
  BY <1>1, <1>3, Answers DEF AnswerInv
<1> QED BY <1>2, <1>4, <1>5 DEF HostInv

\* A child that dies before it has the lock is recovered.
LEMMA ChildDiesKeeps == ASSUME HostInv, ChildDies PROVE HostInv'
<1>1. /\ host.pc = "spawn" /\ Strikes /\ GivesUp
      /\ UNCHANGED <<record, disk, service, helper, proc, wanted, paused, jobs, owner>>
  BY DEF ChildDies, deployment
<1>2. DeployInv'
  BY <1>1, Spared DEF HostInv
<1>3. /\ host' \in WorkerType /\ host'.job = host.job
      /\ \/ host'.pc = "finish" /\ host'.result = "review"
         \/ host'.pc = "recover"
  BY <1>1, GivingUp DEF HostInv
<1>4. LockInv' /\ TaskInv' /\ WorkerInv'
  BY <1>1, <1>3 DEF HostInv, LockInv, TaskInv, WorkerInv
<1>5. JournalInv' /\ AnswerInv'
  BY <1>1, <1>3 DEF HostInv, JournalInv, AnswerInv, DidAsAsked
<1> QED BY <1>2, <1>4, <1>5 DEF HostInv

\* The helper goes.
LEMMA HostLeavesKeeps == ASSUME HostInv, HostLeaves PROVE HostInv'
<1>1. /\ host.pc = "loop" /\ helper' = FALSE /\ host' = HostDown
      /\ UNCHANGED <<record, disk, service, proc, faults, wanted, paused, jobs, owner>>
  BY DEF HostLeaves
<1>2. DeployInv'
  <2>1. TypeOK' /\ RecordInv' /\ DirectoriesOwned' /\ PausedInv'
    BY <1>1 DEF HostInv, DeployInv, StateInv, TypeOK, RecordInv, DirectoriesOwned, PausedInv
  <2>2. LinkInv' /\ UnitInv' /\ WantedInv'
    BY <1>1 DEF HostInv, DeployInv, StateInv, LinkInv, UnitInv, WantedInv, Running
  <2>3. ProcType'
    BY <1>1 DEF HostInv, DeployInv, ProcType
  <2>4. PlaceInv'
    BY <1>1, PlaceStays DEF HostInv, DeployInv
  <2> QED BY <2>1, <2>2, <2>3, <2>4 DEF DeployInv, StateInv
<1>3. host' \in WorkerType /\ host'.pc = "down"
  BY <1>1 DEF HostDown, WorkerType, Result
<1>4. LockInv'
  BY <1>1, <1>3 DEF HostInv, LockInv
<1> QED BY <1>1, <1>2, <1>3, <1>4, Restarts

\* Its child dies with it.
LEMMA HostDiesKeeps == ASSUME HostInv, HostDies PROVE HostInv'
<1>1. /\ Strikes /\ host' = HostDown
      /\ UNCHANGED <<record, disk, service, helper, wanted, paused, jobs>>
  BY DEF HostDies
<1>2. \/ owner = "host" /\ owner' = "none" /\ proc' = NoProc
      \/ owner # "host" /\ owner' = owner /\ proc' = proc
  BY DEF HostDies
<1>3. DeployInv'
  BY <1>1, <1>2, Spared DEF HostInv
<1>4. host' \in WorkerType /\ host'.pc = "down"
  BY <1>1 DEF HostDown, WorkerType, Result
<1>5. LockInv'
  BY <1>2, <1>4 DEF HostInv, LockInv
<1> QED BY <1>1, <1>3, <1>4, <1>5, Restarts

\* The owner's commands.
LEMMA OwnerBeginsKeeps == ASSUME HostInv, OwnerBegins PROVE HostInv'
<1>1. /\ owner = "none" /\ (Operator \/ recover)
      /\ owner' = (IF proc' = NoProc THEN "none" ELSE "cli") /\ UNCHANGED <<jobs, host>>
  BY DEF OwnerBegins
<1>2. DeployInv'
  BY <1>1, OperatorKeeps, RecoverKeeps DEF HostInv
<1>3. owner' # "host" /\ LockInv'
  BY <1>1 DEF HostInv, LockInv
<1> QED BY <1>1, <1>2, <1>3, OwnersTurn

\* The owner's command at work, failing and killed.
LEMMA OwnerStepKeeps == ASSUME HostInv, OwnerStep PROVE HostInv'
<1>1. /\ owner = "cli" /\ (Step \/ StepFails \/ Killed)
      /\ owner' = (IF proc' = NoProc THEN "none" ELSE "cli") /\ UNCHANGED jobs
      /\ host' \in {host, HostDown}
  BY DEF OwnerStep
<1>2. DeployInv'
  BY <1>1, StepKeeps, StepFailsKeeps, KilledKeeps DEF HostInv
<1>3. HostDown \in WorkerType /\ HostDown.pc = "down"
  BY DEF HostDown, WorkerType, Result
<1>4. owner' # "host" /\ LockInv'
  BY <1>1, <1>3 DEF HostInv, LockInv
<1>5. CASE host' = host
  BY <1>1, <1>2, <1>4, <1>5, OwnersTurn
<1>6. CASE host' = HostDown
  BY <1>1, <1>2, <1>3, <1>4, <1>6, Restarts
<1> QED BY <1>1, <1>5, <1>6

\* A reboot takes every process.
LEMMA HostRebootsKeeps == ASSUME HostInv, HostReboots PROVE HostInv'
<1>1. Reboot /\ owner' = "none" /\ host' = HostDown /\ UNCHANGED jobs
  BY DEF HostReboots
<1>2. DeployInv' /\ proc' = NoProc
  BY <1>1, RebootKeeps DEF HostInv, Reboot, Exit
<1>3. host' \in WorkerType /\ host'.pc = "down"
  BY <1>1 DEF HostDown, WorkerType, Result
<1>4. LockInv'
  BY <1>1, <1>2, <1>3 DEF LockInv
<1> QED BY <1>1, <1>2, <1>3, <1>4, Restarts

\* Nobody has asked for anything yet.
LEMMA HostInitially == HostInit => HostInv
<1> SUFFICES ASSUME HostInit PROVE HostInv
  OBVIOUS
<1>1. DeployInv
  BY DeployInit DEF HostInit
<1>2. proc = NoProc /\ owner = "none" /\ host = HostDown /\ jobs = [q \in Request |-> NoJob]
  BY DEF HostInit, Init
<1>3. LockInv /\ TaskInv
  BY <1>2 DEF LockInv, TaskInv, HostDown
<1>4. JournalInv /\ WorkerInv /\ AnswerInv
  BY <1>2 DEF JournalInv, WorkerInv, AnswerInv, NoJob, HostDown, Job, WorkerType, Result, Choice
<1> QED BY <1>1, <1>3, <1>4 DEF HostInv

\* The helper's invariant is inductive.
LEMMA HostStep == ASSUME HostInv, [HostNext]_hostVars PROVE HostInv'
<1>1. CASE Worker
  BY <1>1, HostStartsKeeps, HostBootsKeeps, ChildBeginsKeeps, ChildRefusedKeeps, ChildStepKeeps,
    ChildStopsItselfKeeps,
    RecoveryBeginsKeeps, RecoveryRefusedKeeps, FinishKeeps, HostLeavesKeeps, TakesJobKeeps
    DEF Worker
<1>2. CASE UNCHANGED hostVars
  <2>1. UNCHANGED <<vars, jobs, host, owner>>
    BY <1>2 DEF hostVars
  <2>2. DeployInv' /\ UNCHANGED proc
    BY <2>1, DeployStutters DEF HostInv, vars
  <2> QED
    BY <2>1, <2>2 DEF HostInv, LockInv, JournalInv, WorkerInv, TaskInv, AnswerInv, DidAsAsked
<1> QED
  BY <1>1, <1>2, OwnerBeginsKeeps, OwnerStepKeeps, HostRebootsKeeps, SubmitKeeps,
    AcknowledgeKeeps, ChildStepFailsKeeps, ChildDiesKeeps, ChildKilledKeeps, FinishFailsKeeps, HostDiesKeeps
    DEF HostNext

\* However often a request is delivered again, and whatever is killed in between, its
\* operation is begun once, and "ok" means that it did what was asked.
THEOREM RequestsSafe == HostSpec => []RequestsHonest
<1>1. HostInv => RequestsHonest
  BY DEF HostInv, JournalInv, AnswerInv, DidAsAsked, RequestsHonest
<1> QED BY <1>1, HostInitially, HostStep, PTL DEF HostSpec

\* The deployment is as honest when the helper and the owner take turns at it.
THEOREM ManifestSafe == HostSpec => []ManifestHonest
<1>1. HostInv => ManifestHonest
  BY DeployHonest DEF HostInv
<1> QED BY <1>1, HostInitially, HostStep, PTL DEF HostSpec

\* And the agent runs as it was meant to.
THEOREM AgentRuns == HostSpec => []RunsAsWanted
<1>1. HostInv => RunsAsWanted
  BY DeployRuns DEF HostInv
<1> QED BY <1>1, HostInitially, HostStep, PTL DEF HostSpec
=============================================================================
