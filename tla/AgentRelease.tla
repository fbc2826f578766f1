---------------------------- MODULE AgentRelease ----------------------------
(***************************************************************************)
(* The host's deployment of an agent (agent/service.py, class Deployment):  *)
(* installing, staging and switching releases, changing the host policy and *)
(* removing everything, each as a series of writes and systemctl commands   *)
(* that can fail, or end with the process or the host, after any of them.   *)
(* The manifest is the write-ahead record; recover() reads nothing else.    *)
(*                                                                         *)
(* One process at a time holds the deployment lock.  The policy stands for  *)
(* the three files it touches: the unit, the agent's configuration and the  *)
(* diagnostic tool.  The helper's units are enabled while it is active or   *)
(* paused, and at no other time.                                           *)
(***************************************************************************)
EXTENDS Naturals, FiniteSets

CONSTANTS
    Release,      \* identities of wheels
    None,
    MaxFaults     \* bound: failed commands, killed processes and reboots

ASSUME ReleaseAssumption ==
    None \notin Release /\ MaxFaults \in Nat

Policy == {"off", "on"}
File == {"config", "tool"}

VARIABLES
    record,     \* manifest.json
    disk,       \* the installation's files
    service,    \* systemd: the agent's process and its unit's state
    helper,     \* the lifecycle units are active
    proc,       \* the process that holds the lock
    faults,
    wanted,     \* whether the agent is meant to run
    paused      \* whether a policy change has stopped the helper

vars == <<record, disk, service, helper, proc, faults, wanted, paused>>

NoPending == [kind |-> "none", from |-> None, to |-> None, was_active |-> FALSE, helper |-> FALSE]
NoRecord ==
    [status |-> "absent", uid |-> FALSE, releases |-> {}, current |-> None, previous |-> None,
     pending |-> NoPending, staging |-> None, policy |-> "off", restore |-> "none",
     lifecycle |-> FALSE]
NoProc == [op |-> "none", pc |-> "none", release |-> None, policy |-> "off", keep |-> FALSE]
Stopped == [running |-> None, policy |-> "off", enabled |-> FALSE]

Running == service.running # None
Starts(s) == [s EXCEPT !.running = disk.link, !.policy = disk.unit]
Stops(s) == [s EXCEPT !.running = None]

\* load: the installation's account must be the one recorded.
Loads == record.status # "absent" /\ (record.uid => disk.account)
Recovered == record.pending = NoPending /\ record.restore = "none"
\* verify_unit
UnitOwned == disk.unit = record.policy
\* verify_helper
HelperOwned == record.lifecycle => disk.lifecycle

At(pc) == proc.pc = pc
Goto(pc) == proc' = [proc EXCEPT !.pc = pc]
Exit == proc' = NoProc

Begin(op, pc, release, policy, keep) ==
    /\ proc = NoProc
    /\ proc' = [op |-> op, pc |-> pc, release |-> release, policy |-> policy, keep |-> keep]

Process(v) == UNCHANGED <<record, disk, service, helper, faults, wanted, paused>> /\ v
Records(r) == record' = r /\ UNCHANGED <<disk, service, helper, faults, paused>>
Writes(d) == disk' = d /\ UNCHANGED <<record, service, helper, faults, wanted, paused>>
Commands(s) == service' = s /\ UNCHANGED <<record, disk, helper, faults, wanted, paused>>

(***************************************************************************)
(* The operations, up to their first write.                                *)
(***************************************************************************)
\* A new installation: initialize() comes first.
InstallFresh(r) ==
    /\ record.status = "absent" /\ disk.unit = "absent" /\ ~disk.account
    /\ Begin("install", "record", r, "off", FALSE)
    /\ Process(TRUE)

InstallAgain(r) ==
    /\ Loads /\ Recovered /\ record.staging = None
    /\ record.status \in {"removed", "failed", "preparing"}
    /\ Begin("install", "stage", r, "off", FALSE)
    /\ Process(TRUE)

upgrade(r) ==
    /\ Loads /\ Recovered /\ UnitOwned /\ record.status = "installed" /\ record.staging = None
    /\ Begin("upgrade", "stage", r, "off", FALSE)
    /\ Process(TRUE)

rollback ==
    /\ Loads /\ record.previous # None
    /\ Begin("rollback", "activate", record.previous, "off", FALSE)
    /\ Process(TRUE)

\* keep: the helper removes the agent and stays until it has reported.
uninstall(purge, keep) ==
    /\ Loads /\ record.restore = "none" /\ record.pending.kind # "policy"
    /\ Begin(IF purge THEN "purge" ELSE "uninstall", "helper off", None, "off", keep)
    /\ Process(TRUE)

policy(p) ==
    /\ Loads /\ Recovered /\ UnitOwned /\ HelperOwned /\ p # record.policy
    /\ record.status = "installed" /\ record.staging = None
    /\ Begin("policy", "publish", None, p, FALSE)
    /\ Process(TRUE)

recover ==
    /\ Loads
    /\ Begin("recover", "recover", None, "off", TRUE)
    /\ Process(TRUE)

(***************************************************************************)
(* initialize                                                              *)
(***************************************************************************)
InitRecord ==
    /\ At("record") /\ Goto("account")
    /\ Records([NoRecord EXCEPT !.status = "preparing"]) /\ UNCHANGED wanted

InitAccount ==
    /\ At("account") /\ Goto("uid")
    /\ Writes([disk EXCEPT !.account = TRUE])

InitUid ==
    /\ At("uid") /\ Goto("tree")
    /\ Records([record EXCEPT !.uid = TRUE]) /\ UNCHANGED wanted

InitTree ==
    /\ At("tree") /\ Goto("stage")
    /\ Writes([disk EXCEPT !.tree = TRUE])

(***************************************************************************)
(* stage: the name is in the manifest before the directory exists.         *)
(***************************************************************************)
StageKnown ==
    /\ At("stage") /\ proc.release \in record.releases
    /\ IF proc.release \in disk.releases THEN Goto("staged") ELSE Exit
    /\ Process(TRUE)

Announced(r) == [record EXCEPT !.staging = r]

StageBegins ==
    /\ At("stage") /\ proc.release \notin record.releases
    /\ IF proc.release \in disk.releases
       THEN Exit /\ Process(TRUE)
       ELSE /\ Goto("mkdir")
            /\ Records(Announced(proc.release)) /\ UNCHANGED wanted

\* Without the directories of initialize() there is nothing to create it in.
StageMkdir ==
    /\ At("mkdir")
    /\ IF disk.tree
       THEN Goto("venv") /\ Writes([disk EXCEPT !.releases = @ \cup {proc.release}])
       ELSE Goto("unstage") /\ Process(TRUE)

StageBuilds ==
    /\ At("venv") /\ Goto("staged")
    /\ Records([record EXCEPT !.releases = @ \cup {proc.release}, !.staging = None]) /\ UNCHANGED wanted

StageRemoves ==
    /\ At("clean") /\ Goto("unstage")
    /\ Writes([disk EXCEPT !.releases = @ \ {proc.release}])

StageGivesUp ==
    /\ At("unstage") /\ Exit
    /\ Records([record EXCEPT !.staging = None, !.releases = @ \ {proc.release}])
    /\ UNCHANGED wanted

UpgradeStaged ==
    /\ At("staged") /\ proc.op = "upgrade"
    /\ IF proc.release = record.current THEN Exit ELSE Goto("activate")
    /\ Process(TRUE)

\* prepare_config and preflight, then the unit.
InstallUnit ==
    /\ At("staged") /\ proc.op = "install"
    /\ Goto(IF record.lifecycle THEN "prepare" ELSE "activate")
    /\ Writes([disk EXCEPT !.unit = IF @ = "absent" THEN record.policy ELSE @,
                           !.files = [f \in File |-> record.policy]])

InstallPrepares ==
    /\ At("prepare") /\ Goto("helper on")
    /\ Records([record EXCEPT !.status = "preparing"]) /\ UNCHANGED wanted

InstallStartsHelper ==
    /\ At("helper on")
    /\ IF HelperOwned THEN Goto("activate") /\ helper' = TRUE ELSE Exit /\ UNCHANGED helper
    /\ UNCHANGED <<record, disk, service, faults, wanted, paused>>

(***************************************************************************)
(* activate: the transaction is on disk before the agent is stopped.       *)
(***************************************************************************)
MayActivate ==
    Recovered /\ record.staging = None /\ record.status # "removing" /\ UnitOwned

\* Fault: the switch goes ahead without a record of it.
Begun_Fault == record
Begun ==
    [record EXCEPT !.pending = [kind |-> "switch", from |-> record.current, to |-> proc.release,
                                was_active |-> Running, helper |-> FALSE]]

ActivateBegins ==
    /\ At("activate") /\ MayActivate
    /\ Goto("stop")
    /\ Records(Begun) /\ UNCHANGED wanted

ActivateRefused ==
    /\ At("activate") /\ ~MayActivate
    /\ Exit /\ Process(TRUE)

ActivateStops ==
    /\ At("stop") /\ Goto("switch")
    /\ Commands(Stops(service))

ActivateSwitches ==
    /\ At("switch") /\ Goto("start")
    /\ Writes([disk EXCEPT !.link = proc.release])

First == record.pending.from = None

ActivateStarts ==
    /\ At("start")
    /\ IF First \/ record.pending.was_active
       THEN Goto("ready") /\ Commands([Starts(service) EXCEPT !.enabled = @ \/ First])
       ELSE Goto("commit") /\ Process(TRUE)

\* ready: the process that answers is the one that was just started.
ActivateReady ==
    /\ At("ready") /\ service.running = proc.release
    /\ Goto("commit") /\ Process(TRUE)

ActivateCommits ==
    /\ At("commit") /\ Exit
    /\ Records([record EXCEPT !.current = proc.release, !.previous = record.pending.from,
                              !.pending = NoPending, !.status = "installed"])
    /\ wanted' = (wanted \/ First)

(***************************************************************************)
(* recover                                                                 *)
(***************************************************************************)
RecoverDispatch ==
    /\ At("recover")
    /\ Goto(IF record.pending.kind = "policy" THEN "undo stop"
            ELSE IF record.restore # "none" THEN "restore"
            ELSE IF record.status = "removing" THEN "helper off"
            ELSE IF record.staging # None THEN "unstaged"
            ELSE "back")
    /\ Process(TRUE)

RecoverStaging ==
    /\ At("unstaged") /\ Goto("restaged")
    /\ Writes([disk EXCEPT !.releases = @ \ ({record.staging} \ record.releases)])

\* Fault: the marker stays.
Restaged_Fault == record
Restaged == [record EXCEPT !.staging = None]

RecoverStaged ==
    /\ At("restaged") /\ Goto("back")
    /\ Records(Restaged) /\ UNCHANGED wanted

RecoverStops ==
    /\ At("back")
    /\ IF record.pending = NoPending THEN Exit /\ Process(TRUE)
       ELSE UnitOwned /\ Goto("back link") /\ Commands(Stops(service))

RecoverSwitches ==
    /\ At("back link") /\ Goto("back start")
    /\ Writes([disk EXCEPT !.link = record.pending.from])

\* Fault: whatever is selected is started.
StartsAgain_Fault == record.pending.from # None
StartsAgain == record.pending.from # None /\ record.pending.was_active

RecoverStarts ==
    /\ At("back start")
    /\ IF StartsAgain THEN Goto("back ready") /\ Commands(Starts(service))
       ELSE /\ Goto("back save")
            /\ Commands([service EXCEPT !.enabled = @ /\ record.pending.from # None])

RecoverReady ==
    /\ At("back ready") /\ service.running = record.pending.from
    /\ Goto("back save") /\ Process(TRUE)

RestoredStatus == IF record.pending.from # None THEN "installed" ELSE "failed"

RecoverSaves ==
    /\ At("back save") /\ Exit
    /\ Records([record EXCEPT !.current = record.pending.from, !.pending = NoPending,
                              !.status = RestoredStatus])
    /\ UNCHANGED wanted

(***************************************************************************)
(* uninstall                                                               *)
(***************************************************************************)
\* stop_helper: a purge removes the units of the helper too, after which they are not verified.
RemoveHelper ==
    /\ At("helper off") /\ (HelperOwned \/ proc.keep) /\ Goto("removing")
    /\ helper' = (helper /\ proc.keep)
    /\ disk' = [disk EXCEPT !.lifecycle = @ /\ proc.op # "purge"]
    /\ UNCHANGED <<record, service, faults, wanted, paused>>

RemoveRefused ==
    /\ At("helper off") /\ ~(HelperOwned \/ proc.keep)
    /\ Exit /\ Process(TRUE)

RemoveBegins ==
    /\ At("removing") /\ Goto("disable")
    /\ Records([record EXCEPT !.status = "removing"]) /\ wanted' = FALSE

\* systemctl disable --now
Disabled(s) == [s EXCEPT !.enabled = FALSE, !.running = None]

RemoveDisables ==
    /\ At("disable")
    /\ IF disk.unit = "absent" THEN Goto("unlink") /\ Process(TRUE)
       ELSE Goto("unit off") /\ Commands(Disabled(service))

RemoveUnit ==
    /\ At("unit off") /\ Goto("unlink")
    /\ Writes([disk EXCEPT !.unit = "absent"])

RemoveLink ==
    /\ At("unlink") /\ Goto("remove")
    /\ Writes([disk EXCEPT !.link = None])

RemoveRelease(r) ==
    /\ At("remove") /\ r \in disk.releases \cap (record.releases \cup {record.staging})
    /\ UNCHANGED proc
    /\ Writes([disk EXCEPT !.releases = @ \ {r}])

RemoveEnds ==
    /\ At("remove") /\ disk.releases \cap (record.releases \cup {record.staging}) = {}
    /\ IF proc.op = "purge" THEN Goto("userdel") ELSE Exit
    /\ Records([record EXCEPT !.status = "removed", !.current = None, !.previous = None,
                              !.pending = NoPending, !.staging = None, !.releases = {}])
    /\ UNCHANGED wanted

PurgeAccount ==
    /\ At("userdel") /\ Goto("rmtree")
    /\ Writes([disk EXCEPT !.account = @ /\ ~record.uid])

PurgeTree ==
    /\ At("rmtree") /\ Exit
    /\ record' = NoRecord
    /\ disk' = [disk EXCEPT !.tree = FALSE]
    /\ UNCHANGED <<service, helper, faults, wanted, paused>>

(***************************************************************************)
(* policy: both sides of every file are kept until the end.                *)
(***************************************************************************)
PolicyPublishes ==
    /\ At("publish") /\ Goto("pause")
    /\ Records([record EXCEPT !.pending =
          [kind |-> "policy", from |-> record.current, to |-> record.current,
           was_active |-> Running, helper |-> helper]])
    /\ UNCHANGED wanted

Pauses == helper' = FALSE /\ paused' = (paused \/ helper)

PolicyPauses ==
    /\ At("pause") /\ Goto("policy stop")
    /\ Pauses /\ UNCHANGED <<record, disk, service, faults, wanted>>

PolicyStops ==
    /\ At("policy stop") /\ Goto("unit")
    /\ Commands(Stops(service))

PolicyUnit ==
    /\ At("unit") /\ Goto("files")
    /\ Writes([disk EXCEPT !.unit = proc.policy])

PolicyFile(f) ==
    /\ At("files") /\ disk.files[f] # proc.policy /\ UNCHANGED proc
    /\ Writes([disk EXCEPT !.files[f] = proc.policy])

PolicyStarts ==
    /\ At("files") /\ \A f \in File : disk.files[f] = proc.policy
    /\ Goto("policy ready")
    /\ Commands(IF record.pending.was_active THEN Starts(service) ELSE service)

\* ready and verify_policy
PolicyReady ==
    /\ At("policy ready")
    /\ record.pending.was_active => Running /\ service.policy = proc.policy
    /\ Goto("policy commit") /\ Process(TRUE)

RestoreLater(active) == IF active THEN "start" ELSE "skip"

PolicyCommits ==
    /\ At("policy commit") /\ Goto("restore")
    /\ Records([record EXCEPT !.policy = proc.policy, !.pending = NoPending,
                              !.restore = RestoreLater(record.pending.helper)])
    /\ UNCHANGED wanted

\* finish_policy_helpers
RestoreHelper ==
    /\ At("restore") /\ Goto("restored")
    /\ helper' = (helper \/ record.restore = "start")
    /\ paused' = (paused /\ record.restore # "start")
    /\ UNCHANGED <<record, disk, service, faults, wanted>>

RestoreEnds ==
    /\ At("restored") /\ Exit
    /\ Records([record EXCEPT !.restore = "none"]) /\ UNCHANGED wanted

\* recover_policy
UndoStops ==
    /\ At("undo stop") /\ Goto("undo")
    /\ Pauses /\ service' = Stops(service)
    /\ UNCHANGED <<record, disk, faults, wanted>>

Undoes == {f \in File : disk.files[f] # record.policy}

UndoUnit ==
    /\ At("undo") /\ disk.unit # record.policy /\ UNCHANGED proc
    /\ Writes([disk EXCEPT !.unit = record.policy])

UndoFile(f) ==
    /\ At("undo") /\ disk.unit = record.policy /\ f \in Undoes /\ UNCHANGED proc
    /\ Writes([disk EXCEPT !.files[f] = record.policy])

UndoStarts ==
    /\ At("undo") /\ disk.unit = record.policy /\ Undoes = {}
    /\ Goto("undo ready")
    /\ Commands(IF record.pending.was_active THEN Starts(service) ELSE service)

UndoReady ==
    /\ At("undo ready")
    /\ record.pending.was_active => Running /\ service.policy = record.policy
    /\ Goto("undo save") /\ Process(TRUE)

UndoSaves ==
    /\ At("undo save") /\ Goto("restore")
    /\ Records([record EXCEPT !.pending = NoPending,
                              !.restore = RestoreLater(record.pending.helper)])
    /\ UNCHANGED wanted

(***************************************************************************)
(* What goes wrong.                                                        *)
(***************************************************************************)
\* Where an exception leads: to cleaning up, to recovery, or out.
Handler(pc) ==
    CASE pc = "mkdir" -> "unstage"
      [] pc = "venv" -> "clean"
      [] pc \in {"stop", "switch", "start", "ready", "commit"} -> "back"
      [] pc \in {"pause", "policy stop", "unit", "files", "policy ready"} -> "undo stop"
      [] OTHER -> "none"

Strikes == faults < MaxFaults /\ faults' = faults + 1

\* A command, a write or a health check fails.
StepFails ==
    /\ proc # NoProc /\ Strikes
    /\ IF Handler(proc.pc) = "none" THEN Exit ELSE Goto(Handler(proc.pc))
    /\ UNCHANGED <<record, disk, service, helper, wanted, paused>>

\* The process is killed; the lock goes with it.
Killed ==
    /\ proc # NoProc /\ Strikes /\ Exit
    /\ UNCHANGED <<record, disk, service, helper, wanted, paused>>

Settled ==
    /\ proc = NoProc /\ Recovered /\ record.staging = None
    /\ record.status \in {"installed", "failed", "removed"}

\* The host stops and starts what its units say; those of a helper that a policy change has only
\* stopped are still enabled.
Reboot ==
    /\ Strikes /\ Exit
    /\ helper' = (helper \/ paused) /\ paused' = FALSE
    /\ service' = IF service.enabled /\ disk.unit # "absent" /\ disk.link # None
                  THEN Starts(service) ELSE Stops(service)
    /\ wanted' = IF record.pending = NoPending THEN service'.running # None ELSE wanted
    /\ UNCHANGED <<record, disk>>

\* The owner stops or starts the agent with systemctl, between operations.
Systemctl ==
    /\ Settled /\ record.status = "installed"
    /\ service' = IF Running THEN Stops(service) ELSE Starts(service)
    /\ wanted' = ~Running
    /\ UNCHANGED <<record, disk, helper, proc, faults, paused>>

-----------------------------------------------------------------------------
\* An empty host, or an installed one whose owner has enabled the helper.
Init ==
    /\ \/ /\ record = NoRecord /\ service = Stopped
          /\ disk = [tree |-> FALSE, account |-> FALSE, releases |-> {}, link |-> None,
                     unit |-> "absent", files |-> [f \in File |-> "off"], lifecycle |-> FALSE]
       \/ \E r \in Release :
          /\ record = [NoRecord EXCEPT !.status = "installed", !.uid = TRUE, !.releases = {r},
                                       !.current = r, !.lifecycle = TRUE]
          /\ service = [running |-> r, policy |-> "off", enabled |-> TRUE]
          /\ disk = [tree |-> TRUE, account |-> TRUE, releases |-> {r}, link |-> r,
                     unit |-> "off", files |-> [f \in File |-> "off"], lifecycle |-> TRUE]
    /\ helper = record.lifecycle /\ wanted = record.lifecycle /\ paused = FALSE
    /\ proc = NoProc /\ faults = 0

Operator ==
    \/ \E r \in Release : InstallFresh(r) \/ InstallAgain(r) \/ upgrade(r)
    \/ rollback \/ Systemctl
    \/ \E purge \in BOOLEAN : uninstall(purge, FALSE)
    \/ \E p \in Policy : policy(p)

Install ==
    \/ InitRecord \/ InitAccount \/ InitUid \/ InitTree
    \/ StageKnown \/ StageBegins \/ StageMkdir \/ StageBuilds \/ StageRemoves \/ StageGivesUp
    \/ UpgradeStaged \/ InstallUnit \/ InstallPrepares \/ InstallStartsHelper

Switch ==
    \/ ActivateBegins \/ ActivateRefused \/ ActivateStops \/ ActivateSwitches
    \/ ActivateStarts \/ ActivateReady \/ ActivateCommits
    \/ RecoverDispatch \/ RecoverStaging \/ RecoverStaged \/ RecoverStops \/ RecoverSwitches
    \/ RecoverStarts \/ RecoverReady \/ RecoverSaves

Remove ==
    \/ RemoveHelper \/ RemoveRefused \/ RemoveBegins \/ RemoveDisables \/ RemoveUnit \/ RemoveLink
    \/ \E r \in Release : RemoveRelease(r)
    \/ RemoveEnds \/ PurgeAccount \/ PurgeTree

ChangePolicy ==
    \/ PolicyPublishes \/ PolicyPauses \/ PolicyStops \/ PolicyUnit \/ PolicyStarts
    \/ PolicyReady \/ PolicyCommits \/ RestoreHelper \/ RestoreEnds
    \/ UndoStops \/ UndoUnit \/ UndoStarts \/ UndoReady \/ UndoSaves
    \/ \E f \in File : PolicyFile(f) \/ UndoFile(f)

Step == Install \/ Switch \/ Remove \/ ChangePolicy
Environment == StepFails \/ Killed \/ Reboot

Next == Operator \/ recover \/ Step \/ Environment

Spec == Init /\ [][Next]_vars

\* status shows something to recover.
Unrecovered == ~Recovered \/ record.staging # None \/ record.status = "removing"

-----------------------------------------------------------------------------
Choice == Release \cup {None}

Transaction ==
    [kind : {"none", "switch", "policy"}, from : Choice, to : Choice,
     was_active : BOOLEAN, helper : BOOLEAN]

Manifest ==
    [status : {"absent", "preparing", "installed", "failed", "removing", "removed"},
     uid : BOOLEAN, releases : SUBSET Release, current : Choice, previous : Choice,
     pending : Transaction, staging : Choice, policy : Policy, restore : {"none", "start", "skip"}, lifecycle : BOOLEAN]

Files ==
    [tree : BOOLEAN, account : BOOLEAN, releases : SUBSET Release, link : Choice,
     unit : Policy \cup {"absent"}, files : [File -> Policy], lifecycle : BOOLEAN]

Agent == [running : Choice, policy : Policy \cup {"absent"}, enabled : BOOLEAN]

\* The state has the shape the code gives it: an installed host has a current
\* release, and the others, removal aside, have none.
TypeOK ==
    /\ record \in Manifest /\ disk \in Files /\ service \in Agent
    /\ helper \in BOOLEAN /\ wanted \in BOOLEAN /\ paused \in BOOLEAN
    /\ faults \in 0 .. MaxFaults
    /\ record.status = "installed" => record.current # None
    /\ record.status \notin {"installed", "removing"} => record.current = None

\* Whatever was killed or failed, the link selects the recorded release unless the
\* manifest says that a switch or a removal is unfinished.
SelectionRecorded ==
    proc = NoProc /\ record.pending.kind # "switch" /\ record.status # "removing" =>
        disk.link = record.current

\* Every release directory is in the manifest, by which recovery or removal finds
\* it, and every recorded release is complete on disk until removal begins.
DirectoriesOwned ==
    /\ disk.releases \subseteq record.releases \cup {record.staging}
    /\ record.status # "removing" => record.releases \subseteq disk.releases
    /\ record.current # None => record.current \in record.releases
    /\ record.previous # None => record.previous \in record.releases

\* A policy is all or nothing: unit, configuration, tool and the privileges of the
\* running agent agree with the manifest once no policy change is pending.
PolicyWhole ==
    proc = NoProc /\ record.pending.kind # "policy" =>
        /\ disk.unit \in {"absent", record.policy}
        /\ \A f \in File : record.status = "installed" => disk.files[f] = record.policy
        /\ Running => service.policy = record.policy

\* The manifest is well formed and tells the truth about the host, whatever was killed
\* or failed: about the selected release, the release directories and the policy.
ManifestHonest == TypeOK /\ SelectionRecorded /\ DirectoriesOwned /\ PolicyWhole

\* After an operation, or its failure and recovery, the agent runs exactly if it was
\* meant to before, from a directory that is there, and the helper a policy change
\* had stopped is back: an interrupted switch does not leave the agent stopped, and
\* one that had been stopped on purpose stays stopped.
RunsAsWanted ==
    /\ Running => service.running \in disk.releases
    /\ Settled => ~paused
    /\ Settled /\ record.status = "installed" => (wanted <=> service.running = record.current)

\* Whatever was interrupted, recover ends with nothing left to recover.
RecoveryCompletes == Unrecovered ~> ~Unrecovered

=============================================================================
