--------------------------- MODULE MCChangeParts ---------------------------
(***************************************************************************)
(* The safety instance of ChangeSets.  It has three parts, which share       *)
(* nothing but the migration at the start; part says which of them a         *)
(* behaviour is about.                                                       *)
(***************************************************************************)
EXTENDS MCChangeSets

CONSTANTS c3, q2

\* "overlap": the two change sets of MCChangeSets, c2 planned by an earlier release.
\* "upgrade": the legacy change set c3 was started on both servers, with a compensator
\* for one step, and the sequence q2 may be in progress on s2; c2 is dispatched later.
\* "removal": c2 (a plain mutation) meets a node removal on s2 and the sequence q2:
\* subscription access, then a restore of what is removed.
PartSteps == OverlapSteps @@ c3 :> <<s2, s1>>
PartCompensated == OverlapCompensated \cup {<<c3, 1>>}
BothOnS2 == OneOnS2 @@ q2 :> s2
OneAndTwoLong == OneLong @@ q2 :> 2
FirstOrdinary == {<<"ordinary", q2, 1>>}
LastOrdinary == {<<"ordinary", q2, 2>>}
ChainAndStep == FirstOrdinary \cup LastOrdinary \cup {<<"forward", c2, 1>>}

VARIABLE part

partVars == <<vars, part>>

\* Bounds of the upgrade: only c3 has been started, and what had ended of it had been
\* sent and answered.
StartedParts ==
    IF part = "upgrade" THEN {c3 :> st : st \in {"dispatched", "rollback_queued"}} ELSE {<<>>}
EndedByAgents ==
    \A k \in Owned(c3) : cmd[k].status \in {"succeeded", "failed"}
        => cmd[k].sent /\ cmd[k].lease = "none" /\ cmd[k].result = "agent"

PartInit ==
    /\ part \in {"overlap", "upgrade", "removal"}
    /\ \E started \in StartedParts : status = started @@ [c \in Change |-> "planned"]
    /\ Init
    /\ EndedByAgents
    /\ part # "upgrade" => \A k \in OrdinaryCommand : cmd[k] = Absent

OverlapNext ==
    \/ \E c \in {c1, c2} : ChangeStep(c)
    \/ \E k \in Owned(c1) \cup Owned(c2) \cup Commands(q1) : CommandStep(k)
    \/ \E s \in Server, capable \in BOOLEAN : RegisterAgent(s, capable)

UpgradeNext ==
    \/ \E c \in {c2, c3} : ChangeStep(c)
    \/ \E k \in Owned(c2) \cup Owned(c3) \cup Commands(q2) : CommandStep(k)
    \/ CreateSequence(q2)

RemovalNext ==
    \/ ChangeStep(c2)
    \/ \E k \in Owned(c2) \cup Commands(q2) : CommandStep(k)
    \/ CreateSequence(q2)
    \/ \E s \in Server : BeginNodeRemoval(s) \/ AdvanceNodeRemoval(s)

PartNext ==
    /\ UNCHANGED part
    /\ \/ MigrateLegacy
       \/ migrated /\ part = "overlap" /\ OverlapNext
       \/ migrated /\ part = "upgrade" /\ UpgradeNext
       \/ migrated /\ part = "removal" /\ RemovalNext

PartSpec == PartInit /\ [][PartNext]_partVars
=============================================================================
