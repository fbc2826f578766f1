---------------------------- MODULE MCChangeSets ----------------------------
(***************************************************************************)
(* Instances of ChangeSets for TLC: who targets what, and which commands    *)
(* carry which property.  Servers s1, s2; change sets c1, c2; chain q1.     *)
(***************************************************************************)
EXTENDS ChangeSets, TLC

CONSTANTS s1, s2, c1, c2, q1

\* No chain is queued by the store itself.
NoPools == [s \in Server |-> {}]

\* Two overlapping change sets: c1 on s1 then s2, c2 on s2.  The second step of c1
\* needs an optional capability, as does (already at creation) its compensator; s2's
\* agent registers again with and without it.  The store queues a configuration
\* sync on that registration, or a refresh after that step.
OverlapSteps == c1 :> <<s1, s2, s1>> @@ c2 :> <<s2>>
OverlapCompensated == {<<c1, 1>>, <<c1, 2>>}
OneOnS2 == q1 :> s2
OneLong == q1 :> 1
PoolOnS2 == s1 :> {} @@ s2 :> {q1}
SecondForward == {<<"forward", c1, 2>>}
TheSync == {<<"ordinary", q1, 1>>}
SecondStep == {<<"forward", c1, 2>>, <<"rollback", c1, 2>>}
SecondRollback == {<<"rollback", c1, 2>>}

\* One change set across s1 and s2; a sequence of two commands shares its second server.
LiveSteps == c1 :> <<s1, s2>>
TwoLong == q1 :> 2
TwoOnS2 == q1 :> s2
=============================================================================
