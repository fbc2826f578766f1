-------------------------- MODULE LimitsWithBucket --------------------------
(***************************************************************************)
(* NodeLimits beside LimitBucket: the policies and connections of a node,   *)
(* and the bucket that the streams of one of its users share.  They share   *)
(* no variable; the bucket's names are those of the instance B.            *)
(***************************************************************************)
EXTENDS NodeLimits, Integers, FiniteSets

CONSTANTS Stream, Rate, Burst, Scale, Size, MaxTime, MaxChanges, MaxDebt

VARIABLES now, value, tokens, last, lastEvent, generation, stream, allowance

B == INSTANCE LimitBucket

\* A rate has a burst; one unit of time is Scale parts, of which a token takes a whole number
\* (newBucket, set); a read or write moves something (wait).
ASSUME BucketAssumption ==
    /\ IsFiniteSet(Stream)
    /\ Rate \subseteq Nat /\ 0 \in Rate /\ Burst \in [Rate -> Nat \ {0}]
    /\ Scale \in Nat \ {0} /\ \A r \in Rate \ {0} : Scale % r = 0
    /\ Size \subseteq Nat \ {0}

bucketVars == <<now, value, tokens, last, lastEvent, generation, stream, allowance>>

\* In a period under one limit all streams together pass no more than one burst and what the limit
\* gives in that time (LimitBucket).
WithinRate == B!WithinRate

\* The stream that reserved last gets back all of it when it gives up (LimitBucket).
LastGetsBack == B!LastGetsBack
=============================================================================
