--------------------------- MODULE MCTrafficLedger ---------------------------
(***************************************************************************)
(* An instance of TrafficLedger for TLC: months of two days and of one.     *)
(* The counters of Xray, of the host and of users are charged apart from    *)
(* each other, and a reset does the same whoever asks for it; so a          *)
(* behaviour moves the counters of one of them, with resets by hand, for    *)
(* MaxSteps, or follows the calendar alone.                                 *)
(***************************************************************************)
EXTENDS TrafficLedger

CONSTANTS a, n, u, MaxSteps

VARIABLE part

PartOf(c) == IF c \in User THEN "users" ELSE SourceOf(c)

PartInit ==
    /\ Init /\ part \in {"xray", "system", "users", "calendar"}
    /\ part # "calendar" => day = 0 /\ userDay = 0

PartNext ==
    /\ Next /\ UNCHANGED part
    /\ \A c \in Counter \cup User : moved'[c] # moved[c] => PartOf(c) = part
    /\ IF part = "system" THEN \A r \in net' : r.answered ELSE UNCHANGED boot
    /\ IF part = "calendar" THEN UNCHANGED net ELSE now' <= MaxSteps /\ UNCHANGED day
    /\ part = "users" => UNCHANGED cycle
    /\ part \in {"xray", "system"} => UNCHANGED userReset

PartSpec == PartInit /\ [][PartNext]_<<vars, part>>
=============================================================================
