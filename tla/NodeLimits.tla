----------------------------- MODULE NodeLimits -----------------------------
(***************************************************************************)
(* The limiter inside Xray (runtime/xray/overlay/common/nodelimits): the    *)
(* policy document it keeps in memory and in policy.json, the connections   *)
(* it counts per group, the rate in force for every user, and the agent's   *)
(* read-modify-write of the document (limiter.py, provision).              *)
(*                                                                         *)
(* The manager's mutex is held across an update, the file included, so an   *)
(* update is one step that can fail, or end with the process, at two        *)
(* places: before the file was replaced, and after.                        *)
(***************************************************************************)
EXTENDS Naturals, FiniteSets

CONSTANTS
    Tag, Email, Flow,
    ConnGroup,      \* the values of conn_group
    Rule,           \* automatic speed rules, each named by the rate it imposes
    Policy,         \* the policies an operator writes
    Client,         \* the provisioning commands of the agent
    Binding,        \* the user each of them provisions
    None,
    MaxUpdates, MaxFaults   \* bounds: updates written, failures and restarts

User == [speed : Nat, cap : Nat, conn : ConnGroup \cup {None}, rules : SUBSET Rule]
PolicyType == [node : Nat, users : [Email -> User \cup {None}], rules : SUBSET Rule]
Document == [Tag -> PolicyType \cup {None}]

ASSUME LimitsAssumption ==
    /\ Policy \subseteq PolicyType /\ Rule \subseteq Nat \ {0}
    /\ None \notin ConnGroup /\ None \notin User /\ None \notin PolicyType /\ None \notin Document
    /\ Binding \in [Client -> [tag : Tag, email : Email, user : User]]
    /\ ConnGroup \cap Email = {}
    /\ IsFiniteSet(Flow) /\ MaxUpdates \in Nat /\ MaxFaults \in Nat

\* Of two commands for the same user the later one counts; here every command has its own user.
ASSUME BindingAssumption ==
    \A b, c \in Client : Binding[b].tag = Binding[c].tag /\ Binding[b].email = Binding[c].email => b = c

Group == ConnGroup \cup Email
Key == Tag \X Email

VARIABLES
    disk,      \* policy.json; None when there is no such file
    raw,       \* m.raw: the file as this process last read or wrote it
    doc,       \* m.document
    flow,      \* m.flows, with what each flow was counted as
    counts,    \* m.counts
    state,     \* m.states
    closing,   \* flows that install found to belong to removed users
    client,    \* the provisioning commands
    updates, faults,
    edited     \* bound: the owner changes the file once

limiter == <<raw, doc, flow, counts, state, closing>>
vars == <<disk, limiter, client, updates, faults, edited>>

EmptyDocument == [t \in Tag |-> None]
NoFlow == [at |-> "none", tag |-> None, email |-> None, group |-> None, known |-> FALSE]
NoState == [kept |-> FALSE, rate |-> 0, auto |-> 0, rules |-> {}, active |-> 0]

(***************************************************************************)
(* What a document says.                                                   *)
(***************************************************************************)
SmallestPositive(limits) ==
    IF limits \subseteq {0} THEN 0 ELSE CHOOSE n \in limits \ {0} : \A m \in limits \ {0} : n <= m

minimum(a, b) == IF a = 0 \/ (b > 0 /\ b < a) THEN b ELSE a

UserOf(d, k) == IF d[k[1]] = None THEN None ELSE d[k[1]].users[k[2]]
group(u, email) == IF u = None \/ u.conn = None THEN email ELSE u.conn
GroupOf(d, k) == group(UserOf(d, k), k[2])

\* The smallest positive limit among a group's members; 0 is no limit.
Caps(d, g) ==
    SmallestPositive({UserOf(d, k).cap : k \in {j \in Key : UserOf(d, j) # None /\ GroupOf(d, j) = g}})

NodeLimit(d, k) == IF d[k[1]] = None THEN 0 ELSE d[k[1]].node
SpeedLimit(d, k) == IF UserOf(d, k) = None THEN 0 ELSE UserOf(d, k).speed

RateFor(d, k, auto) == minimum(minimum(NodeLimit(d, k), SpeedLimit(d, k)), auto)

rulesFor(d, k) ==
    (IF d[k[1]] = None THEN {} ELSE d[k[1]].rules)
        \cup (IF UserOf(d, k) = None THEN {} ELSE UserOf(d, k).rules)

(***************************************************************************)
(* install: the document takes effect on everything that is alive.         *)
(***************************************************************************)
Counted == {f \in Flow : flow[f].at # "none"}
KeyOf(f) == <<flow[f].tag, flow[f].email>>

\* Fault: a connection stays counted where it was admitted.
Regrouped_Fault(d) == flow

Regrouped(d) ==
    [f \in Flow |-> IF f \in Counted
                    THEN [flow[f] EXCEPT !.group = GroupOf(d, KeyOf(f)), !.known = UserOf(d, KeyOf(f)) # None]
                    ELSE flow[f]]

Recounted(d) == [g \in Group |-> Cardinality({f \in Counted : Regrouped(d)[f].group = g})]

\* An automatic limit goes with the rules that imposed it.
Refreshed(d) ==
    [k \in Key |->
        LET same == state[k].rules = rulesFor(d, k) IN
        IF ~state[k].kept THEN state[k]
        ELSE [state[k] EXCEPT !.rules = rulesFor(d, k), !.auto = IF same THEN @ ELSE 0,
                              !.rate = RateFor(d, k, IF same THEN state[k].auto ELSE 0)]]

Dropped(d) == {f \in Counted : flow[f].known /\ UserOf(d, KeyOf(f)) = None /\ d[flow[f].tag] # None}

install(d) ==
    /\ doc' = d /\ raw' = d
    /\ state' = Refreshed(d) /\ flow' = Regrouped(d) /\ counts' = Recounted(d)
    /\ closing' = closing \cup Dropped(d)

(***************************************************************************)
(* apply                                                                   *)
(***************************************************************************)
\* persist refuses a file that is not the one it wrote.
Unchanged == disk = raw

Replaces(d) ==
    Unchanged /\ updates < MaxUpdates /\ updates' = updates + 1 /\ disk' = d /\ UNCHANGED edited

Applied(d) == Replaces(d) /\ install(d) /\ UNCHANGED faults

\* The directory could not be synced after the file was replaced.
AppliedLate(d) ==
    /\ Replaces(d) /\ faults < MaxFaults /\ faults' = faults + 1
    /\ UNCHANGED limiter

Loaded(file) == IF file = None THEN EmptyDocument ELSE file

Starts(file) ==
    /\ raw' = file /\ doc' = Loaded(file)
    /\ flow' = [f \in Flow |-> NoFlow] /\ counts' = [g \in Group |-> 0]
    /\ state' = [k \in Key |-> NoState] /\ closing' = {}

\* Xray ends and starts again.
Start ==
    /\ faults < MaxFaults /\ faults' = faults + 1
    /\ Starts(disk) /\ UNCHANGED <<disk, client, updates, edited>>

\* Xray ends between the rename and install.
StartAfterRename(d) ==
    /\ Replaces(d) /\ faults < MaxFaults /\ faults' = faults + 1
    /\ Starts(d)

\* Whoever replaces a policy by hand answers for its users: they are provisioned anew.
Superseded(tags) ==
    client' = [c \in Client |-> IF client[c].pc = "done" /\ Binding[c].tag \in tags
                                THEN [client[c] EXCEPT !.pc = "start"] ELSE client[c]]

\* An operator replaces or removes the policy of one inbound, whatever is there.
serve(t, p) ==
    LET d == [doc EXCEPT ![t] = p] IN
    /\ Applied(d) \/ AppliedLate(d) \/ StartAfterRename(d)
    /\ Superseded({t})

(***************************************************************************)
(* provision: the agent reads the document and writes it back with one      *)
(* user's limits, if its revision is still the one it has read.            *)
(***************************************************************************)
NoPolicy == [node |-> 0, users |-> [e \in Email |-> None], rules |-> {}]

WithUser(d, b) ==
    LET p == IF d[b.tag] = None THEN NoPolicy ELSE d[b.tag]
    IN  [d EXCEPT ![b.tag] = [p EXCEPT !.users[b.email] = b.user]]

provision(c) ==
    /\ client[c].pc = "start"
    /\ client' = [client EXCEPT ![c] = [pc |-> "read", doc |-> doc]]
    /\ UNCHANGED <<disk, limiter, updates, faults, edited>>

\* Fault: the revision is not compared.
SameRevision_Fault(c) == TRUE

SameRevision(c) == client[c].doc = doc

ProvisionApplies(c) ==
    /\ client[c].pc = "read" /\ SameRevision(c)
    /\ Applied(WithUser(client[c].doc, Binding[c]))
    /\ client' = [client EXCEPT ![c].pc = "done"]

ProvisionFails(c) ==
    /\ client[c].pc = "read"
    /\ \/ /\ ~SameRevision(c) \/ ~Unchanged
          /\ UNCHANGED <<disk, limiter, updates, faults, edited>>
       \/ SameRevision(c) /\ AppliedLate(WithUser(client[c].doc, Binding[c]))
       \/ SameRevision(c) /\ StartAfterRename(WithUser(client[c].doc, Binding[c]))
    /\ client' = [client EXCEPT ![c].pc = "start"]

\* The owner changes the file beside the process.
OwnerEdits(d) ==
    /\ ~edited /\ edited' = TRUE /\ d # disk /\ disk' = d
    /\ Superseded(Tag) /\ UNCHANGED <<limiter, updates, faults>>

(***************************************************************************)
(* Connections.                                                            *)
(***************************************************************************)
Admits(g) == Caps(doc, g) = 0 \/ counts[g] < Caps(doc, g)

acquire(f, k) ==
    LET g == GroupOf(doc, k)
        s == IF state[k].kept THEN state[k]
             ELSE [NoState EXCEPT !.kept = TRUE, !.rules = rulesFor(doc, k), !.rate = RateFor(doc, k, 0)]
    IN
    /\ flow[f].at = "none" /\ Admits(g)
    /\ flow' = [flow EXCEPT ![f] = [at |-> "open", tag |-> k[1], email |-> k[2], group |-> g,
                                    known |-> UserOf(doc, k) # None]]
    /\ counts' = [counts EXCEPT ![g] = @ + 1]
    /\ state' = [state EXCEPT ![k] = [s EXCEPT !.active = @ + 1]]
    /\ UNCHANGED <<disk, raw, doc, closing, client, updates, faults, edited>>

\* The connection's context ends, by itself or because install found its user removed.
cancel(f) ==
    /\ flow[f].at = "open"
    /\ flow' = [flow EXCEPT ![f].at = "cancelled"]
    /\ closing' = closing \ {f}
    /\ UNCHANGED <<disk, raw, doc, counts, state, client, updates, faults, edited>>

ReleasedGroup(f) == flow[f].group

\* The context's callback, once, in a goroutine of its own.
release(f) ==
    /\ flow[f].at = "cancelled"
    /\ flow' = [flow EXCEPT ![f] = NoFlow]
    /\ counts' = [counts EXCEPT ![ReleasedGroup(f)] = @ - 1]
    /\ state' = [state EXCEPT ![KeyOf(f)].active = @ - 1]
    /\ closing' = closing \ {f}
    /\ UNCHANGED <<disk, raw, doc, client, updates, faults, edited>>

(***************************************************************************)
(* evaluate, for one user: a rule triggers, its limit ends, or the user,    *)
(* not configured and not connected, is forgotten after a minute.          *)
(***************************************************************************)
Limits(k, auto) ==
    /\ state[k].kept
    /\ state' = [state EXCEPT ![k].auto = auto, ![k].rate = RateFor(doc, k, auto)]
    /\ UNCHANGED <<disk, raw, doc, flow, counts, closing, client, updates, faults, edited>>

RuleTriggers(k, r) == state[k].auto = 0 /\ r \in state[k].rules /\ Limits(k, r)
LimitEnds(k) == state[k].auto # 0 /\ Limits(k, 0)

Forgets(k) ==
    /\ state[k].kept /\ UserOf(doc, k) = None /\ state[k].active = 0
    /\ state' = [state EXCEPT ![k] = NoState]
    /\ UNCHANGED <<disk, raw, doc, flow, counts, closing, client, updates, faults, edited>>

Init ==
    /\ disk = None /\ raw = None /\ doc = EmptyDocument
    /\ flow = [f \in Flow |-> NoFlow] /\ counts = [g \in Group |-> 0]
    /\ state = [k \in Key |-> NoState] /\ closing = {}
    /\ client = [c \in Client |-> [pc |-> "start", doc |-> None]]
    /\ updates = 0 /\ faults = 0 /\ edited = FALSE

Next ==
    \/ \E t \in Tag, p \in Policy \cup {None} : serve(t, p)
    \/ \E t \in Tag, p \in Policy : OwnerEdits([EmptyDocument EXCEPT ![t] = p])
    \/ \E c \in Client : provision(c) \/ ProvisionApplies(c) \/ ProvisionFails(c)
    \/ Start
    \/ \E f \in Flow, k \in Key : acquire(f, k)
    \/ \E f \in Flow : cancel(f) \/ release(f)
    \/ \E k \in Key : LimitEnds(k) \/ Forgets(k)
    \/ \E k \in Key, r \in Rule : RuleTriggers(k, r)

Spec == Init /\ [][Next]_vars

(***************************************************************************)
(* What the limiter promises.                                              *)
(***************************************************************************)
\* Every variable has its type.
TypeOK ==
    /\ disk \in Document \cup {None} /\ raw \in Document \cup {None} /\ doc \in Document
    /\ flow \in [Flow -> [at : {"none", "open", "cancelled"}, tag : Tag \cup {None},
                          email : Email \cup {None}, group : Group \cup {None}, known : BOOLEAN]]
    /\ counts \in [Group -> Nat]
    /\ state \in [Key -> [kept : BOOLEAN, rate : Nat, auto : Nat, rules : SUBSET Rule, active : Nat]]
    /\ closing \subseteq Flow
    /\ client \in [Client -> [pc : {"start", "read", "done"}, doc : Document \cup {None}]]
    /\ updates \in 0..MaxUpdates /\ faults \in 0..MaxFaults /\ edited \in BOOLEAN

Live(d, g) == Cardinality({f \in Counted : GroupOf(d, KeyOf(f)) = g})

\* The count of a group is the number of its connections under the document in force, whatever
\* changed while they were open (install's recount, acquire, release).
CountsMatchFlows == \A g \in Group : counts[g] = Live(doc, g)

\* Every connection's user is kept, with its connections counted, and has the smallest rate that its
\* inbound, itself and an automatic limit ask for: a change reaches open connections too (install, refreshRate).
RateInForce ==
    \A k \in Key :
        /\ state[k].active = Cardinality({f \in Counted : KeyOf(f) = k})
        /\ state[k].active > 0 => state[k].kept
        /\ state[k].kept => state[k].rate =
               SmallestPositive({NodeLimit(doc, k), SpeedLimit(doc, k), state[k].auto})

\* An automatic limit never outlives the rules it came from (install's comparison of rules).
AutomaticFromRules ==
    \A k \in Key : state[k].auto # 0 => state[k].auto \in rulesFor(doc, k)

\* What the document in force says is what every open connection and its user get.
LimitsInForce == CountsMatchFlows /\ RateInForce /\ AutomaticFromRules

\* While the file is the one this process wrote or read, what is in force is what it says, so a
\* restart changes nothing (persist before install, Start).
InForceIsOnDisk == disk = raw => doc = Loaded(disk)

\* The limits of every provisioning command that was answered with success are in the document:
\* no other command, failed update or restart drops them (the expected revision, persist).
ProvisionedKept ==
    \A c \in Client : client[c].pc = "done" =>
        UserOf(doc, <<Binding[c].tag, Binding[c].email>>) = Binding[c].user

\* Nothing that was acknowledged is lost: neither to a restart nor to another writer.
DocumentHonest == InForceIsOnDisk /\ ProvisionedKept
=============================================================================
